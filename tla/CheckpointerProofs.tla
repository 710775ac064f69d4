-------------------------- MODULE CheckpointerProofs --------------------------
(***************************************************************************)
(* Proofs about Checkpointer, for every set of ranks, every schedule of    *)
(* saves, any number of parts of a checkpoint and any number of crashes.   *)
(***************************************************************************)
EXTENDS Checkpointer, SequenceTheorems, FiniteSetTheorems, TLAPS

-----------------------------------------------------------------------------
(* The inductive invariant.                                                *)

SaverPcs == {"train", "join", "arrive", "submit", "dumping", "saved", "gone"}
DumpPcs == {"idle", "open", "write", "success", "list", "mark", "rename", "dead"}
Kinds == {"dumper", "saver"}

\* Each run of the job may go one iteration further than the one before.
Bound == TrainIters + run - 1

TypeOK ==
  /\ run \in 1 .. MaxCrashes + 1
  /\ iter \in 0 .. Bound /\ start \in 0 .. iter /\ marked \in 0 .. Bound
  /\ saver \in [Ranks -> [pc : SaverPcs, part : 1 .. Parts]]
  /\ tasks \in [Ranks -> Seq(Dirs)]
  /\ dump \in [Threads -> [pc : DumpPcs, task : Tasks]]
  /\ files \in [Dirs \X Ranks -> {Partial} \cup 0 .. run]
  /\ success \in [Dirs -> [Ranks -> 0 .. run]]
  /\ tmp \in [Ranks -> 0 .. Bound]

\* The order in which tasks are submitted, and the task that is next.
Before(t, u) == t[1] < u[1] \/ (t[1] = u[1] /\ t[2] < u[2])

Due(r) == IF saver[r].pc \in {"saved", "gone"} THEN <<iter + 1, 1>> ELSE <<iter, saver[r].part>>

D(r) == dump[<<r, "dumper">>]
S(r) == dump[<<r, "saver">>]

\* This run has written part k of checkpoint p, or the .success of its root.
Here(r, p, k) == files[<<<<p, k>>, r>>] = run
Root(r, p) == success[<<p, Parts>>][r] = run

Sync == ~AsyncDump \/ Last

Joining(r) == saver[r].pc \in {"train", "join"}

\* A task of this run that was submitted and is not dumped yet.
Waits(r, t) == t \in Dirs /\ start <= t[1] /\ Before(t, Due(r)) /\ (Sync => t[1] < iter)

Pending(r, t) == D(r).task = t \/ \E j \in 1 .. Len(tasks[r]) : tasks[r][j] = t

\* Where the two threads of a rank are with regard to each other.
Phases(r) ==
  /\ Joining(r) => saver[r].part = 1
  /\ saver[r].pc # "train" => iter >= 1
  /\ Sync /\ ~Joining(r) => tasks[r] = <<>>
  /\ saver[r].pc = "dumping" =>
       /\ Sync
       /\ S(r).pc = "idle" => /\ Here(r, iter, saver[r].part)
                              /\ success[<<iter, saver[r].part>>][r] = run
  /\ S(r).pc # "idle" =>
       saver[r].pc = "dumping" /\ S(r).task = <<iter, saver[r].part>> /\ S(r).pc # "dead"
  /\ ~AsyncDump => tasks[r] = <<>> /\ D(r).pc = "idle"
  /\ saver[r].pc = "gone" => D(r).pc = "idle" /\ Last
  /\ \A x \in Kinds : dump[<<r, x>>].pc = "idle" <=> dump[<<r, x>>].task = NoTask

\* The tasks of a rank are dumped in the order they were submitted in.
Queue(r) ==
  /\ \A i \in 1 .. Len(tasks[r]) : Waits(r, tasks[r][i])
  /\ \A i, j \in 1 .. Len(tasks[r]) : i < j => Before(tasks[r][i], tasks[r][j])
  /\ D(r).pc # "idle" =>
       Waits(r, D(r).task) /\ \A i \in 1 .. Len(tasks[r]) : Before(D(r).task, tasks[r][i])
  /\ Len(tasks[r]) <=
       IF saver[r].pc \in {"arrive", "submit", "dumping"} THEN saver[r].part - 1 ELSE Parts

\* The parts before one that is pending, or due, are written or pending.
PartsInOrder(r) ==
  \A p \in Iters : \A k \in 1 .. Parts :
    (Pending(r, <<p, k>>) \/ Due(r) = <<p, k>>) =>
      \A j \in 1 .. k - 1 : Here(r, p, j) \/ Pending(r, <<p, j>>)

\* What a thread that is past a stage of _dump_with_callback() has written.
Written(r, x) ==
  LET d == dump[<<r, x>>] IN
  /\ d.pc \in {"success", "list", "mark", "rename"} => Here(r, d.task[1], d.task[2])
  /\ d.pc \in {"list", "mark", "rename"} => success[d.task][r] = run
  /\ d.pc \in {"mark", "rename"} => d.task[2] = Parts

\* A root that has its .success file comes after all other parts, and before
\* whatever is still to be dumped.
Rooted(r) ==
  \A p \in Iters : Root(r, p) =>
    /\ \A k \in 1 .. Parts : Here(r, p, k)
    /\ p < Due(r)[1] \/ (p = iter /\ saver[r].pc = "dumping" /\ saver[r].part = Parts)
    /\ \A i \in 1 .. Len(tasks[r]) : p < tasks[r][i][1]
    /\ D(r).pc # "idle" => p <= D(r).task[1] \/ (Sync /\ p = iter)
    /\ \A x \in Kinds : dump[<<r, x>>].pc \in {"open", "write", "success"} => p # dump[<<r, x>>].task[1]

RankInv(r) ==
  Phases(r) /\ Queue(r) /\ PartsInOrder(r) /\ (\A x \in Kinds : Written(r, x)) /\ Rooted(r)

\* All ranks have left a .success file in the root, in this run or another.
Marked(p) == p # 0 => \A r \in Ranks : success[<<p, Parts>>][r] # 0

\* Only what all ranks have finished is marked, and by a run that wrote it.
MarkInv ==
  /\ \A r \in Ranks : \A x \in Kinds :
       /\ dump[<<r, x>>].pc \in {"mark", "rename"} => Marked(dump[<<r, x>>].task[1])
       /\ dump[<<r, x>>].pc = "rename" /\ tmp[r] # 0 => Marked(tmp[r]) /\ Root(r, tmp[r])
  /\ Marked(marked)
  /\ marked < start \/ marked = 0 \/ \E r \in Ranks : Root(r, marked)

-----------------------------------------------------------------------------
(* Types.                                                                  *)

\* The directories of an iteration, and what is in a pair.
LEMMA DirTypes ==
  /\ \A p \in Iters : \A k \in 1 .. Parts : <<p, k>> \in Dirs
  /\ \A t \in Dirs : t[1] \in Iters /\ t[2] \in 1 .. Parts /\ t = <<t[1], t[2]>>
  /\ NoTask \notin Dirs
  /\ \A r \in Ranks : \A x \in Kinds : <<r, x>> \in Threads
  /\ \A th \in Threads : \E r \in Ranks : \E x \in Kinds : th = <<r, x>>
<1>1. \A p \in Iters : \A k \in 1 .. Parts : <<p, k>> \in Dirs
  BY DEF Dirs
<1>2. \A t \in Dirs : t[1] \in Iters /\ t[2] \in 1 .. Parts /\ t = <<t[1], t[2]>>
  BY DEF Dirs
<1>3. NoTask \notin Dirs
  BY DEF Dirs, Iters, NoTask
<1>4. \A r \in Ranks : \A x \in Kinds : <<r, x>> \in Threads
  BY DEF Threads, Kinds
<1>5. \A th \in Threads : \E r \in Ranks : \E x \in Kinds : th = <<r, x>>
  BY DEF Threads, Kinds
<1> QED BY <1>1, <1>2, <1>3, <1>4, <1>5

\* The parts are numbered from one, and the root is one of them.
LEMMA PartsType ==
  ASSUME CheckpointerAssumption
  PROVE  Parts \in 1 .. Parts /\ Parts \in Nat /\ \A k \in 1 .. Parts : \A j \in 1 .. k - 1 : j \in 1 .. Parts
BY DEF CheckpointerAssumption

\* Once something was saved the iteration is the name of a checkpoint.
LEMMA IterType ==
  ASSUME CheckpointerAssumption, TypeOK
  PROVE  iter \in Int /\ (iter >= 1 => iter \in Iters) /\ Bound \in Int
<1>1. TrainIters \in Int /\ MaxCrashes \in Int /\ run \in Int /\ run <= MaxCrashes + 1
  BY DEF CheckpointerAssumption, TypeOK
<1>2. Bound \in Int /\ Bound <= TrainIters + 1 + MaxCrashes /\ iter \in 0 .. Bound
  BY <1>1 DEF Bound, TypeOK
<1> QED BY <1>1, <1>2 DEF Iters

\* A thread that is dumping has a task.
LEMMA DumpTypes ==
  ASSUME TypeOK, NEW r \in Ranks, NEW x \in Kinds
  PROVE  /\ dump[<<r, x>>].pc \in DumpPcs
         /\ dump[<<r, x>>].task \in Dirs \/ dump[<<r, x>>].task = NoTask
         /\ dump[<<r, x>>].task \in Dirs <=> dump[<<r, x>>].task # NoTask
<1>1. dump[<<r, x>>] \in [pc : DumpPcs, task : Tasks]
  BY DirTypes DEF TypeOK
<1> QED BY <1>1, DirTypes DEF Tasks

\* What a change of one dump leaves of the others.
LEMMA DumpAt ==
  ASSUME TypeOK, NEW r \in Ranks, NEW x \in Kinds, NEW v,
         dump' = [dump EXCEPT ![<<r, x>>] = v]
  PROVE  /\ dump'[<<r, x>>] = v
         /\ \A s \in Ranks : \A y \in Kinds :
              s # r \/ y # x => dump'[<<s, y>>] = dump[<<s, y>>]
<1>1. <<r, x>> \in Threads /\ dump \in [Threads -> [pc : DumpPcs, task : Tasks]]
  BY DirTypes DEF TypeOK
<1>2. dump'[<<r, x>>] = v
  BY <1>1
<1>3. ASSUME NEW s \in Ranks, NEW y \in Kinds, s # r \/ y # x
      PROVE  dump'[<<s, y>>] = dump[<<s, y>>]
  <2>1. <<s, y>> \in Threads /\ <<s, y>> # <<r, x>>
    BY <1>3, DirTypes
  <2> QED BY <1>1, <2>1
<1> QED BY <1>2, <1>3

\* What nothing of a rank changes, its invariant holds of.
Same(r) ==
  /\ iter' = iter /\ start' = start /\ run' = run
  /\ saver'[r] = saver[r] /\ tasks'[r] = tasks[r]
  /\ \A x \in Kinds : dump'[<<r, x>>] = dump[<<r, x>>]
  /\ \A d \in Dirs : files'[<<d, r>>] = files[<<d, r>>] /\ success'[d][r] = success[d][r]

\* A step of another rank keeps what holds of this one.
LEMMA SameRank ==
  ASSUME CheckpointerAssumption, TypeOK, NEW r \in Ranks, RankInv(r), Same(r)
  PROVE  RankInv(r)'
<1>0. /\ D(r)' = D(r) /\ S(r)' = S(r) /\ Due(r)' = Due(r) /\ (Sync <=> Sync') /\ (Last <=> Last')
      /\ (Joining(r) <=> Joining(r)') /\ iter' = iter /\ start' = start /\ run' = run
      /\ saver'[r] = saver[r] /\ tasks'[r] = tasks[r]
  BY DEF Same, D, S, Due, Sync, Last, Joining, Kinds
<1>1. \A p \in Iters : \A k \in 1 .. Parts :
        /\ Here(r, p, k)' <=> Here(r, p, k)
        /\ success'[<<p, k>>][r] = success[<<p, k>>][r]
  BY <1>0, DirTypes DEF Same, Here
<1>2. \A p \in Iters : Root(r, p)' <=> Root(r, p)
  BY <1>0, <1>1, PartsType DEF Root
<1>3. \A t : (Pending(r, t) <=> Pending(r, t)') /\ (Waits(r, t) <=> Waits(r, t)')
  BY <1>0 DEF Pending, Waits
<1>4. \A x \in Kinds : dump'[<<r, x>>] = dump[<<r, x>>]
  BY DEF Same
<1>5. Phases(r)'
  <2>1. ASSUME iter >= 1
        PROVE  /\ Here(r, iter, saver[r].part)' <=> Here(r, iter, saver[r].part)
               /\ success'[<<iter, saver[r].part>>][r] = success[<<iter, saver[r].part>>][r]
    BY <1>0, <1>1, <2>1, IterType DEF TypeOK
  <2>2. saver[r].pc = "dumping" => iter >= 1
    BY DEF RankInv, Phases
  <2> QED BY <1>0, <1>4, <2>1, <2>2 DEF RankInv, Phases
<1>6. Queue(r)'
  BY <1>0, <1>3 DEF RankInv, Queue
<1>7. PartsInOrder(r)'
  <2>1. SUFFICES ASSUME NEW p \in Iters, NEW k \in 1 .. Parts, NEW j \in 1 .. k - 1,
                        Pending(r, <<p, k>>) \/ Due(r) = <<p, k>>
                 PROVE  Here(r, p, j)' \/ Pending(r, <<p, j>>)'
    BY <1>0, <1>3 DEF PartsInOrder
  <2>2. Here(r, p, j) \/ Pending(r, <<p, j>>)
    BY <2>1 DEF RankInv, PartsInOrder
  <2>3. j \in 1 .. Parts
    BY PartsType
  <2> QED BY <1>1, <1>3, <2>2, <2>3
<1>8. ASSUME NEW x \in Kinds
      PROVE  Written(r, x)'
  <2>1. Written(r, x)
    BY DEF RankInv
  <2>2. dump[<<r, x>>].task \in Dirs \/ dump[<<r, x>>].pc \notin {"success", "list", "mark", "rename"}
    BY DumpTypes DEF RankInv, Phases
  <2>3. \A t \in Dirs : /\ Here(r, t[1], t[2])' <=> Here(r, t[1], t[2])
                        /\ success'[t][r] = success[t][r]
    BY <1>1, DirTypes
  <2> QED BY <1>0, <1>4, <2>1, <2>2, <2>3 DEF Written
<1>9. Rooted(r)'
  <2>1. ASSUME NEW p \in Iters, Root(r, p)'
        PROVE  \A k \in 1 .. Parts : Here(r, p, k)'
    BY <1>1, <1>2, <2>1 DEF RankInv, Rooted
  <2> QED BY <1>0, <1>2, <1>4, <2>1 DEF RankInv, Rooted
<1> QED BY <1>5, <1>6, <1>7, <1>8, <1>9 DEF RankInv

-----------------------------------------------------------------------------
(* The trainer thread moves on, with nothing written.                      *)

\* Nothing that was written changes on the disk.
Kept(r) ==
  /\ run' = run /\ start' = start
  /\ \A d \in Dirs : files'[<<d, r>>] = files[<<d, r>>] /\ success'[d][r] = success[d][r]

\* What this run has written on the disk stays written.
LEMMA KeptFacts ==
  ASSUME CheckpointerAssumption, NEW r \in Ranks, Kept(r)
  PROVE  /\ \A p \in Iters : \A k \in 1 .. Parts :
              /\ Here(r, p, k)' <=> Here(r, p, k)
              /\ success'[<<p, k>>][r] = success[<<p, k>>][r]
         /\ \A t \in Dirs : /\ Here(r, t[1], t[2])' <=> Here(r, t[1], t[2])
                            /\ success'[t][r] = success[t][r]
         /\ \A p \in Iters : Root(r, p)' <=> Root(r, p)
<1>1. \A p \in Iters : \A k \in 1 .. Parts :
              /\ Here(r, p, k)' <=> Here(r, p, k)
              /\ success'[<<p, k>>][r] = success[<<p, k>>][r]
  BY DirTypes DEF Kept, Here
<1>2. \A t \in Dirs : /\ Here(r, t[1], t[2])' <=> Here(r, t[1], t[2])
                      /\ success'[t][r] = success[t][r]
  BY <1>1, DirTypes
<1>3. \A p \in Iters : Root(r, p)' <=> Root(r, p)
  BY <1>1, PartsType DEF Kept, Root
<1> QED BY <1>1, <1>2, <1>3

\* Both threads of r have what they had, and the queue.
Steady(r) ==
  /\ Kept(r)
  /\ tasks'[r] = tasks[r]
  /\ \A x \in Kinds : dump'[<<r, x>>] = dump[<<r, x>>]

\* What else a step of the trainer has to see to.
Moves(r) ==
  /\ Phases(r)'
  /\ \A t : Waits(r, t) => Waits(r, t)'
  /\ Len(tasks[r]) <=
       IF saver'[r].pc \in {"arrive", "submit", "dumping"} THEN saver'[r].part - 1 ELSE Parts
  /\ \A p \in Iters : \A k \in 1 .. Parts : Due(r)' = <<p, k>> =>
       \A j \in 1 .. k - 1 : Here(r, p, j) \/ Pending(r, <<p, j>>)
  /\ \A p \in Iters : Root(r, p) =>
       /\ p < Due(r)'[1] \/ (p = iter' /\ saver'[r].pc = "dumping" /\ saver'[r].part = Parts)
       /\ D(r).pc # "idle" => p <= D(r).task[1] \/ (Sync' /\ p = iter')

\* A step of the trainer that leaves queue, threads and files alone.
LEMMA SteadyRank ==
  ASSUME CheckpointerAssumption, TypeOK, NEW r \in Ranks, RankInv(r), Steady(r), Moves(r)
  PROVE  RankInv(r)'
<1>0. /\ tasks'[r] = tasks[r] /\ D(r)' = D(r) /\ S(r)' = S(r)
      /\ \A x \in Kinds : dump'[<<r, x>>] = dump[<<r, x>>]
  BY DEF Steady, D, S, Kinds
<1>1. /\ \A p \in Iters : \A k \in 1 .. Parts : Here(r, p, k)' <=> Here(r, p, k)
      /\ \A t \in Dirs : /\ Here(r, t[1], t[2])' <=> Here(r, t[1], t[2])
                         /\ success'[t][r] = success[t][r]
      /\ \A p \in Iters : Root(r, p)' <=> Root(r, p)
      /\ run' = run
  BY KeptFacts DEF Steady, Kept
<1>2. \A t : Pending(r, t) <=> Pending(r, t)'
  BY <1>0 DEF Pending
<1>3. Queue(r)'
  BY <1>0 DEF RankInv, Queue, Moves
<1>4. PartsInOrder(r)'
  <2>1. SUFFICES ASSUME NEW p \in Iters, NEW k \in 1 .. Parts, NEW j \in 1 .. k - 1,
                        Pending(r, <<p, k>>) \/ Due(r)' = <<p, k>>
                 PROVE  Here(r, p, j)' \/ Pending(r, <<p, j>>)'
    BY <1>2 DEF PartsInOrder
  <2>2. Here(r, p, j) \/ Pending(r, <<p, j>>)
    BY <2>1 DEF RankInv, PartsInOrder, Moves
  <2>3. j \in 1 .. Parts
    BY PartsType
  <2> QED BY <1>1, <1>2, <2>2, <2>3
<1>5. ASSUME NEW x \in Kinds
      PROVE  Written(r, x)'
  <2>1. Written(r, x)
    BY DEF RankInv
  <2>2. dump[<<r, x>>].task \in Dirs \/ dump[<<r, x>>].pc \notin {"success", "list", "mark", "rename"}
    BY DumpTypes DEF RankInv, Phases
  <2> QED BY <1>0, <1>1, <2>1, <2>2 DEF Written
<1>6. Rooted(r)'
  <2>1. ASSUME NEW p \in Iters, Root(r, p)'
        PROVE  \A k \in 1 .. Parts : Here(r, p, k)'
    BY <1>1, <2>1 DEF RankInv, Rooted
  <2> QED BY <1>0, <1>1, <2>1 DEF RankInv, Rooted, Moves
<1> QED BY <1>3, <1>4, <1>5, <1>6 DEF RankInv, Moves

\* What a rank's type says of its trainer thread.
LEMMA SaverTypes ==
  ASSUME CheckpointerAssumption, TypeOK, NEW r \in Ranks
  PROVE  /\ saver[r].pc \in SaverPcs /\ saver[r].part \in 1 .. Parts
         /\ iter \in Int /\ iter >= 0 /\ start \in Int /\ run \in Int /\ run >= 1
         /\ Len(tasks[r]) \in Nat
         /\ \A i \in 1 .. Len(tasks[r]) : tasks[r][i] \in Dirs
<1>1. saver[r] \in [pc : SaverPcs, part : 1 .. Parts] /\ tasks[r] \in Seq(Dirs)
  BY DEF TypeOK
<1>2. Len(tasks[r]) \in Nat /\ \A i \in 1 .. Len(tasks[r]) : tasks[r][i] \in Dirs
  BY <1>1, LenProperties, ElementOfSeq
<1>3. iter \in Int /\ iter >= 0 /\ start \in Int /\ run \in Int /\ run >= 1
  BY IterType DEF TypeOK
<1> QED BY <1>1, <1>2, <1>3

\* A task is submitted before the one that is due.
LEMMA WaitsFacts ==
  ASSUME CheckpointerAssumption, TypeOK, NEW r \in Ranks, NEW t, Waits(r, t)
  PROVE  /\ t \in Dirs /\ t[1] \in Int /\ t[2] \in Int /\ t[2] >= 1 /\ t[2] <= Parts
         /\ start <= t[1] /\ t[1] <= iter
         /\ saver[r].pc \notin {"saved", "gone"} =>
              t[1] < iter \/ (t[1] = iter /\ t[2] < saver[r].part)
         /\ Sync => t[1] < iter
<1>1. t \in Dirs /\ start <= t[1] /\ Before(t, Due(r)) /\ (Sync => t[1] < iter)
  BY DEF Waits
<1>2. t[1] \in Int /\ t[2] \in Int /\ t[2] >= 1 /\ t[2] <= Parts /\ Parts \in Int
  BY <1>1, DirTypes DEF Iters, CheckpointerAssumption
<1>3. saver[r].part \in Int /\ saver[r].part >= 1 /\ iter \in Int
  BY SaverTypes
<1>4. CASE saver[r].pc \in {"saved", "gone"}
  <2>1. t[1] < iter + 1 \/ (t[1] = iter + 1 /\ t[2] < 1)
    BY <1>1, <1>4 DEF Before, Due
  <2> QED BY <1>1, <1>2, <1>3, <1>4, <2>1
<1>5. CASE saver[r].pc \notin {"saved", "gone"}
  <2>1. t[1] < iter \/ (t[1] = iter /\ t[2] < saver[r].part)
    BY <1>1, <1>5 DEF Before, Due
  <2> QED BY <1>1, <1>2, <1>3, <1>5, <2>1
<1> QED BY <1>4, <1>5

\* The trainer runs an iteration that is no checkpoint.
LEMMA TrainIterRank ==
  ASSUME CheckpointerAssumption, TypeOK, NEW r \in Ranks, RankInv(r), TrainIter
  PROVE  RankInv(r)'
<1>0. /\ saver[r].pc = "train" /\ saver'[r] = saver[r] /\ saver[r].part = 1 /\ ~Last
      /\ iter' = iter + 1 /\ iter \in Int /\ iter >= 0
  BY SaverTypes DEF TrainIter, AllAt, RankInv, Phases, Joining
<1>1. Steady(r)
  BY <1>0 DEF TrainIter, Steady, Kept, diskVars
<1>2. Due(r) = <<iter, 1>> /\ Due(r)' = <<iter + 1, 1>> /\ start' = start
  BY <1>0 DEF Due, TrainIter
<1>3. Phases(r)'
  <2>1. D(r)' = D(r) /\ S(r)' = S(r) /\ tasks'[r] = tasks[r] /\ S(r).pc = "idle"
        /\ \A x \in Kinds : dump'[<<r, x>>] = dump[<<r, x>>]
    BY <1>0, <1>1 DEF Steady, D, S, Kinds, RankInv, Phases
  <2> QED BY <1>0, <2>1 DEF RankInv, Phases, Joining
<1>4. ASSUME NEW t, Waits(r, t)
      PROVE  Waits(r, t)'
  <2>1. t \in Dirs /\ t[1] \in Int /\ start <= t[1] /\ t[1] < iter
    BY <1>0, <1>4, WaitsFacts
  <2>2. t[1] < iter + 1
    BY <1>0, <2>1
  <2>3. Before(t, Due(r)')
    BY <1>2, <2>2 DEF Before
  <2> QED BY <1>0, <1>2, <2>1, <2>2, <2>3 DEF Waits
<1>5. ASSUME NEW p \in Iters, Root(r, p)
      PROVE  /\ p < Due(r)'[1]
             /\ D(r).pc # "idle" => p <= D(r).task[1]
  <2>1. p < iter /\ p \in Int
    BY <1>0, <1>2, <1>5 DEF RankInv, Rooted, Iters
  <2>2. D(r).pc # "idle" => p <= D(r).task[1]
    BY <1>5, <2>1, <1>0 DEF RankInv, Rooted
  <2> QED BY <1>0, <1>2, <2>1, <2>2
<1>6. Moves(r)
  <2>1. Len(tasks[r]) <= Parts
    BY <1>0 DEF RankInv, Queue
  <2>2. \A p \in Iters : \A k \in 1 .. Parts : Due(r)' = <<p, k>> => k = 1
    BY <1>2
  <2> QED BY <1>0, <1>3, <1>4, <1>5, <2>1, <2>2 DEF Moves
<1> QED BY <1>1, <1>6, SteadyRank

\* The task that is due does not move when the trainer begins to save, waits at
\* a barrier or is let through.
LEMMA SameDueRank ==
  ASSUME CheckpointerAssumption, TypeOK, NEW r \in Ranks, RankInv(r), Steady(r),
         iter' = iter, Phases(r)', Due(r)' = Due(r),
         saver[r].pc # "dumping",
         Len(tasks[r]) <=
           IF saver'[r].pc \in {"arrive", "submit", "dumping"} THEN saver'[r].part - 1 ELSE Parts
  PROVE  RankInv(r)'
<1>1. (Sync <=> Sync') /\ start' = start
  BY DEF Sync, Last, Steady, Kept
<1>2. ASSUME NEW t, Waits(r, t)
      PROVE  Waits(r, t)'
  BY <1>1, <1>2 DEF Waits
<1>3. Moves(r)
  BY <1>1, <1>2 DEF Moves, RankInv, PartsInOrder, Rooted
<1> QED BY <1>3, SteadyRank

\* A save begins: the rank joins its queue, nothing else.
LEMMA SaveBeginRank ==
  ASSUME CheckpointerAssumption, TypeOK, NEW r \in Ranks, RankInv(r), SaveBegin
  PROVE  RankInv(r)'
<1>0. /\ saver[r].pc = "train" /\ saver[r].part = 1
      /\ saver'[r].pc = "join" /\ saver'[r].part = 1
      /\ iter' = iter /\ iter >= 1
  BY SaverTypes DEF SaveBegin, AllAt, RankInv, Phases, Joining, SaveDue, jobVars, TypeOK
<1>1. Steady(r)
  BY <1>0 DEF SaveBegin, Steady, Kept, diskVars, jobVars
<1>2. Due(r)' = Due(r)
  BY <1>0 DEF Due
<1>3. Phases(r)'
  <2>1. D(r)' = D(r) /\ S(r)' = S(r) /\ tasks'[r] = tasks[r] /\ S(r).pc = "idle"
        /\ \A x \in Kinds : dump'[<<r, x>>] = dump[<<r, x>>]
    BY <1>0, <1>1 DEF Steady, D, S, Kinds, RankInv, Phases
  <2> QED BY <1>0, <2>1 DEF RankInv, Phases, Joining
<1>4. Len(tasks[r]) <= Parts
  BY <1>0 DEF RankInv, Queue
<1> QED BY <1>0, <1>1, <1>2, <1>3, <1>4, SameDueRank

\* All ranks go on with the next iteration.
LEMMA NextIterRank ==
  ASSUME CheckpointerAssumption, TypeOK, NEW r \in Ranks, RankInv(r), NextIter
  PROVE  RankInv(r)'
<1>0. /\ saver[r].pc = "saved" /\ saver'[r].pc = "train" /\ saver'[r].part = 1 /\ ~Last
      /\ iter' = iter + 1 /\ iter \in Int /\ iter >= 0
  BY SaverTypes DEF NextIter, AllAt
<1>1. Steady(r)
  BY <1>0 DEF NextIter, Steady, Kept, diskVars
<1>2. Due(r) = <<iter + 1, 1>> /\ Due(r)' = <<iter + 1, 1>> /\ start' = start
  BY <1>0 DEF Due, NextIter
<1>3. Phases(r)'
  <2>1. D(r)' = D(r) /\ S(r)' = S(r) /\ tasks'[r] = tasks[r] /\ S(r).pc = "idle"
        /\ \A x \in Kinds : dump'[<<r, x>>] = dump[<<r, x>>]
    BY <1>0, <1>1 DEF Steady, D, S, Kinds, RankInv, Phases
  <2> QED BY <1>0, <2>1 DEF RankInv, Phases, Joining
<1>4. ASSUME NEW t, Waits(r, t)
      PROVE  Waits(r, t)'
  <2>1. t \in Dirs /\ t[1] \in Int /\ start <= t[1] /\ t[1] <= iter
    BY <1>0, <1>4, WaitsFacts
  <2>2. t[1] < iter + 1
    BY <1>0, <2>1
  <2>3. Before(t, Due(r)')
    BY <1>2, <2>2 DEF Before
  <2> QED BY <1>0, <1>2, <2>1, <2>2, <2>3 DEF Waits
<1>5. ASSUME NEW p \in Iters, Root(r, p)
      PROVE  /\ p < Due(r)'[1]
             /\ D(r).pc # "idle" => p <= D(r).task[1]
  <2>1. p < iter + 1
    BY <1>0, <1>2, <1>5 DEF RankInv, Rooted
  <2>2. D(r).pc # "idle" => ~Sync
    BY <1>0 DEF RankInv, Phases, Sync
  <2>3. D(r).pc # "idle" => p <= D(r).task[1]
    BY <1>5, <2>2 DEF RankInv, Rooted
  <2> QED BY <1>0, <1>2, <2>1, <2>3
<1>6. Moves(r)
  <2>1. Len(tasks[r]) <= Parts
    BY <1>0 DEF RankInv, Queue
  <2>2. \A p \in Iters : \A k \in 1 .. Parts : Due(r)' = <<p, k>> => k = 1
    BY <1>2
  <2> QED BY <1>0, <1>3, <1>4, <1>5, <2>1, <2>2 DEF Moves
<1> QED BY <1>1, <1>6, SteadyRank

\* The barrier lets every rank submit.
LEMMA BarrierRank ==
  ASSUME CheckpointerAssumption, TypeOK, NEW r \in Ranks, RankInv(r), Barrier
  PROVE  RankInv(r)'
<1>0. /\ saver[r].pc = "arrive" /\ saver'[r].pc = "submit" /\ saver'[r].part = saver[r].part
      /\ iter' = iter
  <2>1. saver[r] \in [pc : SaverPcs, part : 1 .. Parts]
    BY DEF TypeOK
  <2> QED BY <2>1 DEF Barrier, AllAt, jobVars
<1>1. Steady(r)
  BY <1>0 DEF Barrier, Steady, Kept, diskVars, jobVars
<1>2. Due(r)' = Due(r)
  BY <1>0 DEF Due
<1>3. Phases(r)'
  <2>1. D(r)' = D(r) /\ S(r)' = S(r) /\ tasks'[r] = tasks[r] /\ S(r).pc = "idle"
        /\ \A x \in Kinds : dump'[<<r, x>>] = dump[<<r, x>>]
    BY <1>0, <1>1 DEF Steady, D, S, Kinds, RankInv, Phases
  <2>2. Sync' <=> Sync
    BY <1>0 DEF Sync, Last
  <2> QED BY <1>0, <2>1, <2>2 DEF RankInv, Phases, Joining
<1>4. Len(tasks[r]) <= saver[r].part - 1
  BY <1>0 DEF RankInv, Queue
<1> QED BY <1>0, <1>1, <1>2, <1>3, <1>4, SameDueRank

\* The trainer finds the queue of its dumper empty.
LEMMA JoinRank ==
  ASSUME CheckpointerAssumption, TypeOK, NEW r \in Ranks, RankInv(r), Join(r)
  PROVE  RankInv(r)'
<1>0. /\ saver[r].pc = "join" /\ saver'[r].pc = "arrive" /\ saver[r].part = 1
      /\ saver'[r].part = saver[r].part
      /\ iter' = iter /\ tasks[r] = <<>>
  <2>1. saver[r] \in [pc : SaverPcs, part : 1 .. Parts] /\ saver \in [Ranks -> [pc : SaverPcs, part : 1 .. Parts]]
    BY DEF TypeOK
  <2> QED BY <2>1 DEF Join, Joined, jobVars, RankInv, Phases, Joining
<1>1. Steady(r)
  BY <1>0 DEF Join, Steady, Kept, diskVars, jobVars
<1>2. Due(r)' = Due(r)
  BY <1>0 DEF Due
<1>3. Phases(r)'
  <2>1. D(r)' = D(r) /\ S(r)' = S(r) /\ tasks'[r] = tasks[r] /\ S(r).pc = "idle"
        /\ \A x \in Kinds : dump'[<<r, x>>] = dump[<<r, x>>]
    BY <1>0, <1>1 DEF Steady, D, S, Kinds, RankInv, Phases
  <2> QED BY <1>0, <2>1 DEF RankInv, Phases, Joining
<1>4. Len(tasks[r]) <= saver[r].part - 1
  <2>1. Len(tasks[r]) = 0
    BY <1>0
  <2> QED BY <1>0, <2>1
<1> QED BY <1>0, <1>1, <1>2, <1>3, <1>4, SameDueRank

\* The trainer has written a part itself.
LEMMA SyncDoneRank ==
  ASSUME CheckpointerAssumption, TypeOK, NEW r \in Ranks, RankInv(r), SyncDone(r)
  PROVE  RankInv(r)'
<1>0. /\ saver[r].pc = "dumping" /\ S(r).pc = "idle" /\ saver'[r] = NextPart(r)
      /\ iter' = iter /\ start' = start /\ Sync /\ Sync' /\ tasks[r] = <<>>
      /\ iter >= 1 /\ iter \in Int /\ iter \in Iters
      /\ saver[r].part \in 1 .. Parts
      /\ Here(r, iter, saver[r].part)
  <2>1. S(r).pc = "idle"
    BY DEF SyncDone, S, Idle
  <2>2. saver \in [Ranks -> [pc : SaverPcs, part : 1 .. Parts]]
    BY DEF TypeOK
  <2>3. saver[r].pc = "dumping" /\ saver'[r] = NextPart(r) /\ iter' = iter /\ start' = start
    BY <2>2 DEF SyncDone, jobVars
  <2>4. Sync /\ Sync' /\ tasks[r] = <<>> /\ Here(r, iter, saver[r].part) /\ iter >= 1
    BY <2>1, <2>3 DEF RankInv, Phases, Joining, Sync, Last
  <2> QED BY <2>1, <2>2, <2>3, <2>4, IterType
<1>1. Steady(r)
  BY DEF SyncDone, Steady, Kept, diskVars, jobVars
<1>2. D(r)' = D(r) /\ S(r)' = S(r) /\ tasks'[r] = <<>> /\ S(r).pc = "idle"
      /\ \A x \in Kinds : dump'[<<r, x>>] = dump[<<r, x>>]
  BY <1>0, <1>1 DEF Steady, D, S, Kinds
<1>3. \/ /\ saver[r].part < Parts /\ saver'[r].pc = "arrive"
         /\ saver'[r].part = saver[r].part + 1 /\ Due(r)' = <<iter, saver[r].part + 1>>
      \/ saver[r].part = Parts /\ saver'[r].pc = "saved" /\ Due(r)' = <<iter + 1, 1>>
  BY <1>0, PartsType DEF NextPart, Due
<1>4. Phases(r)'
  BY <1>0, <1>2, <1>3 DEF RankInv, Phases, Joining
<1>5. ASSUME NEW t, Waits(r, t)
      PROVE  Waits(r, t)'
  <2>1. t \in Dirs /\ t[1] \in Int /\ start <= t[1] /\ t[1] < iter
    BY <1>0, <1>5, WaitsFacts
  <2>2. Before(t, Due(r)')
    BY <1>0, <1>3, <2>1 DEF Before
  <2> QED BY <1>0, <2>1, <2>2 DEF Waits
<1>6. ASSUME NEW p \in Iters, NEW k \in 1 .. Parts, Due(r)' = <<p, k>>, NEW j \in 1 .. k - 1
      PROVE  Here(r, p, j) \/ Pending(r, <<p, j>>)
  <2>1. p = iter /\ k = saver[r].part + 1 /\ saver[r].part \in Int
    BY <1>0, <1>3, <1>6
  <2>2. CASE j = saver[r].part
    BY <1>0, <2>1, <2>2
  <2>3. CASE j # saver[r].part
    <3>1. j \in 1 .. saver[r].part - 1 /\ Due(r) = <<p, saver[r].part>>
      BY <1>0, <2>1, <2>3 DEF Due
    <3> QED BY <1>0, <3>1 DEF RankInv, PartsInOrder
  <2> QED BY <2>2, <2>3
<1>7. ASSUME NEW p \in Iters, Root(r, p)
      PROVE  /\ p < Due(r)'[1]
             /\ D(r).pc # "idle" => p <= D(r).task[1] \/ (Sync' /\ p = iter')
  <2>1. p < iter \/ (p = iter /\ saver[r].part = Parts)
    BY <1>0, <1>7 DEF RankInv, Rooted, Due
  <2>2. p < Due(r)'[1]
    BY <1>0, <1>3, <2>1 DEF Iters
  <2> QED BY <1>0, <1>7, <2>2 DEF RankInv, Rooted
<1>8. Moves(r)
  <2>1. Len(tasks[r]) = 0 /\ Parts \in Nat
    BY <1>0, PartsType
  <2>2. Len(tasks[r]) <=
       IF saver'[r].pc \in {"arrive", "submit", "dumping"} THEN saver'[r].part - 1 ELSE Parts
    BY <1>0, <1>3, <2>1
  <2> QED BY <1>4, <1>5, <1>6, <1>7, <2>2 DEF Moves
<1> QED BY <1>1, <1>8, SteadyRank

-----------------------------------------------------------------------------
(* Tasks enter and leave the queue.                                        *)

\* Before is a strict order.
LEMMA BeforeOrder ==
  /\ \A t, u, v : t[1] \in Int /\ u[1] \in Int /\ v[1] \in Int /\ t[2] \in Int /\ u[2] \in Int /\ v[2] \in Int
                  /\ Before(t, u) /\ Before(u, v) => Before(t, v)
  /\ \A t : t[1] \in Int /\ t[2] \in Int => ~Before(t, t)
BY DEF Before

\* The trainer hands a part to its dumper.
LEMMA SubmitAsyncRank ==
  ASSUME CheckpointerAssumption, TypeOK, NEW r \in Ranks, RankInv(r), SubmitAsync(r)
  PROVE  RankInv(r)'
<1> DEFINE n == Len(tasks[r])
<1>a. PICK new : new = <<iter, saver[r].part>>
  OBVIOUS
<1>0. /\ saver[r].pc = "submit" /\ saver'[r] = NextPart(r) /\ ~Sync /\ ~Sync' /\ ~Last
      /\ iter' = iter /\ start' = start /\ run' = run /\ AsyncDump
      /\ tasks'[r] = Append(tasks[r], new) /\ tasks[r] \in Seq(Dirs)
      /\ \A x \in Kinds : dump'[<<r, x>>] = dump[<<r, x>>]
  <2>1. saver \in [Ranks -> [pc : SaverPcs, part : 1 .. Parts]] /\ tasks \in [Ranks -> Seq(Dirs)]
    BY DEF TypeOK
  <2> QED BY <1>a, <2>1 DEF SubmitAsync, Task, jobVars, Sync, Last
<1>1. /\ iter \in Int /\ iter \in Iters /\ saver[r].part \in 1 .. Parts /\ saver[r].part \in Int
      /\ Parts \in Int /\ start \in Int /\ start <= iter /\ new \in Dirs
      /\ new[1] = iter /\ new[2] = saver[r].part
  <2>1. iter >= 1
    BY <1>0 DEF RankInv, Phases
  <2>2. iter \in Iters /\ start <= iter
    BY <2>1, IterType DEF TypeOK
  <2>3. saver[r].part \in 1 .. Parts /\ iter \in Int /\ start \in Int /\ Parts \in Int
    BY SaverTypes DEF CheckpointerAssumption
  <2> QED BY <1>a, <2>2, <2>3, DirTypes
<1>2. /\ n \in Nat /\ Len(tasks'[r]) = n + 1
      /\ \A i \in 1 .. n : tasks'[r][i] = tasks[r][i]
      /\ tasks'[r][n + 1] = new
  BY <1>0, <1>1, AppendProperties, LenProperties
<1> HIDE DEF n
<1>3. D(r)' = D(r) /\ S(r)' = S(r) /\ Due(r) = new /\ S(r).pc = "idle"
  BY <1>a, <1>0 DEF D, S, Kinds, Due, RankInv, Phases
<1>4. \/ /\ saver[r].part < Parts /\ saver'[r].pc = "arrive"
         /\ saver'[r].part = saver[r].part + 1 /\ Due(r)' = <<iter, saver[r].part + 1>>
      \/ saver[r].part = Parts /\ saver'[r].pc = "saved" /\ Due(r)' = <<iter + 1, 1>>
  BY <1>0, <1>1, PartsType DEF NextPart, Due
<1>5. Kept(r)
  BY DEF SubmitAsync, Kept, diskVars, jobVars
<1>6. \A t : Pending(r, t)' <=> Pending(r, t) \/ t = new
  <2>1. \A i : i \in 1 .. n + 1 <=> i \in 1 .. n \/ i = n + 1
    BY <1>2
  <2> QED BY <1>2, <1>3, <2>1 DEF Pending, n
<1>7. Phases(r)'
  BY <1>0, <1>3, <1>4 DEF RankInv, Phases, Joining
<1>8. ASSUME NEW t, Waits(r, t)
      PROVE  Waits(r, t)' /\ Before(t, new)
  <2>1. t \in Dirs /\ t[1] \in Int /\ t[2] \in Int /\ t[2] <= Parts /\ start <= t[1]
        /\ (t[1] < iter \/ (t[1] = iter /\ t[2] < saver[r].part))
    BY <1>0, <1>8, WaitsFacts
  <2>2. Before(t, Due(r)') /\ Before(t, new)
    BY <1>1, <1>4, <2>1 DEF Before
  <2> QED BY <1>0, <2>1, <2>2 DEF Waits
<1>9. Waits(r, new)'
  <2>1. Before(new, Due(r)')
    BY <1>1, <1>4 DEF Before
  <2> QED BY <1>0, <1>1, <2>1 DEF Waits
<1>10. Queue(r)'
  <2>1. \A i \in 1 .. n : Waits(r, tasks[r][i])
    BY DEF RankInv, Queue, n
  <2>2. ASSUME NEW i \in 1 .. Len(tasks'[r])
        PROVE  Waits(r, tasks[r][i])'
    <3>1. i \in 1 .. n \/ i = n + 1
      BY <1>2
    <3>2. CASE i \in 1 .. n
      BY <1>2, <1>8, <2>1, <3>2
    <3> QED BY <1>2, <1>9, <3>1, <3>2
  <2>3. ASSUME NEW i \in 1 .. Len(tasks'[r]), NEW j \in 1 .. Len(tasks'[r]), i < j
        PROVE  Before(tasks'[r][i], tasks'[r][j])
    <3>1. i \in 1 .. n /\ (j \in 1 .. n \/ j = n + 1)
      BY <1>2, <2>3
    <3>2. CASE j \in 1 .. n
      BY <1>2, <2>3, <3>1, <3>2 DEF RankInv, Queue, n
    <3>3. CASE j = n + 1
      BY <1>2, <1>8, <2>1, <3>1, <3>3
    <3> QED BY <3>1, <3>2, <3>3
  <2>4. ASSUME D(r).pc # "idle"
        PROVE  Waits(r, D(r).task)' /\ \A i \in 1 .. Len(tasks'[r]) : Before(D(r).task, tasks'[r][i])
    <3>1. Waits(r, D(r).task) /\ \A i \in 1 .. n : Before(D(r).task, tasks[r][i])
      BY <2>4 DEF RankInv, Queue, n
    <3>2. \A i \in 1 .. Len(tasks'[r]) : i \in 1 .. n \/ i = n + 1
      BY <1>2
    <3> QED BY <1>2, <1>3, <1>8, <3>1, <3>2
  <2>5. n <= saver[r].part - 1
    BY <1>0 DEF RankInv, Queue, n
  <2>6. Len(tasks'[r]) <= IF saver'[r].pc \in {"arrive", "submit", "dumping"} THEN saver'[r].part - 1 ELSE Parts
    <3>1. n + 1 <= saver[r].part
      BY <1>1, <1>2, <2>5
    <3> QED BY <1>1, <1>2, <1>4, <3>1
  <2> QED BY <1>3, <2>2, <2>3, <2>4, <2>6 DEF Queue
<1>11. PartsInOrder(r)'
  <2>1. SUFFICES ASSUME NEW p \in Iters, NEW k \in 1 .. Parts, NEW j \in 1 .. k - 1,
                        Pending(r, <<p, k>>)' \/ Due(r)' = <<p, k>>
                 PROVE  Here(r, p, j)' \/ Pending(r, <<p, j>>)'
    BY DEF PartsInOrder
  <2>2. j \in 1 .. Parts
    BY PartsType
  <2>3. CASE Pending(r, <<p, k>>) \/ Due(r) = <<p, k>>
    <3>1. Here(r, p, j) \/ Pending(r, <<p, j>>)
      BY <2>3 DEF RankInv, PartsInOrder
    <3> QED BY <1>5, <1>6, <2>2, <3>1, KeptFacts
  <2>4. CASE Due(r)' = <<p, k>>
    <3>1. p = iter /\ k = saver[r].part + 1
      BY <1>1, <1>4, <2>4
    <3>2. CASE j = saver[r].part
      BY <1>a, <1>6, <3>1, <3>2
    <3>3. CASE j # saver[r].part
      <4>1. j \in 1 .. saver[r].part - 1 /\ Due(r) = <<p, saver[r].part>>
        BY <1>a, <1>1, <1>3, <3>1, <3>3
      <4>2. Here(r, p, j) \/ Pending(r, <<p, j>>)
        BY <1>1, <4>1 DEF RankInv, PartsInOrder
      <4> QED BY <1>5, <1>6, <2>2, <4>2, KeptFacts
    <3> QED BY <3>2, <3>3
  <2> QED BY <1>3, <1>6, <2>1, <2>3, <2>4
<1>12. ASSUME NEW x \in Kinds
       PROVE  Written(r, x)'
  <2>1. Written(r, x)
    BY DEF RankInv
  <2>2. dump[<<r, x>>].task \in Dirs \/ dump[<<r, x>>].pc \notin {"success", "list", "mark", "rename"}
    BY DumpTypes DEF RankInv, Phases
  <2> QED BY <1>0, <1>5, <2>1, <2>2, KeptFacts DEF Written
<1>13. Rooted(r)'
  <2>1. SUFFICES ASSUME NEW p \in Iters, Root(r, p)
                 PROVE  /\ \A k \in 1 .. Parts : Here(r, p, k)'
                        /\ p < Due(r)'[1]
                        /\ \A i \in 1 .. Len(tasks'[r]) : p < tasks'[r][i][1]
                        /\ D(r).pc # "idle" => p <= D(r).task[1]
                        /\ \A x \in Kinds : dump[<<r, x>>].pc \in {"open", "write", "success"}
                             => p # dump[<<r, x>>].task[1]
    BY <1>0, <1>3, <1>5, KeptFacts DEF Rooted
  <2>2. /\ \A k \in 1 .. Parts : Here(r, p, k)
        /\ \A i \in 1 .. n : p < tasks[r][i][1]
        /\ D(r).pc # "idle" => p <= D(r).task[1]
        /\ \A x \in Kinds : dump[<<r, x>>].pc \in {"open", "write", "success"}
             => p # dump[<<r, x>>].task[1]
    BY <1>0, <2>1 DEF RankInv, Rooted, n
  <2>3. p < iter /\ p \in Int
    BY <1>0, <1>1, <1>3, <2>1 DEF RankInv, Rooted, Iters
  <2>4. p < Due(r)'[1]
    BY <1>1, <1>4, <2>3
  <2>5. \A i \in 1 .. Len(tasks'[r]) : i \in 1 .. n \/ i = n + 1
    BY <1>2
  <2>6. \A i \in 1 .. Len(tasks'[r]) : p < tasks'[r][i][1]
    BY <1>1, <1>2, <2>2, <2>3, <2>5
  <2> QED BY <1>5, <2>2, <2>4, <2>6, KeptFacts
<1> QED BY <1>7, <1>10, <1>11, <1>12, <1>13 DEF RankInv

\* What a rank's invariant says of its two dumps.
LEMMA KindFacts ==
  ASSUME CheckpointerAssumption, TypeOK, NEW r \in Ranks, Phases(r)
  PROVE  /\ D(r) = dump[<<r, "dumper">>] /\ S(r) = dump[<<r, "saver">>]
         /\ "dumper" \in Kinds /\ "saver" \in Kinds /\ \A x \in Kinds : x = "dumper" \/ x = "saver"
         /\ D(r).pc # "idle" => D(r).task \in Dirs
         /\ S(r).pc # "idle" => S(r).task \in Dirs
         /\ D(r).pc = "idle" => D(r).task = NoTask
<1>1. "dumper" \in Kinds /\ "saver" \in Kinds /\ \A x \in Kinds : x = "dumper" \/ x = "saver"
  BY DEF Kinds
<1>2. D(r) = dump[<<r, "dumper">>] /\ S(r) = dump[<<r, "saver">>]
  BY DEF D, S
<1> QED BY <1>1, <1>2, DumpTypes DEF Phases

\* The trainer begins to write a part itself.
LEMMA SubmitSyncRank ==
  ASSUME CheckpointerAssumption, TypeOK, NEW r \in Ranks, RankInv(r), SubmitSync(r)
  PROVE  RankInv(r)'
<1>a. PICK new : new = <<iter, saver[r].part>>
  OBVIOUS
<1>0. /\ saver[r].pc = "submit" /\ saver'[r].pc = "dumping" /\ saver'[r].part = saver[r].part
      /\ Sync /\ Sync' /\ (Last' <=> Last)
      /\ iter' = iter /\ start' = start /\ run' = run
      /\ tasks'[r] = tasks[r] /\ tasks[r] = <<>>
      /\ dump' = [dump EXCEPT ![<<r, "saver">>] = [pc |-> "open", task |-> new]]
  <2>1. saver \in [Ranks -> [pc : SaverPcs, part : 1 .. Parts]] /\ saver[r] \in [pc : SaverPcs, part : 1 .. Parts]
    BY DEF TypeOK
  <2>2. saver'[r].pc = "dumping" /\ saver'[r].part = saver[r].part
    BY <2>1 DEF SubmitSync
  <2> QED BY <1>a, <2>2 DEF SubmitSync, Task, jobVars, Sync, Last, RankInv, Phases, Joining
<1>1. /\ new \in Dirs /\ new # NoTask /\ new[1] = iter /\ iter >= 1 /\ iter \in Int
      /\ saver[r].part \in Int /\ saver[r].part >= 1
  <2>1. iter >= 1
    BY <1>0 DEF RankInv, Phases
  <2> QED BY <1>a, <2>1, IterType, SaverTypes, DirTypes
<1>2. /\ D(r)' = D(r) /\ S(r)' = [pc |-> "open", task |-> new] /\ S(r).pc = "idle"
      /\ dump'[<<r, "dumper">>] = D(r) /\ dump'[<<r, "saver">>] = [pc |-> "open", task |-> new]
  <2>1. "dumper" \in Kinds /\ "saver" \in Kinds
    BY DEF Kinds
  <2>2. /\ dump'[<<r, "saver">>] = [pc |-> "open", task |-> new]
        /\ \A s \in Ranks : \A y \in Kinds :
             s # r \/ y # "saver" => dump'[<<s, y>>] = dump[<<s, y>>]
    BY <1>0, <2>1, DumpAt
  <2>3. dump'[<<r, "dumper">>] = dump[<<r, "dumper">>]
    BY <2>1, <2>2
  <2>4. S(r).pc = "idle"
    BY <1>0 DEF RankInv, Phases
  <2> QED BY <2>2, <2>3, <2>4 DEF D, S
<1>3. Due(r)' = Due(r) /\ Due(r) = new
  BY <1>a, <1>0 DEF Due
<1>4. Kept(r)
  BY DEF SubmitSync, Kept, diskVars, jobVars
<1>5. \A t : (Pending(r, t)' <=> Pending(r, t)) /\ (Waits(r, t) => Waits(r, t)')
  BY <1>0, <1>2, <1>3 DEF Pending, Waits
<1>6. Phases(r)'
  BY <1>a, <1>0, <1>1, <1>2 DEF RankInv, Phases, Joining, Kinds
<1>7. Queue(r)'
  <2>1. Len(tasks[r]) = 0
    BY <1>0
  <2>2. Queue(r)
    BY DEF RankInv
  <2> QED BY <1>0, <1>1, <1>2, <1>5, <2>1, <2>2 DEF Queue
<1>8. PartsInOrder(r)'
  <2>1. SUFFICES ASSUME NEW p \in Iters, NEW k \in 1 .. Parts, NEW j \in 1 .. k - 1,
                        Pending(r, <<p, k>>) \/ Due(r) = <<p, k>>
                 PROVE  Here(r, p, j)' \/ Pending(r, <<p, j>>)'
    BY <1>3, <1>5 DEF PartsInOrder
  <2>2. Here(r, p, j) \/ Pending(r, <<p, j>>)
    BY <2>1 DEF RankInv, PartsInOrder
  <2> QED BY <1>4, <1>5, <2>2, PartsType, KeptFacts
<1>9. ASSUME NEW x \in Kinds
      PROVE  Written(r, x)'
  <2>1. CASE x = "saver"
    BY <1>2, <2>1 DEF Written
  <2>2. CASE x = "dumper"
    <3>1. Written(r, "dumper")
      BY DEF RankInv, Kinds
    <3>2. D(r).task \in Dirs \/ D(r).pc = "idle"
      BY KindFacts DEF RankInv
    <3> QED BY <1>0, <1>2, <1>4, <2>2, <3>1, <3>2, KeptFacts DEF Written, D
  <2> QED BY <2>1, <2>2 DEF Kinds
<1>10. Rooted(r)'
  <2>1. ASSUME NEW p \in Iters, Root(r, p)
        PROVE  /\ \A k \in 1 .. Parts : Here(r, p, k)'
               /\ p < iter
               /\ D(r).pc # "idle" => p <= D(r).task[1] \/ (Sync' /\ p = iter')
               /\ D(r).pc \in {"open", "write", "success"} => p # D(r).task[1]
    <3>1. \A k \in 1 .. Parts : Here(r, p, k)'
      BY <1>4, <2>1, KeptFacts DEF RankInv, Rooted
    <3>2. p < iter
      BY <1>0, <1>1, <1>3, <2>1 DEF RankInv, Rooted
    <3> QED BY <1>0, <2>1, <3>1, <3>2 DEF RankInv, Rooted, Kinds, D
  <2>2. \A p \in Iters : p < iter => p # new[1]
    BY <1>1 DEF Iters
  <2>3. Len(tasks'[r]) = 0
    BY <1>0
  <2>4. \A p \in Iters : Root(r, p)' => Root(r, p)
    BY <1>4, KeptFacts
  <2> QED BY <1>0, <1>1, <1>2, <1>3, <2>1, <2>2, <2>3, <2>4 DEF Rooted, Kinds
<1> QED BY <1>6, <1>7, <1>8, <1>9, <1>10 DEF RankInv

\* The process ends, and what its dumper was writing stays unfinished.
LEMMA ExitRank ==
  ASSUME CheckpointerAssumption, TypeOK, NEW r \in Ranks, RankInv(r), Exit(r)
  PROVE  RankInv(r)'
<1>0. /\ saver[r].pc = "saved" /\ saver'[r].pc = "gone" /\ Last
      /\ Sync /\ Sync' /\ (Last' <=> Last)
      /\ iter' = iter /\ start' = start /\ run' = run
      /\ tasks'[r] = tasks[r] /\ tasks[r] = <<>>
      /\ dump' = [dump EXCEPT ![<<r, "dumper">>] = Idle]
  <2>1. saver \in [Ranks -> [pc : SaverPcs, part : 1 .. Parts]] /\ saver[r] \in [pc : SaverPcs, part : 1 .. Parts]
    BY DEF TypeOK
  <2>2. saver[r].pc = "saved" /\ saver'[r].pc = "gone"
    BY <2>1 DEF Exit
  <2> QED BY <2>2 DEF Exit, Task, jobVars, Sync, Last, RankInv, Phases, Joining
<1>1. /\ D(r)' = Idle /\ S(r)' = S(r) /\ S(r).pc = "idle" /\ S(r).task = NoTask
      /\ dump'[<<r, "dumper">>] = Idle /\ dump'[<<r, "saver">>] = S(r)
  <2>1. "dumper" \in Kinds /\ "saver" \in Kinds
    BY DEF Kinds
  <2>2. S(r).pc = "idle"
    BY <1>0 DEF RankInv, Phases
  <2>3. /\ dump'[<<r, "dumper">>] = Idle
        /\ \A s \in Ranks : \A y \in Kinds :
             s # r \/ y # "dumper" => dump'[<<s, y>>] = dump[<<s, y>>]
    BY <1>0, <2>1, DumpAt
  <2>4. dump'[<<r, "saver">>] = dump[<<r, "saver">>]
    BY <2>1, <2>3
  <2>5. S(r).task = NoTask
    BY <2>1, <2>2 DEF RankInv, Phases, S
  <2> QED BY <2>2, <2>3, <2>4, <2>5 DEF D, S
<1>2. Due(r)' = Due(r) /\ Due(r)' = <<iter + 1, 1>>
  BY <1>0 DEF Due
<1>3. Kept(r)
  BY DEF Exit, Kept, diskVars, jobVars
<1>4. Len(tasks'[r]) = 0 /\ Parts \in Nat /\ iter >= 1
  BY <1>0, PartsType DEF RankInv, Phases
<1>5. Phases(r)'
  BY <1>0, <1>1, <1>4 DEF Phases, Joining, Kinds, Idle
<1>6. Queue(r)'
  BY <1>0, <1>1, <1>4 DEF Queue, Idle
<1>7. PartsInOrder(r)'
  <2>1. ASSUME NEW p \in Iters, NEW k \in 1 .. Parts
        PROVE  ~Pending(r, <<p, k>>)' /\ (Due(r)' = <<p, k>> => k = 1)
    <3>1. <<p, k>> # NoTask
      BY DEF NoTask, Iters
    <3> QED BY <1>1, <1>2, <1>4, <3>1 DEF Pending, Idle
  <2> QED BY <2>1 DEF PartsInOrder
<1>8. ASSUME NEW x \in Kinds
      PROVE  Written(r, x)'
  BY <1>1 DEF Written, Kinds, Idle
<1>9. Rooted(r)'
  <2>1. ASSUME NEW p \in Iters, Root(r, p)
        PROVE  /\ \A k \in 1 .. Parts : Here(r, p, k)'
               /\ p < Due(r)'[1]
    <3>1. \A k \in 1 .. Parts : Here(r, p, k)'
      BY <1>3, <2>1, KeptFacts DEF RankInv, Rooted
    <3>2. p < Due(r)[1]
      BY <1>0, <2>1 DEF RankInv, Rooted
    <3> QED BY <1>2, <3>1, <3>2
  <2>2. \A p \in Iters : Root(r, p)' => Root(r, p)
    BY <1>3, KeptFacts
  <2> QED BY <1>0, <1>1, <1>4, <2>1, <2>2 DEF Rooted, Kinds, Idle
<1> QED BY <1>5, <1>6, <1>7, <1>8, <1>9 DEF RankInv

\* The dumper takes the oldest task.
LEMMA DumperTakeRank ==
  ASSUME CheckpointerAssumption, TypeOK, NEW r \in Ranks, RankInv(r), DumperTake(r)
  PROVE  RankInv(r)'
<1>a. PICK n \in Nat : n = Len(tasks[r])
  BY SaverTypes
<1>b. PICK h : h = tasks[r][1]
  OBVIOUS
<1>0. /\ tasks[r] # <<>> /\ D(r).pc = "idle" /\ D(r).task = NoTask /\ saver'[r] = saver[r]
      /\ iter' = iter /\ start' = start /\ run' = run
      /\ tasks'[r] = Tail(tasks[r]) /\ tasks[r] \in Seq(Dirs) /\ h = Head(tasks[r])
      /\ dump' = [dump EXCEPT ![<<r, "dumper">>] = [pc |-> "open", task |-> h]]
  <2>1. tasks \in [Ranks -> Seq(Dirs)] /\ tasks[r] \in Seq(Dirs)
    BY DEF TypeOK
  <2>2. tasks'[r] = Tail(tasks[r]) /\ TakeTask(tasks[r])[1] = Head(tasks[r])
    BY <2>1 DEF DumperTake, TakeTask
  <2>3. Head(tasks[r]) = tasks[r][1]
    BY <2>1 DEF DumperTake
  <2> QED BY <1>b, <2>1, <2>2, <2>3 DEF DumperTake, jobVars, D, Idle
<1>1. /\ n >= 1 /\ h \in Dirs /\ Len(tasks'[r]) = n - 1
      /\ \A i \in 1 .. n - 1 : tasks'[r][i] = tasks[r][i + 1]
  <2>1. h \in Dirs /\ Len(tasks'[r]) = Len(tasks[r]) - 1
        /\ \A i \in 1 .. Len(Tail(tasks[r])) : Tail(tasks[r])[i] = tasks[r][i + 1]
    BY <1>0, HeadTailProperties
  <2>2. n # 0
    BY <1>a, <1>0, EmptySeq
  <2> QED BY <1>a, <1>0, <2>1, <2>2
<1>2. /\ (Sync <=> Sync') /\ (Last <=> Last') /\ (Joining(r) <=> Joining(r)') /\ Due(r)' = Due(r)
      /\ ~(Sync /\ ~Joining(r)) /\ S(r).pc = "idle" /\ S(r).task = NoTask /\ AsyncDump
      /\ saver[r].pc # "dumping" /\ saver[r].pc # "gone"
  <2>1. ~(Sync /\ ~Joining(r)) /\ AsyncDump
    BY <1>0 DEF RankInv, Phases
  <2>2. saver[r].pc # "dumping" /\ saver[r].pc # "gone"
    BY <2>1 DEF RankInv, Phases, Joining, DumperTake
  <2>3. S(r).pc = "idle"
    BY <2>2 DEF RankInv, Phases
  <2>4. S(r).task = NoTask
    BY <2>3 DEF RankInv, Phases, S, Kinds
  <2> QED BY <1>0, <2>1, <2>2, <2>3, <2>4 DEF Sync, Last, Joining, Due
<1>3. /\ D(r)' = [pc |-> "open", task |-> h] /\ S(r)' = S(r)
      /\ dump'[<<r, "dumper">>] = [pc |-> "open", task |-> h] /\ dump'[<<r, "saver">>] = S(r)
  <2>1. "dumper" \in Kinds /\ "saver" \in Kinds
    BY DEF Kinds
  <2>2. /\ dump'[<<r, "dumper">>] = [pc |-> "open", task |-> h]
        /\ \A s \in Ranks : \A y \in Kinds :
             s # r \/ y # "dumper" => dump'[<<s, y>>] = dump[<<s, y>>]
    BY <1>0, <2>1, DumpAt
  <2>3. dump'[<<r, "saver">>] = dump[<<r, "saver">>]
    BY <2>1, <2>2
  <2> QED BY <2>2, <2>3 DEF D, S
<1>4. Kept(r)
  BY DEF DumperTake, Kept, diskVars, jobVars
<1>5. /\ \A i \in 1 .. n : Waits(r, tasks[r][i])
      /\ \A i, j \in 1 .. n : i < j => Before(tasks[r][i], tasks[r][j])
      /\ Waits(r, h)
      /\ n <= IF saver[r].pc \in {"arrive", "submit", "dumping"} THEN saver[r].part - 1 ELSE Parts
  BY <1>a, <1>b, <1>1 DEF RankInv, Queue
<1>6. ASSUME NEW t \in Dirs
      PROVE  Pending(r, t)' <=> Pending(r, t)
  <2>1. t # NoTask
    BY DirTypes
  <2>2. Pending(r, t) <=> \E j \in 1 .. n : tasks[r][j] = t
    BY <1>a, <1>0, <2>1 DEF Pending
  <2>3. Pending(r, t)' <=> h = t \/ \E j \in 1 .. n - 1 : tasks[r][j + 1] = t
    <3>1. Pending(r, t)' <=> h = t \/ \E j \in 1 .. Len(tasks'[r]) : tasks'[r][j] = t
      BY <1>3 DEF Pending
    <3>2. Pending(r, t)' <=> h = t \/ \E j \in 1 .. n - 1 : tasks'[r][j] = t
      BY <1>1, <3>1
    <3> QED BY <1>1, <3>2
  <2>4. ASSUME NEW j \in 1 .. n, tasks[r][j] = t
        PROVE  h = t \/ \E i \in 1 .. n - 1 : tasks[r][i + 1] = t
    <3>1. CASE j = 1
      BY <1>b, <2>4, <3>1
    <3>2. CASE j # 1
      <4>1. j - 1 \in 1 .. n - 1 /\ (j - 1) + 1 = j
        BY <3>2
      <4> QED BY <2>4, <4>1
    <3> QED BY <3>1, <3>2
  <2>5. \A i \in 1 .. n - 1 : i + 1 \in 1 .. n
    OBVIOUS
  <2>6. 1 \in 1 .. n
    BY <1>1
  <2> QED BY <1>b, <2>2, <2>3, <2>4, <2>5, <2>6
<1>7. Phases(r)'
  <2>1. h # NoTask
    BY <1>1, DirTypes
  <2> QED BY <1>0, <1>2, <1>3, <2>1 DEF RankInv, Phases, Kinds
<1>8. Queue(r)'
  <2>1. \A t : Waits(r, t) => Waits(r, t)'
    BY <1>0, <1>2 DEF Waits
  <2>2. \A i \in 1 .. n - 1 : i + 1 \in 1 .. n /\ 1 < i + 1
    OBVIOUS
  <2>3. ASSUME NEW i \in 1 .. n - 1
        PROVE  Waits(r, tasks[r][i + 1]) /\ Before(h, tasks[r][i + 1])
    <3>1. i + 1 \in 1 .. n /\ 1 \in 1 .. n /\ 1 < i + 1
      BY <1>1
    <3> QED BY <1>b, <1>5, <3>1
  <2>4. ASSUME NEW i \in 1 .. n - 1
        PROVE  Waits(r, tasks[r][i])' /\ Before(h, tasks'[r][i])
    BY <1>1, <2>1, <2>3
  <2>5. ASSUME NEW i \in 1 .. n - 1, NEW j \in 1 .. n - 1, i < j
        PROVE  Before(tasks'[r][i], tasks'[r][j])
    <3>1. i + 1 \in 1 .. n /\ j + 1 \in 1 .. n /\ i + 1 < j + 1
      BY <2>5
    <3> QED BY <1>1, <1>5, <3>1
  <2>6. n - 1 <= IF saver[r].pc \in {"arrive", "submit", "dumping"} THEN saver[r].part - 1 ELSE Parts
    <3>1. saver[r].part \in Int /\ Parts \in Int
      BY SaverTypes DEF CheckpointerAssumption
    <3> QED BY <1>5, <3>1
  <2> QED BY <1>0, <1>1, <1>3, <1>5, <2>1, <2>4, <2>5, <2>6 DEF Queue
<1>9. PartsInOrder(r)'
  <2>1. SUFFICES ASSUME NEW p \in Iters, NEW k \in 1 .. Parts, NEW j \in 1 .. k - 1,
                        Pending(r, <<p, k>>) \/ Due(r) = <<p, k>>
                 PROVE  Here(r, p, j)' \/ Pending(r, <<p, j>>)'
    BY <1>2, <1>6, DirTypes DEF PartsInOrder
  <2>2. Here(r, p, j) \/ Pending(r, <<p, j>>)
    BY <2>1 DEF RankInv, PartsInOrder
  <2>3. j \in 1 .. Parts
    BY PartsType
  <2> QED BY <1>4, <1>6, <2>2, <2>3, DirTypes, KeptFacts
<1>10. ASSUME NEW x \in Kinds
       PROVE  Written(r, x)'
  BY <1>2, <1>3 DEF Written, Kinds
<1>11. Rooted(r)'
  <2>1. ASSUME NEW p \in Iters, Root(r, p)
        PROVE  /\ \A k \in 1 .. Parts : Here(r, p, k)'
               /\ p < Due(r)[1]
               /\ \A i \in 1 .. n : p < tasks[r][i][1]
    <3>1. \A k \in 1 .. Parts : Here(r, p, k)'
      BY <1>4, <2>1, KeptFacts DEF RankInv, Rooted
    <3> QED BY <1>a, <1>2, <2>1, <3>1 DEF RankInv, Rooted
  <2>2. ASSUME NEW p \in Iters, Root(r, p)
        PROVE  p < h[1] /\ p <= h[1] /\ p # h[1] /\ \A i \in 1 .. n - 1 : p < tasks'[r][i][1]
    <3>1. 1 \in 1 .. n /\ \A i \in 1 .. n - 1 : i + 1 \in 1 .. n
      BY <1>1
    <3>2. p < h[1] /\ h[1] \in Int /\ p \in Int
      BY <1>b, <1>1, <2>1, <2>2, <3>1, DirTypes DEF Iters
    <3>3. \A i \in 1 .. n - 1 : p < tasks'[r][i][1]
      BY <1>1, <2>1, <2>2, <3>1
    <3> QED BY <3>2, <3>3
  <2>3. \A p \in Iters : Root(r, p)' => Root(r, p)
    BY <1>4, KeptFacts
  <2> QED BY <1>0, <1>1, <1>2, <1>3, <2>1, <2>2, <2>3 DEF Rooted, Kinds
<1> QED BY <1>7, <1>8, <1>9, <1>10, <1>11 DEF RankInv

-----------------------------------------------------------------------------
(* A thread dumps a task.                                                  *)

\* A step of thread x of rank r that touches neither the queue nor the trainer.
Works(r, x) ==
  /\ iter' = iter /\ start' = start /\ run' = run
  /\ saver'[r] = saver[r] /\ tasks'[r] = tasks[r]
  /\ \A y \in Kinds : y # x => dump'[<<r, y>>] = dump[<<r, y>>]

\* The thread goes to another stage of the same task.
LEMMA GoesAt ==
  ASSUME TypeOK, NEW r \in Ranks, NEW x \in Kinds, NEW pc, Goes(<<r, x>>, pc)
  PROVE  /\ dump'[<<r, x>>].pc = pc /\ dump'[<<r, x>>].task = dump[<<r, x>>].task
         /\ \A s \in Ranks : \A y \in Kinds :
              s # r \/ y # x => dump'[<<s, y>>] = dump[<<s, y>>]
<1>1. <<r, x>> \in Threads /\ dump \in [Threads -> [pc : DumpPcs, task : Tasks]]
      /\ dump[<<r, x>>] \in [pc : DumpPcs, task : Tasks]
  BY DirTypes DEF TypeOK
<1>2. dump'[<<r, x>>] = [dump[<<r, x>>] EXCEPT !.pc = pc]
  BY <1>1 DEF Goes
<1>3. ASSUME NEW s \in Ranks, NEW y \in Kinds, s # r \/ y # x
      PROVE  dump'[<<s, y>>] = dump[<<s, y>>]
  <2>1. <<s, y>> \in Threads /\ <<s, y>> # <<r, x>>
    BY <1>3, DirTypes
  <2> QED BY <1>1, <2>1 DEF Goes
<1> QED BY <1>1, <1>2, <1>3

\* What a step of one thread leaves as it was.
LEMMA WorksFacts ==
  ASSUME NEW r \in Ranks, NEW x \in Kinds, Works(r, x)
  PROVE  /\ (Sync <=> Sync') /\ (Last <=> Last') /\ (Joining(r) <=> Joining(r)')
         /\ Due(r)' = Due(r) /\ iter' = iter /\ start' = start /\ run' = run
         /\ saver'[r] = saver[r] /\ tasks'[r] = tasks[r]
         /\ \A t : Waits(r, t) <=> Waits(r, t)'
         /\ x = "saver" => D(r)' = D(r) /\ D(r)' = dump'[<<r, "dumper">>] /\ S(r)' = dump'[<<r, "saver">>]
         /\ x = "dumper" => S(r)' = S(r) /\ S(r)' = dump'[<<r, "saver">>] /\ D(r)' = dump'[<<r, "dumper">>]
         /\ \A y \in Kinds : y # x => dump'[<<r, y>>] = dump[<<r, y>>]
         /\ "dumper" \in Kinds /\ "saver" \in Kinds /\ (x = "dumper" \/ x = "saver")
<1>1. "dumper" \in Kinds /\ "saver" \in Kinds /\ (x = "dumper" \/ x = "saver")
  BY DEF Kinds
<1>2. (Sync <=> Sync') /\ (Last <=> Last') /\ (Joining(r) <=> Joining(r)') /\ Due(r)' = Due(r)
  BY DEF Works, Sync, Last, Joining, Due
<1>3. x = "saver" => D(r)' = D(r) /\ D(r)' = dump'[<<r, "dumper">>] /\ S(r)' = dump'[<<r, "saver">>]
  BY <1>1 DEF D, S, Works
<1>4. x = "dumper" => S(r)' = S(r) /\ S(r)' = dump'[<<r, "saver">>] /\ D(r)' = dump'[<<r, "dumper">>]
  BY <1>1 DEF D, S, Works
<1>5. \A t : Waits(r, t) <=> Waits(r, t)'
  BY <1>2 DEF Waits, Works
<1> QED BY <1>1, <1>2, <1>3, <1>4, <1>5 DEF Works

\* The thread goes on to mark, or dies.
LEMMA TurnRank ==
  ASSUME CheckpointerAssumption, TypeOK, NEW r \in Ranks, RankInv(r), NEW x \in Kinds,
         Kept(r), Works(r, x), dump'[<<r, x>>].task = dump[<<r, x>>].task,
         dump[<<r, x>>].pc # "idle",
         dump'[<<r, x>>].pc \in {"mark", "rename"} \/ (x = "dumper" /\ dump'[<<r, x>>].pc = "dead"),
         Written(r, x)'
  PROVE  RankInv(r)'
<1>w. /\ (Sync <=> Sync') /\ (Last <=> Last') /\ (Joining(r) <=> Joining(r)')
      /\ Due(r)' = Due(r) /\ iter' = iter /\ run' = run
      /\ saver'[r] = saver[r] /\ tasks'[r] = tasks[r]
  BY WorksFacts
<1>1. /\ D(r)'.task = D(r).task /\ (D(r)'.pc = "idle" <=> D(r).pc = "idle")
      /\ S(r)'.task = S(r).task /\ (S(r)'.pc = "idle" <=> S(r).pc = "idle")
      /\ (S(r)'.pc = "dead" => S(r).pc = "dead")
      /\ \A y \in Kinds : /\ dump'[<<r, y>>].task = dump[<<r, y>>].task
                          /\ dump'[<<r, y>>].pc = "idle" <=> dump[<<r, y>>].pc = "idle"
                          /\ dump'[<<r, y>>].pc \in {"open", "write", "success"} =>
                               dump[<<r, y>>].pc \in {"open", "write", "success"}
  <2>1. x = "dumper" \/ x = "saver"
    BY DEF Kinds
  <2>2. CASE x = "dumper"
    BY <2>2, WorksFacts DEF D, S
  <2>3. CASE x = "saver"
    BY <2>3, WorksFacts DEF D, S
  <2> QED BY <2>1, <2>2, <2>3
<1>2. \A t : Pending(r, t) <=> Pending(r, t)'
  BY <1>w, <1>1 DEF Pending
<1>3. Phases(r)'
  <2>1. iter >= 1 => (Here(r, iter, saver[r].part)' <=> Here(r, iter, saver[r].part))
                     /\ success'[<<iter, saver[r].part>>][r] = success[<<iter, saver[r].part>>][r]
    <3>1. iter >= 1 => iter \in Iters
      BY IterType
    <3>2. saver[r].part \in 1 .. Parts
      BY SaverTypes
    <3>3. iter' = iter /\ saver'[r] = saver[r]
      BY WorksFacts
    <3> QED BY <3>1, <3>2, <3>3, KeptFacts
  <2>2. saver[r].pc = "dumping" => iter >= 1
    BY DEF RankInv, Phases
  <2>3. /\ (Sync <=> Sync') /\ (Last <=> Last') /\ (Joining(r) <=> Joining(r)') /\ iter' = iter
        /\ saver'[r] = saver[r] /\ tasks'[r] = tasks[r] /\ run' = run
    BY WorksFacts
  <2> QED BY <1>1, <2>1, <2>2, <2>3 DEF RankInv, Phases
<1>4. Queue(r)'
  BY <1>1, WorksFacts DEF RankInv, Queue
<1>5. PartsInOrder(r)'
  <2>1. SUFFICES ASSUME NEW p \in Iters, NEW k \in 1 .. Parts, NEW j \in 1 .. k - 1,
                        Pending(r, <<p, k>>) \/ Due(r) = <<p, k>>
                 PROVE  Here(r, p, j)' \/ Pending(r, <<p, j>>)'
    BY <1>2, WorksFacts DEF PartsInOrder
  <2>2. Here(r, p, j) \/ Pending(r, <<p, j>>)
    BY <2>1 DEF RankInv, PartsInOrder
  <2> QED BY <1>2, <2>2, PartsType, KeptFacts
<1>6. ASSUME NEW y \in Kinds
      PROVE  Written(r, y)'
  <2>1. CASE y # x
    <3>1. Written(r, y)
      BY DEF RankInv
    <3>2. dump[<<r, y>>].task \in Dirs \/ dump[<<r, y>>].pc \notin {"success", "list", "mark", "rename"}
      BY DumpTypes DEF RankInv, Phases
    <3>3. dump'[<<r, y>>] = dump[<<r, y>>]
      BY <2>1 DEF Works
    <3>4. \A t \in Dirs : /\ Here(r, t[1], t[2])' <=> Here(r, t[1], t[2])
                          /\ success'[t][r] = success[t][r]
      BY KeptFacts
    <3> QED BY <1>w, <3>1, <3>2, <3>3, <3>4 DEF Written
  <2> QED BY <2>1
<1>7. Rooted(r)'
  <2>1. ASSUME NEW p \in Iters, Root(r, p)'
        PROVE  Root(r, p) /\ \A k \in 1 .. Parts : Here(r, p, k)'
    BY <2>1, KeptFacts DEF RankInv, Rooted
  <2> QED BY <1>w, <1>1, <2>1 DEF RankInv, Rooted
<1> QED BY <1>3, <1>4, <1>5, <1>6, <1>7 DEF RankInv

\* The thread is done with its task.
LEMMA EndRank ==
  ASSUME CheckpointerAssumption, TypeOK, NEW r \in Ranks, RankInv(r), NEW x \in Kinds,
         Kept(r), Works(r, x), dump'[<<r, x>>] = Idle, dump[<<r, x>>].pc \in {"list", "rename"}
  PROVE  RankInv(r)'
<1>w. /\ (Sync <=> Sync') /\ (Last <=> Last') /\ (Joining(r) <=> Joining(r)')
      /\ Due(r)' = Due(r) /\ iter' = iter /\ run' = run
      /\ saver'[r] = saver[r] /\ tasks'[r] = tasks[r]
  BY WorksFacts
<1>0. /\ dump[<<r, x>>].task \in Dirs
      /\ Here(r, dump[<<r, x>>].task[1], dump[<<r, x>>].task[2])
      /\ success[dump[<<r, x>>].task][r] = run
  <2>1. Written(r, x)
    BY DEF RankInv
  <2>2. dump[<<r, x>>].task # NoTask
    BY DEF RankInv, Phases
  <2> QED BY <2>1, <2>2, DumpTypes DEF Written
<1>1. /\ D(r)'.pc # "idle" => D(r)' = D(r)
      /\ S(r)'.pc # "idle" => S(r)' = S(r)
      /\ \A y \in Kinds : dump'[<<r, y>>] = dump[<<r, y>>] \/ dump'[<<r, y>>] = Idle
  <2>1. x = "dumper" \/ x = "saver"
    BY DEF Kinds
  <2>2. CASE x = "dumper"
    BY <2>2, WorksFacts DEF D, S, Idle
  <2>3. CASE x = "saver"
    BY <2>3, WorksFacts DEF D, S, Idle
  <2> QED BY <2>1, <2>2, <2>3
<1>2. \A t \in Dirs : /\ Pending(r, t)' => Pending(r, t)
                      /\ Pending(r, t) => Pending(r, t)' \/ Here(r, t[1], t[2])
  <2>1. ASSUME NEW t \in Dirs
        PROVE  /\ D(r)'.task = t => D(r).task = t
               /\ D(r).task = t => D(r)'.task = t \/ Here(r, t[1], t[2])
    <3>1. x = "dumper" \/ x = "saver"
      BY DEF Kinds
    <3>2. CASE x = "saver"
      BY <3>2, WorksFacts
    <3>3. CASE x = "dumper"
      <4>1. D(r)' = Idle /\ D(r) = dump[<<r, x>>] /\ t # NoTask
        BY <3>3, WorksFacts, DirTypes DEF D
      <4> QED BY <1>0, <4>1 DEF Idle
    <3> QED BY <3>1, <3>2, <3>3
  <2> QED BY <2>1, WorksFacts DEF Pending
<1>3. Phases(r)'
  <2>1. iter >= 1 => (Here(r, iter, saver[r].part)' <=> Here(r, iter, saver[r].part))
                     /\ success'[<<iter, saver[r].part>>][r] = success[<<iter, saver[r].part>>][r]
    <3>1. iter >= 1 => iter \in Iters
      BY IterType
    <3>2. saver[r].part \in 1 .. Parts
      BY SaverTypes
    <3>3. iter' = iter /\ saver'[r] = saver[r]
      BY WorksFacts
    <3> QED BY <3>1, <3>2, <3>3, KeptFacts
  <2>2. saver[r].pc = "dumping" => iter >= 1
    BY DEF RankInv, Phases
  <2>3. /\ (Sync <=> Sync') /\ (Last <=> Last') /\ (Joining(r) <=> Joining(r)') /\ iter' = iter
        /\ saver'[r] = saver[r] /\ tasks'[r] = tasks[r] /\ run' = run
    BY WorksFacts
  <2>4. ASSUME S(r)'.pc = "idle", saver[r].pc = "dumping"
        PROVE  Here(r, iter, saver[r].part) /\ success[<<iter, saver[r].part>>][r] = run
    <3>1. CASE x = "dumper"
      BY <2>4, <3>1, WorksFacts DEF RankInv, Phases
    <3>2. CASE x = "saver"
      <4>1. S(r).task = <<iter, saver[r].part>> /\ S(r) = dump[<<r, x>>]
        BY <3>2 DEF RankInv, Phases, S
      <4> QED BY <1>0, <4>1
    <3> QED BY <3>1, <3>2 DEF Kinds
  <2>5. D(r).pc = "idle" => D(r)'.pc = "idle"
    BY <1>1
  <2>6. \A y \in Kinds : dump'[<<r, y>>].pc = "idle" <=> dump'[<<r, y>>].task = NoTask
    BY <1>1 DEF RankInv, Phases, Idle
  <2> QED BY <1>1, <2>1, <2>2, <2>3, <2>4, <2>5, <2>6 DEF RankInv, Phases
<1>4. Queue(r)'
  BY <1>1, WorksFacts DEF RankInv, Queue
<1>5. PartsInOrder(r)'
  <2>1. SUFFICES ASSUME NEW p \in Iters, NEW k \in 1 .. Parts, NEW j \in 1 .. k - 1,
                        Pending(r, <<p, k>>) \/ Due(r) = <<p, k>>
                 PROVE  Here(r, p, j)' \/ Pending(r, <<p, j>>)'
    BY <1>2, WorksFacts, DirTypes DEF PartsInOrder
  <2>2. Here(r, p, j) \/ Pending(r, <<p, j>>)
    BY <2>1 DEF RankInv, PartsInOrder
  <2>3. j \in 1 .. Parts
    BY PartsType
  <2>4. PICK t : t = <<p, j>>
    OBVIOUS
  <2>5. t \in Dirs /\ t[1] = p /\ t[2] = j
    BY <2>3, <2>4, DirTypes
  <2>6. Here(r, p, j) \/ Pending(r, t)'
    BY <1>2, <2>2, <2>4, <2>5
  <2> QED BY <2>3, <2>4, <2>6, KeptFacts
<1>6. ASSUME NEW y \in Kinds
      PROVE  Written(r, y)'
  <2>1. CASE y # x
    <3>1. Written(r, y)
      BY DEF RankInv
    <3>2. dump[<<r, y>>].task \in Dirs \/ dump[<<r, y>>].pc \notin {"success", "list", "mark", "rename"}
      BY DumpTypes DEF RankInv, Phases
    <3>3. dump'[<<r, y>>] = dump[<<r, y>>]
      BY <2>1 DEF Works
    <3>4. \A t \in Dirs : /\ Here(r, t[1], t[2])' <=> Here(r, t[1], t[2])
                          /\ success'[t][r] = success[t][r]
      BY KeptFacts
    <3> QED BY <1>w, <3>1, <3>2, <3>3, <3>4 DEF Written
  <2>2. CASE y = x
    BY <2>2 DEF Written, Idle
  <2> QED BY <2>1, <2>2
<1>7. Rooted(r)'
  <2>1. ASSUME NEW p \in Iters, Root(r, p)'
        PROVE  Root(r, p) /\ \A k \in 1 .. Parts : Here(r, p, k)'
    BY <2>1, KeptFacts DEF RankInv, Rooted
  <2>2. \A y \in Kinds : dump'[<<r, y>>].pc \in {"open", "write", "success"} =>
                           dump'[<<r, y>>] = dump[<<r, y>>]
    BY <1>1 DEF Idle
  <2> QED BY <1>w, <1>1, <2>1, <2>2 DEF RankInv, Rooted
<1> QED BY <1>3, <1>4, <1>5, <1>6, <1>7 DEF RankInv

\* The trainer and the dumper of a rank never write the same checkpoint.
LEMMA Apart ==
  ASSUME CheckpointerAssumption, TypeOK, NEW r \in Ranks, RankInv(r),
         NEW x \in Kinds, NEW y \in Kinds, x # y,
         dump[<<r, x>>].pc # "idle", dump[<<r, y>>].pc # "idle"
  PROVE  dump[<<r, x>>].task[1] # dump[<<r, y>>].task[1]
<1>1. D(r).pc # "idle" /\ S(r).pc # "idle"
  BY DEF D, S, Kinds
<1>2. S(r).task[1] = iter /\ Sync
  BY <1>1 DEF RankInv, Phases
<1>3. D(r).task[1] < iter /\ D(r).task[1] \in Int /\ iter \in Int
  BY <1>1, <1>2, WaitsFacts, SaverTypes DEF RankInv, Queue
<1> QED BY <1>2, <1>3 DEF D, S, Kinds

\* The task a thread dumps, and what is pending or due next to it.
LEMMA TaskFacts ==
  ASSUME CheckpointerAssumption, TypeOK, NEW r \in Ranks, RankInv(r), NEW x \in Kinds,
         NEW t, t = dump[<<r, x>>].task, dump[<<r, x>>].pc # "idle"
  PROVE  /\ t \in Dirs /\ t = <<t[1], t[2]>> /\ t[1] \in Iters /\ t[2] \in 1 .. Parts
         /\ t[1] \in Int /\ t[2] \in Int /\ start <= t[1]  /\ t[1] <= iter
         /\ x = "dumper" => /\ Pending(r, t) /\ Before(t, Due(r)) /\ (Sync => t[1] < iter)
                            /\ \A i \in 1 .. Len(tasks[r]) : Before(t, tasks[r][i])
         /\ x = "saver" => /\ t = Due(r) /\ t = <<iter, saver[r].part>> /\ saver[r].pc = "dumping"
                           /\ Sync /\ tasks[r] = <<>>
<1>1. dump[<<r, x>>].task # NoTask
  BY DEF RankInv, Phases
<1>2. t \in Dirs /\ t = <<t[1], t[2]>> /\ t[1] \in Iters /\ t[2] \in 1 .. Parts
  BY <1>1, DumpTypes, DirTypes
<1>3. t[1] \in Int /\ t[2] \in Int
  BY <1>2 DEF Iters
<1>4. CASE x = "dumper"
  <2>1. D(r).task = t /\ D(r).pc # "idle"
    BY <1>4 DEF D
  <2>2. Waits(r, t) /\ \A i \in 1 .. Len(tasks[r]) : Before(t, tasks[r][i])
    BY <2>1 DEF RankInv, Queue
  <2> QED BY <1>2, <1>3, <1>4, <2>1, <2>2, WaitsFacts DEF Waits, Pending
<1>5. CASE x = "saver"
  <2>1. S(r).task = t /\ S(r).pc # "idle"
    BY <1>5 DEF S
  <2>2. saver[r].pc = "dumping" /\ t = <<iter, saver[r].part>> /\ Sync
    BY <2>1 DEF RankInv, Phases
  <2>3. tasks[r] = <<>>
    BY <2>2 DEF RankInv, Phases, Joining
  <2>4. start <= t[1] /\ t[1] <= iter
    BY <2>2, SaverTypes DEF TypeOK
  <2> QED BY <1>2, <1>3, <1>5, <2>2, <2>3, <2>4 DEF Due
<1> QED BY <1>4, <1>5 DEF Kinds

\* An older part of a checkpoint is not pending when one of its parts is due
\* to be written by the trainer, or being dumped.
LEMMA NotPending ==
  ASSUME CheckpointerAssumption, TypeOK, NEW r \in Ranks, RankInv(r), NEW x \in Kinds,
         NEW t, t = dump[<<r, x>>].task, dump[<<r, x>>].pc # "idle",
         NEW j \in 1 .. t[2] - 1
  PROVE  ~Pending(r, <<t[1], j>>)
<1>0. t \in Dirs /\ t[1] \in Int /\ t[2] \in Int /\ j \in Int /\ j < t[2] /\ t = <<t[1], t[2]>>
  BY TaskFacts
<1>a. PICK u : u = <<t[1], j>>
  OBVIOUS
<1>1. u[1] = t[1] /\ u[2] = j /\ u # t
  BY <1>0, <1>a
<1>2. CASE x = "dumper"
  <2>1. D(r).task # u
    BY <1>1, <1>2 DEF D
  <2>2. \A i \in 1 .. Len(tasks[r]) : tasks[r][i] # u
    <3>1. ~Before(t, u)
      BY <1>0, <1>1 DEF Before
    <3> QED BY <1>2, <3>1, TaskFacts
  <2> QED BY <1>a, <2>1, <2>2 DEF Pending
<1>3. CASE x = "saver"
  <2>1. Sync /\ tasks[r] = <<>> /\ t = <<iter, saver[r].part>>
    BY <1>3, TaskFacts
  <2>2. D(r).task # u
    <3>1. CASE D(r).pc = "idle"
      <4>1. D(r).task = NoTask
        BY <3>1, KindFacts DEF RankInv
      <4>2. t[1] >= 1
        BY TaskFacts DEF Iters
      <4> QED BY <1>0, <1>1, <4>1, <4>2 DEF NoTask
    <3>2. CASE D(r).pc # "idle"
      <4>1. Waits(r, D(r).task)
        BY <3>2 DEF RankInv, Queue
      <4>2. D(r).task[1] < iter /\ D(r).task[1] \in Int /\ iter \in Int
        BY <2>1, <4>1, WaitsFacts, SaverTypes
      <4> QED BY <1>1, <2>1, <4>2
    <3> QED BY <3>1, <3>2
  <2>3. Len(tasks[r]) = 0
    BY <2>1
  <2> QED BY <1>a, <2>2, <2>3 DEF Pending
<1> QED BY <1>2, <1>3 DEF Kinds

Writes(t, r, v) == files' = [files EXCEPT ![<<t, r>>] = v]
Succeeds(t, r, v) == success' = [success EXCEPT ![t][r] = v]

\* What writing one file, or one .success file, leaves of the others.
LEMMA FileAt ==
  ASSUME TypeOK, NEW r \in Ranks, NEW t \in Dirs, NEW v, Writes(t, r, v)
  PROVE  /\ files'[<<t, r>>] = v
         /\ \A s \in Ranks : \A d \in Dirs : s # r \/ d # t => files'[<<d, s>>] = files[<<d, s>>]
<1>1. files \in [Dirs \X Ranks -> {Partial} \cup 0 .. run]
  BY DEF TypeOK
<1>2. files'[<<t, r>>] = v
  BY <1>1 DEF Writes
<1>3. ASSUME NEW s \in Ranks, NEW d \in Dirs, s # r \/ d # t
      PROVE  files'[<<d, s>>] = files[<<d, s>>]
  <2>1. <<d, s>> # <<t, r>> /\ <<d, s>> \in Dirs \X Ranks
    BY <1>3
  <2> QED BY <1>1, <2>1 DEF Writes
<1> QED BY <1>2, <1>3

\* One .success file is written: the others stay as they are.
LEMMA SuccessAt ==
  ASSUME TypeOK, NEW r \in Ranks, NEW t \in Dirs, NEW v, Succeeds(t, r, v)
  PROVE  /\ success'[t][r] = v
         /\ \A s \in Ranks : \A d \in Dirs : s # r \/ d # t => success'[d][s] = success[d][s]
<1>1. success \in [Dirs -> [Ranks -> 0 .. run]] /\ success[t] \in [Ranks -> 0 .. run]
  BY DEF TypeOK
<1>2. success' = [success EXCEPT ![t] = [success[t] EXCEPT ![r] = v]]
  BY DEF Succeeds
<1>3. success'[t] = [success[t] EXCEPT ![r] = v]
  BY <1>1, <1>2
<1>4. success'[t][r] = v /\ \A s \in Ranks : s # r => success'[t][s] = success[t][s]
  BY <1>1, <1>3
<1>5. \A d \in Dirs : d # t => success'[d] = success[d]
  BY <1>1, <1>2
<1> QED BY <1>4, <1>5

\* The thread goes from one of the stages of a dump to the next.
Stage(r, x, pc, next, t) ==
  /\ dump[<<r, x>>].pc = pc /\ t = dump[<<r, x>>].task
  /\ dump'[<<r, x>>].pc = next /\ dump'[<<r, x>>].task = t
  /\ Works(r, x)

\* What does not depend on the files.
LEMMA StageRank ==
  ASSUME CheckpointerAssumption, TypeOK, NEW r \in Ranks, RankInv(r), NEW x \in Kinds, NEW t,
         NEW pc \in {"open", "write", "success"}, NEW next \in {"write", "success", "list"},
         Stage(r, x, pc, next, t)
  PROVE  /\ Queue(r)'
         /\ \A u : Pending(r, u) <=> Pending(r, u)'
         /\ D(r)'.task = D(r).task /\ (D(r)'.pc = "idle" <=> D(r).pc = "idle")
         /\ S(r)'.task = S(r).task /\ (S(r)'.pc = "idle" <=> S(r).pc = "idle")
         /\ S(r)'.pc = "dead" => S(r).pc = "dead"
         /\ \A y \in Kinds : /\ dump'[<<r, y>>].task = dump[<<r, y>>].task
                             /\ dump'[<<r, y>>].pc = "idle" <=> dump[<<r, y>>].pc = "idle"
                             /\ dump'[<<r, y>>].pc \in {"open", "write", "success"} =>
                                  dump[<<r, y>>].pc \in {"open", "write", "success"}
         /\ (\A p \in Iters : \A k \in 1 .. Parts :
               Here(r, p, k) /\ saver[r].pc = "dumping" /\ S(r).pc = "idle" /\ p = iter => Here(r, p, k)')
            /\ (\A d \in Dirs : success[d][r] = run => success'[d][r] = run) => Phases(r)'
<1>w. /\ (Sync <=> Sync') /\ (Last <=> Last') /\ (Joining(r) <=> Joining(r)')
      /\ Due(r)' = Due(r) /\ iter' = iter /\ run' = run
      /\ saver'[r] = saver[r] /\ tasks'[r] = tasks[r]
  BY WorksFacts DEF Stage
<1>1. /\ D(r)'.task = D(r).task /\ (D(r)'.pc = "idle" <=> D(r).pc = "idle")
      /\ S(r)'.task = S(r).task /\ (S(r)'.pc = "idle" <=> S(r).pc = "idle")
      /\ (S(r)'.pc = "dead" => S(r).pc = "dead")
      /\ \A y \in Kinds : /\ dump'[<<r, y>>].task = dump[<<r, y>>].task
                          /\ dump'[<<r, y>>].pc = "idle" <=> dump[<<r, y>>].pc = "idle"
                          /\ dump'[<<r, y>>].pc \in {"open", "write", "success"} =>
                               dump[<<r, y>>].pc \in {"open", "write", "success"}
  <2>1. x = "dumper" \/ x = "saver"
    BY DEF Kinds
  <2>2. CASE x = "dumper"
    BY <2>2, WorksFacts DEF D, S, Stage
  <2>3. CASE x = "saver"
    BY <2>3, WorksFacts DEF D, S, Stage
  <2> QED BY <2>1, <2>2, <2>3
<1>2. \A u : Pending(r, u) <=> Pending(r, u)'
  BY <1>w, <1>1 DEF Pending
<1>3. Queue(r)'
  BY <1>1, WorksFacts DEF RankInv, Queue, Stage
<1>4. ASSUME \A p \in Iters : \A k \in 1 .. Parts :
               Here(r, p, k) /\ saver[r].pc = "dumping" /\ S(r).pc = "idle" /\ p = iter => Here(r, p, k)',
             \A d \in Dirs : success[d][r] = run => success'[d][r] = run
      PROVE  Phases(r)'
  <2>1. ASSUME saver[r].pc = "dumping", S(r).pc = "idle"
        PROVE  Here(r, iter, saver[r].part)' /\ success'[<<iter, saver[r].part>>][r] = run
    <3>1. iter \in Iters /\ saver[r].part \in 1 .. Parts
      BY <2>1, IterType, SaverTypes DEF RankInv, Phases
    <3>2. Here(r, iter, saver[r].part) /\ success[<<iter, saver[r].part>>][r] = run
      BY <2>1 DEF RankInv, Phases
    <3>3. <<iter, saver[r].part>> \in Dirs
      BY <3>1, DirTypes
    <3>4. PICK p \in Iters : p = iter
      BY <3>1
    <3>5. PICK k \in 1 .. Parts : k = saver[r].part
      BY <3>1
    <3>6. Here(r, p, k)'
      BY <1>4, <2>1, <3>2, <3>4, <3>5
    <3> QED BY <1>w, <1>4, <3>2, <3>3, <3>4, <3>5, <3>6
  <2> QED BY <1>w, <1>1, <2>1 DEF RankInv, Phases
<1> QED BY <1>1, <1>2, <1>3, <1>4

\* A file of the task is truncated.
LEMMA OpenRank ==
  ASSUME CheckpointerAssumption, TypeOK, NEW r \in Ranks, RankInv(r), NEW x \in Kinds, NEW t,
         Stage(r, x, "open", "write", t),
         files' = [files EXCEPT ![<<t, r>>] = Partial], success' = success
  PROVE  RankInv(r)'
<1>w. /\ (Sync <=> Sync') /\ (Last <=> Last') /\ (Joining(r) <=> Joining(r)')
      /\ Due(r)' = Due(r) /\ iter' = iter /\ run' = run
      /\ saver'[r] = saver[r] /\ tasks'[r] = tasks[r]
      /\ \A y \in Kinds : y # x => dump'[<<r, y>>] = dump[<<r, y>>]
  BY WorksFacts DEF Stage
<1>0. /\ dump[<<r, x>>].pc = "open" /\ t = dump[<<r, x>>].task /\ dump[<<r, x>>].pc # "idle"
      /\ dump'[<<r, x>>].pc = "write" /\ dump'[<<r, x>>].task = t
  BY DEF Stage
<1>1. t \in Dirs /\ t = <<t[1], t[2]>> /\ t[1] \in Int
  BY <1>0, TaskFacts
<1>2. \A p \in Iters : \A k \in 1 .. Parts :
        /\ <<p, k>> # t => (Here(r, p, k)' <=> Here(r, p, k))
        /\ Root(r, p)' <=> Root(r, p)
  <2>1. \A d \in Dirs : d # t => files'[<<d, r>>] = files[<<d, r>>]
    BY <1>1, FileAt DEF Writes
  <2> QED BY <1>w, <2>1, DirTypes DEF Here, Root
<1>3. ASSUME NEW p \in Iters, Root(r, p)
      PROVE  p # t[1]
  BY <1>0, <1>3 DEF RankInv, Rooted
<1>4. /\ Queue(r)'
      /\ \A u : Pending(r, u) <=> Pending(r, u)'
      /\ D(r)'.task = D(r).task /\ (D(r)'.pc = "idle" <=> D(r).pc = "idle")
      /\ \A y \in Kinds : dump'[<<r, y>>].pc \in {"open", "write", "success"} =>
           dump[<<r, y>>].pc \in {"open", "write", "success"} /\ dump'[<<r, y>>].task = dump[<<r, y>>].task
  BY StageRank
<1>5. Phases(r)'
  <2>1. ASSUME NEW k \in 1 .. Parts, saver[r].pc = "dumping", S(r).pc = "idle"
        PROVE  <<iter, k>> # t
    <3>1. x = "dumper" /\ Sync
      BY <1>0, <2>1 DEF RankInv, Phases, S, Kinds
    <3>2. t[1] < iter /\ iter \in Int
      BY <1>0, <3>1, TaskFacts, SaverTypes
    <3> QED BY <3>2
  <2>2. \A p \in Iters : \A k \in 1 .. Parts :
          Here(r, p, k) /\ saver[r].pc = "dumping" /\ S(r).pc = "idle" /\ p = iter => Here(r, p, k)'
    BY <1>2, <2>1
  <2> QED BY <2>2, StageRank
<1>6. PartsInOrder(r)'
  <2>1. SUFFICES ASSUME NEW p \in Iters, NEW k \in 1 .. Parts, NEW j \in 1 .. k - 1,
                        Pending(r, <<p, k>>) \/ Due(r) = <<p, k>>
                 PROVE  Here(r, p, j)' \/ Pending(r, <<p, j>>)
    BY <1>w, <1>4 DEF PartsInOrder
  <2>2. Here(r, p, j) \/ Pending(r, <<p, j>>)
    BY <2>1 DEF RankInv, PartsInOrder
  <2>3. j \in 1 .. Parts
    BY PartsType
  <2>4. CASE <<p, j>> # t
    BY <1>2, <2>2, <2>3, <2>4
  <2>5. CASE <<p, j>> = t /\ x = "dumper"
    BY <1>0, <2>5 DEF Pending, D
  <2>6. CASE <<p, j>> = t /\ x = "saver"
    <3>1. Sync /\ tasks[r] = <<>> /\ t = Due(r) /\ t = <<iter, saver[r].part>>
      BY <1>0, <2>6, TaskFacts
    <3>2. p = iter /\ j # k
      BY <2>6, <3>1
    <3>3. ~Pending(r, <<p, k>>)
      <4>1. Len(tasks[r]) = 0
        BY <3>1
      <4>2. D(r).task # <<p, k>>
        <5>1. CASE D(r).pc = "idle"
          <6>1. D(r).task = NoTask
            BY <5>1, KindFacts DEF RankInv
          <6>2. p >= 1
            BY DEF Iters
          <6> QED BY <6>1, <6>2 DEF NoTask
        <5>2. CASE D(r).pc # "idle"
          <6>1. D(r).task[1] < iter /\ D(r).task[1] \in Int /\ iter \in Int
            BY <3>1, <5>2, WaitsFacts, SaverTypes DEF RankInv, Queue
          <6> QED BY <3>2, <6>1
        <5> QED BY <5>1, <5>2
      <4> QED BY <4>1, <4>2 DEF Pending
    <3>4. Due(r) # <<p, k>>
      BY <2>6, <3>1, <3>2
    <3> QED BY <2>1, <3>3, <3>4
  <2> QED BY <2>4, <2>5, <2>6 DEF Kinds
<1>7. ASSUME NEW y \in Kinds
      PROVE  Written(r, y)'
  <2>1. CASE y = x
    BY <1>0, <2>1 DEF Written
  <2>2. CASE y # x
    <3>1. Written(r, y) /\ dump'[<<r, y>>] = dump[<<r, y>>]
      BY <1>w, <2>2 DEF RankInv
    <3>2. ASSUME dump[<<r, y>>].pc \in {"success", "list", "mark", "rename"}
          PROVE  /\ Here(r, dump[<<r, y>>].task[1], dump[<<r, y>>].task[2])'
                 /\ success'[dump[<<r, y>>].task][r] = success[dump[<<r, y>>].task][r]
      <4>a. PICK u : u = dump[<<r, y>>].task
        OBVIOUS
      <4>1. u[1] # t[1]
        BY <1>0, <2>2, <3>2, <4>a, Apart
      <4>2. u[1] \in Iters /\ u[2] \in 1 .. Parts /\ u = <<u[1], u[2]>>
        BY <3>2, <4>a, TaskFacts
      <4>3. Here(r, u[1], u[2])
        BY <3>1, <3>2, <4>a DEF Written
      <4>4. Here(r, u[1], u[2])'
        BY <1>2, <4>1, <4>2, <4>3
      <4> QED BY <3>1, <4>a, <4>4
    <3> QED BY <1>w, <3>1, <3>2 DEF Written
  <2> QED BY <2>1, <2>2
<1>8. Rooted(r)'
  <2>1. ASSUME NEW p \in Iters, Root(r, p)'
        PROVE  Root(r, p) /\ \A k \in 1 .. Parts : Here(r, p, k)'
    <3>1. Root(r, p) /\ p # t[1]
      BY <1>2, <1>3, <2>1, PartsType
    <3>2. \A k \in 1 .. Parts : Here(r, p, k) /\ <<p, k>> # t
      BY <1>1, <3>1 DEF RankInv, Rooted
    <3> QED BY <1>2, <3>1, <3>2
  <2> QED BY <1>w, <1>4, <2>1 DEF RankInv, Rooted
<1> QED BY <1>4, <1>5, <1>6, <1>7, <1>8 DEF RankInv

\* The files of the task are written.
LEMMA WriteRank ==
  ASSUME CheckpointerAssumption, TypeOK, NEW r \in Ranks, RankInv(r), NEW x \in Kinds, NEW t,
         Stage(r, x, "write", "success", t),
         files' = [files EXCEPT ![<<t, r>>] = run], success' = success
  PROVE  RankInv(r)'
<1>w. /\ (Sync <=> Sync') /\ (Last <=> Last') /\ (Joining(r) <=> Joining(r)')
      /\ Due(r)' = Due(r) /\ iter' = iter /\ run' = run
      /\ saver'[r] = saver[r] /\ tasks'[r] = tasks[r]
      /\ \A y \in Kinds : y # x => dump'[<<r, y>>] = dump[<<r, y>>]
  BY WorksFacts DEF Stage
<1>0. /\ dump[<<r, x>>].pc = "write" /\ t = dump[<<r, x>>].task /\ dump[<<r, x>>].pc # "idle"
      /\ dump'[<<r, x>>].pc = "success" /\ dump'[<<r, x>>].task = t
  BY DEF Stage
<1>1. t \in Dirs /\ t = <<t[1], t[2]>> /\ t[1] \in Iters /\ t[2] \in 1 .. Parts
  BY <1>0, TaskFacts
<1>2. /\ Here(r, t[1], t[2])'
      /\ \A p \in Iters : \A k \in 1 .. Parts :
           /\ Here(r, p, k) => Here(r, p, k)'
           /\ Root(r, p)' <=> Root(r, p)
  <2>a. PICK v : v = run
    OBVIOUS
  <2>b. Writes(t, r, v)
    BY <2>a DEF Writes
  <2>c. /\ files'[<<t, r>>] = v
        /\ \A s \in Ranks : \A d \in Dirs : s # r \/ d # t => files'[<<d, s>>] = files[<<d, s>>]
    BY <1>1, <2>b, FileAt
  <2>1. files'[<<t, r>>] = run /\ \A d \in Dirs : d # t => files'[<<d, r>>] = files[<<d, r>>]
    BY <2>a, <2>c
  <2> QED BY <1>w, <1>1, <2>1, DirTypes DEF Here, Root
<1>4. /\ Queue(r)'
      /\ \A u : Pending(r, u) <=> Pending(r, u)'
      /\ D(r)'.task = D(r).task /\ (D(r)'.pc = "idle" <=> D(r).pc = "idle")
      /\ \A y \in Kinds : dump'[<<r, y>>].pc \in {"open", "write", "success"} =>
           dump[<<r, y>>].pc \in {"open", "write", "success"} /\ dump'[<<r, y>>].task = dump[<<r, y>>].task
  BY StageRank
<1>5. Phases(r)'
  <2>2. \A p \in Iters : \A k \in 1 .. Parts :
          Here(r, p, k) /\ saver[r].pc = "dumping" /\ S(r).pc = "idle" /\ p = iter => Here(r, p, k)'
    BY <1>2
  <2> QED BY <2>2, StageRank
<1>6. PartsInOrder(r)'
  <2>1. SUFFICES ASSUME NEW p \in Iters, NEW k \in 1 .. Parts, NEW j \in 1 .. k - 1,
                        Pending(r, <<p, k>>) \/ Due(r) = <<p, k>>
                 PROVE  Here(r, p, j)' \/ Pending(r, <<p, j>>)
    BY <1>w, <1>4 DEF PartsInOrder
  <2>2. Here(r, p, j) \/ Pending(r, <<p, j>>)
    BY <2>1 DEF RankInv, PartsInOrder
  <2> QED BY <1>2, <2>2, PartsType
<1>7. ASSUME NEW y \in Kinds
      PROVE  Written(r, y)'
  <2>1. CASE y = x
    BY <1>0, <1>2, <2>1 DEF Written
  <2>2. CASE y # x
    <3>1. Written(r, y) /\ dump'[<<r, y>>] = dump[<<r, y>>]
      BY <1>w, <2>2 DEF RankInv
    <3>2. ASSUME dump[<<r, y>>].pc \in {"success", "list", "mark", "rename"}
          PROVE  Here(r, dump[<<r, y>>].task[1], dump[<<r, y>>].task[2])'
      <4>a. PICK u : u = dump[<<r, y>>].task
        OBVIOUS
      <4>2. u[1] \in Iters /\ u[2] \in 1 .. Parts
        BY <3>2, <4>a, TaskFacts
      <4>3. Here(r, u[1], u[2])
        BY <3>1, <3>2, <4>a DEF Written
      <4>4. Here(r, u[1], u[2])'
        BY <1>2, <4>2, <4>3
      <4> QED BY <3>1, <4>a, <4>4
    <3> QED BY <1>w, <3>1, <3>2 DEF Written
  <2> QED BY <2>1, <2>2
<1>8. Rooted(r)'
  <2>1. ASSUME NEW p \in Iters, Root(r, p)'
        PROVE  Root(r, p) /\ \A k \in 1 .. Parts : Here(r, p, k)'
    <3>1. Root(r, p)
      BY <1>2, <2>1, PartsType
    <3> QED BY <1>2, <3>1 DEF RankInv, Rooted
  <2> QED BY <1>w, <1>4, <2>1 DEF RankInv, Rooted
<1> QED BY <1>4, <1>5, <1>6, <1>7, <1>8 DEF RankInv

\* The .success file of the task is written.
LEMMA SuccessRank ==
  ASSUME CheckpointerAssumption, TypeOK, NEW r \in Ranks, RankInv(r), NEW x \in Kinds, NEW t,
         Stage(r, x, "success", "list", t),
         success' = [success EXCEPT ![t][r] = run], files' = files
  PROVE  RankInv(r)'
<1>w. /\ (Sync <=> Sync') /\ (Last <=> Last') /\ (Joining(r) <=> Joining(r)')
      /\ Due(r)' = Due(r) /\ iter' = iter /\ run' = run
      /\ saver'[r] = saver[r] /\ tasks'[r] = tasks[r]
      /\ \A y \in Kinds : y # x => dump'[<<r, y>>] = dump[<<r, y>>]
  BY WorksFacts DEF Stage
<1>0. /\ dump[<<r, x>>].pc = "success" /\ t = dump[<<r, x>>].task /\ dump[<<r, x>>].pc # "idle"
      /\ dump'[<<r, x>>].pc = "list" /\ dump'[<<r, x>>].task = t
  BY DEF Stage
<1>1. t \in Dirs /\ t = <<t[1], t[2]>> /\ t[1] \in Iters /\ t[2] \in 1 .. Parts /\ t[1] \in Int
  BY <1>0, TaskFacts
<1>2. /\ \A p \in Iters : \A k \in 1 .. Parts : Here(r, p, k)' <=> Here(r, p, k)
      /\ success'[t][r] = run /\ \A d \in Dirs : d # t => success'[d][r] = success[d][r]
      /\ \A p \in Iters : Root(r, p)' => Root(r, p) \/ t = <<p, Parts>>
  <2>a. PICK v : v = run
    OBVIOUS
  <2>b. Succeeds(t, r, v)
    BY <2>a DEF Succeeds
  <2>c. /\ success'[t][r] = v
        /\ \A s \in Ranks : \A d \in Dirs : s # r \/ d # t => success'[d][s] = success[d][s]
    BY <1>1, <2>b, SuccessAt
  <2>1. success'[t][r] = run /\ \A d \in Dirs : d # t => success'[d][r] = success[d][r]
    BY <2>a, <2>c
  <2>2. \A p \in Iters : <<p, Parts>> \in Dirs
    BY DirTypes, PartsType
  <2> QED BY <1>w, <2>1, <2>2, DirTypes DEF Here, Root
<1>4. /\ Queue(r)'
      /\ \A u : Pending(r, u) <=> Pending(r, u)'
      /\ D(r)'.task = D(r).task /\ (D(r)'.pc = "idle" <=> D(r).pc = "idle")
      /\ \A y \in Kinds : dump'[<<r, y>>].pc \in {"open", "write", "success"} =>
           dump[<<r, y>>].pc \in {"open", "write", "success"} /\ dump'[<<r, y>>].task = dump[<<r, y>>].task
  BY StageRank
<1>5. Phases(r)'
  <2>2. /\ \A p \in Iters : \A k \in 1 .. Parts :
             Here(r, p, k) /\ saver[r].pc = "dumping" /\ S(r).pc = "idle" /\ p = iter => Here(r, p, k)'
        /\ \A d \in Dirs : success[d][r] = run => success'[d][r] = run
    BY <1>2
  <2> QED BY <2>2, StageRank
<1>6. PartsInOrder(r)'
  <2>1. SUFFICES ASSUME NEW p \in Iters, NEW k \in 1 .. Parts, NEW j \in 1 .. k - 1,
                        Pending(r, <<p, k>>) \/ Due(r) = <<p, k>>
                 PROVE  Here(r, p, j)' \/ Pending(r, <<p, j>>)
    BY <1>w, <1>4 DEF PartsInOrder
  <2>2. Here(r, p, j) \/ Pending(r, <<p, j>>)
    BY <2>1 DEF RankInv, PartsInOrder
  <2> QED BY <1>2, <2>2, PartsType
<1>7. ASSUME NEW y \in Kinds
      PROVE  Written(r, y)'
  <2>1. CASE y = x
    <3>1. Here(r, t[1], t[2])
      BY <1>0 DEF RankInv, Written
    <3>2. Here(r, t[1], t[2])'
      BY <1>1, <1>2, <3>1
    <3> QED BY <1>w, <1>0, <1>2, <2>1, <3>2 DEF Written
  <2>2. CASE y # x
    <3>1. Written(r, y) /\ dump'[<<r, y>>] = dump[<<r, y>>]
      BY <1>w, <2>2 DEF RankInv
    <3>2. ASSUME dump[<<r, y>>].pc \in {"success", "list", "mark", "rename"}
          PROVE  /\ Here(r, dump[<<r, y>>].task[1], dump[<<r, y>>].task[2])'
                 /\ success'[dump[<<r, y>>].task][r] = success[dump[<<r, y>>].task][r]
      <4>a. PICK u : u = dump[<<r, y>>].task
        OBVIOUS
      <4>1. u[1] # t[1]
        BY <1>0, <2>2, <3>2, <4>a, Apart
      <4>2. u[1] \in Iters /\ u[2] \in 1 .. Parts /\ u \in Dirs
        BY <3>2, <4>a, TaskFacts
      <4>3. Here(r, u[1], u[2])
        BY <3>1, <3>2, <4>a DEF Written
      <4>4. Here(r, u[1], u[2])' /\ success'[u][r] = success[u][r]
        BY <1>2, <4>1, <4>2, <4>3
      <4> QED BY <3>1, <4>a, <4>4
    <3> QED BY <1>w, <3>1, <3>2 DEF Written
  <2> QED BY <2>1, <2>2
<1>8. ASSUME NEW p \in Iters, t = <<p, Parts>>
      PROVE  /\ \A k \in 1 .. Parts : Here(r, p, k)'
             /\ p < Due(r)[1] \/ (p = iter /\ saver[r].pc = "dumping" /\ saver[r].part = Parts)
             /\ \A i \in 1 .. Len(tasks[r]) : p < tasks[r][i][1]
             /\ D(r).pc # "idle" => p <= D(r).task[1] \/ (Sync /\ p = iter)
             /\ \A y \in Kinds : dump'[<<r, y>>].pc \in {"open", "write", "success"} =>
                                   p # dump'[<<r, y>>].task[1]
  <2>0. p = t[1] /\ t[2] = Parts /\ p \in Int
    BY <1>8 DEF Iters
  <2>1. ASSUME NEW k \in 1 .. Parts
        PROVE  Here(r, p, k)'
    <3>1. CASE k = Parts
      BY <1>0, <1>2, <2>0, <3>1 DEF RankInv, Written
    <3>2. CASE k # Parts
      <4>1. k \in 1 .. t[2] - 1 /\ k \in 1 .. Parts - 1
        BY <2>0, <3>2, PartsType
      <4>2. ~Pending(r, <<p, k>>)
        BY <1>0, <2>0, <4>1, NotPending
      <4>3. Pending(r, <<p, Parts>>) \/ Due(r) = <<p, Parts>>
        BY <1>0, <1>8, TaskFacts DEF Kinds
      <4>4. Here(r, p, k)
        BY <4>1, <4>2, <4>3, PartsType DEF RankInv, PartsInOrder
      <4> QED BY <1>2, <4>4
    <3> QED BY <3>1, <3>2
  <2>2. p < Due(r)[1] \/ (p = iter /\ saver[r].pc = "dumping" /\ saver[r].part = Parts)
    <3>1. CASE x = "dumper"
      <4>1. Before(t, Due(r))
        BY <1>0, <3>1, TaskFacts
      <4>2. Due(r)[2] \in Int /\ Due(r)[2] <= Parts /\ Parts \in Int
        BY SaverTypes, PartsType DEF Due
      <4> QED BY <2>0, <4>1, <4>2 DEF Before
    <3>2. CASE x = "saver"
      <4>1. t = <<iter, saver[r].part>> /\ saver[r].pc = "dumping"
        BY <1>0, <3>2, TaskFacts
      <4>2. p = iter /\ saver[r].part = Parts
        BY <1>8, <4>1
      <4> QED BY <4>1, <4>2
    <3> QED BY <3>1, <3>2 DEF Kinds
  <2>3. ASSUME NEW i \in 1 .. Len(tasks[r])
        PROVE  p < tasks[r][i][1]
    <3>1. CASE x = "dumper"
      <4>1. Before(t, tasks[r][i])
        BY <1>0, <3>1, TaskFacts
      <4>2. tasks[r][i] \in Dirs
        BY SaverTypes
      <4>3. tasks[r][i][2] \in Int /\ tasks[r][i][2] <= Parts /\ Parts \in Int
        BY <4>2, DirTypes, PartsType
      <4> QED BY <2>0, <4>1, <4>3 DEF Before
    <3>2. CASE x = "saver"
      <4>1. tasks[r] = <<>>
        BY <1>0, <3>2, TaskFacts
      <4> QED BY <4>1
    <3> QED BY <3>1, <3>2 DEF Kinds
  <2>4. ASSUME D(r).pc # "idle"
        PROVE  p <= D(r).task[1] \/ (Sync /\ p = iter)
    <3>1. CASE x = "dumper"
      BY <1>0, <2>0, <3>1 DEF D
    <3>2. CASE x = "saver"
      BY <1>0, <2>0, <3>2, TaskFacts
    <3> QED BY <3>1, <3>2 DEF Kinds
  <2>5. ASSUME NEW y \in Kinds, dump'[<<r, y>>].pc \in {"open", "write", "success"}
        PROVE  p # dump'[<<r, y>>].task[1]
    <3>1. y # x
      BY <1>0, <2>5
    <3>2. dump'[<<r, y>>] = dump[<<r, y>>]
      BY <1>w, <3>1
    <3> QED BY <1>0, <2>0, <2>5, <3>1, <3>2, Apart
  <2> QED BY <2>1, <2>2, <2>3, <2>4, <2>5
<1>9. ASSUME NEW p \in Iters, Root(r, p)
      PROVE  /\ \A k \in 1 .. Parts : Here(r, p, k)'
             /\ p < Due(r)[1] \/ (p = iter /\ saver[r].pc = "dumping" /\ saver[r].part = Parts)
             /\ \A i \in 1 .. Len(tasks[r]) : p < tasks[r][i][1]
             /\ D(r).pc # "idle" => p <= D(r).task[1] \/ (Sync /\ p = iter)
             /\ \A y \in Kinds : dump'[<<r, y>>].pc \in {"open", "write", "success"} =>
                                   p # dump'[<<r, y>>].task[1]
  BY <1>2, <1>4, <1>9 DEF RankInv, Rooted
<1>10. Rooted(r)'
  BY <1>w, <1>2, <1>4, <1>8, <1>9 DEF Rooted
<1> QED BY <1>4, <1>5, <1>6, <1>7, <1>10 DEF RankInv

-----------------------------------------------------------------------------
(* Every step keeps what holds of each rank.                               *)

\* Every thread of every rank but this one is left alone.
Alone(r) == \A s \in Ranks : s # r => Same(s)

\* A stage of a dump.
LEMMA DumpStepRank ==
  ASSUME CheckpointerAssumption, TypeOK, NEW r \in Ranks, RankInv(r), NEW x \in Kinds,
         DumpStep(<<r, x>>)
  PROVE  RankInv(r)' /\ Alone(r)
<1>a. PICK t : t = dump[<<r, x>>].task
  OBVIOUS
<1>0. /\ FileOf(<<r, x>>) = <<t, r>> /\ <<r, x>>[1] = r
      /\ \A pc : At(<<r, x>>, pc) <=> dump[<<r, x>>].pc = pc
  BY <1>a DEF FileOf, At
<1>1. ASSUME NEW pc, Goes(<<r, x>>, pc), UNCHANGED <<jobVars, saver, tasks>>
      PROVE  /\ Works(r, x) /\ dump'[<<r, x>>].pc = pc /\ dump'[<<r, x>>].task = t
             /\ \A s \in Ranks : s # r => \A y \in Kinds : dump'[<<s, y>>] = dump[<<s, y>>]
  <2>1. /\ dump'[<<r, x>>].pc = pc /\ dump'[<<r, x>>].task = dump[<<r, x>>].task
        /\ \A s \in Ranks : \A y \in Kinds :
              s # r \/ y # x => dump'[<<s, y>>] = dump[<<s, y>>]
    BY <1>1, GoesAt
  <2> QED BY <1>a, <1>1, <2>1 DEF Works, jobVars
<1>2. ASSUME dump' = [dump EXCEPT ![<<r, x>>] = Idle], UNCHANGED <<jobVars, saver, tasks>>
      PROVE  /\ Works(r, x) /\ dump'[<<r, x>>] = Idle
             /\ \A s \in Ranks : s # r => \A y \in Kinds : dump'[<<s, y>>] = dump[<<s, y>>]
  <2>1. /\ dump'[<<r, x>>] = Idle
        /\ \A s \in Ranks : \A y \in Kinds :
              s # r \/ y # x => dump'[<<s, y>>] = dump[<<s, y>>]
    BY <1>2, DumpAt
  <2> QED BY <1>2, <2>1 DEF Works, jobVars
<1>3. \A pc : dump[<<r, x>>].pc = pc /\ pc # "idle" => t \in Dirs
  BY <1>a, TaskFacts
<1>4. CASE DumpOpen(<<r, x>>)
  <2>1. /\ dump[<<r, x>>].pc = "open" /\ Goes(<<r, x>>, "write") /\ Writes(t, r, Partial)
        /\ success' = success /\ UNCHANGED <<jobVars, saver, tasks>>
    BY <1>0, <1>4 DEF DumpOpen, Writes
  <2>2. t \in Dirs
    BY <1>3, <2>1
  <2>3. RankInv(r)'
    <3>1. Stage(r, x, "open", "write", t)
      BY <1>a, <1>1, <2>1 DEF Stage
    <3> QED BY <2>1, <3>1, OpenRank DEF Writes
  <2>4. \A s \in Ranks : \A d \in Dirs : s # r \/ d # t => files'[<<d, s>>] = files[<<d, s>>]
    BY <2>1, <2>2, FileAt
  <2> QED BY <1>1, <2>1, <2>3, <2>4 DEF Alone, Same, jobVars
<1>5. CASE DumpWrite(<<r, x>>)
  <2>a. PICK v : v = run
    OBVIOUS
  <2>1. /\ dump[<<r, x>>].pc = "write" /\ Goes(<<r, x>>, "success") /\ Writes(t, r, v)
        /\ success' = success /\ UNCHANGED <<jobVars, saver, tasks>>
    BY <2>a, <1>0, <1>5 DEF DumpWrite, Writes
  <2>2. t \in Dirs
    BY <1>3, <2>1
  <2>3. RankInv(r)'
    <3>1. Stage(r, x, "write", "success", t)
      BY <1>a, <1>1, <2>1 DEF Stage
    <3> QED BY <2>a, <2>1, <3>1, WriteRank DEF Writes
  <2>4. \A s \in Ranks : \A d \in Dirs : s # r \/ d # t => files'[<<d, s>>] = files[<<d, s>>]
    BY <2>1, <2>2, FileAt
  <2> QED BY <1>1, <2>1, <2>3, <2>4 DEF Alone, Same, jobVars
<1>6. CASE DumpSuccess(<<r, x>>)
  <2>a. PICK v : v = run
    OBVIOUS
  <2>1. /\ dump[<<r, x>>].pc = "success" /\ Goes(<<r, x>>, "list") /\ Succeeds(t, r, v)
        /\ files' = files /\ UNCHANGED <<jobVars, saver, tasks>>
    BY <2>a, <1>a, <1>0, <1>6 DEF DumpSuccess, Succeeds
  <2>2. t \in Dirs
    BY <1>3, <2>1
  <2>3. RankInv(r)'
    <3>1. Stage(r, x, "success", "list", t)
      BY <1>a, <1>1, <2>1 DEF Stage
    <3> QED BY <2>a, <2>1, <3>1, SuccessRank DEF Succeeds
  <2>4. \A s \in Ranks : \A d \in Dirs : s # r \/ d # t => success'[d][s] = success[d][s]
    BY <2>1, <2>2, SuccessAt
  <2> QED BY <1>1, <2>1, <2>3, <2>4 DEF Alone, Same, jobVars
<1>7. ASSUME Goes(<<r, x>>, "mark") \/ Goes(<<r, x>>, "rename"), UNCHANGED <<jobVars, saver, tasks, files, success>>,
             dump[<<r, x>>].pc \in {"list", "mark"}, t[2] = Parts
      PROVE  RankInv(r)' /\ Alone(r)
  <2>1. PICK pc \in {"mark", "rename"} : Goes(<<r, x>>, pc)
    BY <1>7
  <2>2. /\ Works(r, x) /\ dump'[<<r, x>>].pc = pc /\ dump'[<<r, x>>].task = t
        /\ \A s \in Ranks : s # r => \A y \in Kinds : dump'[<<s, y>>] = dump[<<s, y>>]
    BY <1>1, <1>7, <2>1
  <2>3. \A s \in Ranks : Kept(s)
    BY <1>7 DEF Kept, jobVars
  <2>4. Written(r, x)'
    <3>1. Here(r, t[1], t[2]) /\ success[t][r] = run /\ t \in Dirs
      BY <1>a, <1>3, <1>7 DEF RankInv, Written
    <3>2. Here(r, t[1], t[2])' /\ success'[t][r] = run
      BY <2>3, <3>1, KeptFacts
    <3> QED BY <1>7, <2>2, <3>2 DEF Written, jobVars
  <2>5. RankInv(r)'
    BY <1>a, <1>7, <2>2, <2>3, <2>4, TurnRank
  <2> QED BY <1>7, <2>2, <2>5 DEF Alone, Same, jobVars
<1>8. ASSUME dump' = [dump EXCEPT ![<<r, x>>] = Idle], UNCHANGED <<jobVars, saver, tasks, files, success>>,
             dump[<<r, x>>].pc \in {"list", "rename"}
      PROVE  RankInv(r)' /\ Alone(r)
  <2>2. /\ Works(r, x) /\ dump'[<<r, x>>] = Idle
        /\ \A s \in Ranks : s # r => \A y \in Kinds : dump'[<<s, y>>] = dump[<<s, y>>]
    BY <1>2, <1>8
  <2>3. \A s \in Ranks : Kept(s)
    BY <1>8 DEF Kept, jobVars
  <2>5. RankInv(r)'
    BY <1>8, <2>2, <2>3, EndRank
  <2> QED BY <1>8, <2>2, <2>5 DEF Alone, Same, jobVars
<1>9. CASE DumpList(<<r, x>>)
  <2>1. CASE AllRanksFinished(t)
    <3>1. t[2] = Parts
      BY <2>1 DEF AllRanksFinished, Marks
    <3> QED BY <1>a, <1>0, <1>7, <1>9, <2>1, <3>1 DEF DumpList, diskVars
  <2>2. CASE ~AllRanksFinished(t)
    BY <1>a, <1>0, <1>8, <1>9, <2>2 DEF DumpList, diskVars
  <2> QED BY <2>1, <2>2
<1>10. CASE MarkWrite(<<r, x>>)
  <2>1. dump[<<r, x>>].pc = "mark"
    BY <1>0, <1>10 DEF MarkWrite
  <2>2. t[2] = Parts
    BY <1>a, <2>1 DEF RankInv, Written
  <2> QED BY <1>7, <1>10, <2>1, <2>2 DEF MarkWrite
<1>11. CASE MarkRename(<<r, x>>) \/ MarkFail(<<r, x>>)
  BY <1>0, <1>8, <1>11 DEF MarkRename, MarkFail, diskVars
<1> QED BY <1>4, <1>5, <1>6, <1>9, <1>10, <1>11 DEF DumpStep

\* A rank that has just been started, before it has written anything.
Fresh(r) ==
  /\ saver[r] = [pc |-> "train", part |-> 1]
  /\ tasks[r] = <<>>
  /\ \A x \in Kinds : dump[<<r, x>>] = Idle
  /\ \A p \in Iters : ~Root(r, p)

\* Nothing is pending then, and nothing claimed.
LEMMA FreshRank ==
  CheckpointerAssumption => \A r \in Ranks : Fresh(r) => RankInv(r)
<1>1. SUFFICES ASSUME CheckpointerAssumption, NEW r \in Ranks, Fresh(r)
               PROVE  RankInv(r)
  OBVIOUS
<1>2. /\ D(r) = Idle /\ S(r) = Idle /\ saver[r].pc = "train" /\ saver[r].part = 1
      /\ tasks[r] = <<>> /\ Len(tasks[r]) = 0 /\ Due(r) = <<iter, 1>> /\ Joining(r)
  BY <1>1 DEF Fresh, D, S, Kinds, Due, Joining
<1>3. Idle.pc = "idle" /\ Idle.task = NoTask
  BY DEF Idle
<1>4. Phases(r)
  BY <1>1, <1>2, <1>3 DEF Phases, Fresh
<1>5. Queue(r)
  <2>1. Parts \in Nat
    BY <1>1, PartsType
  <2> QED BY <1>2, <1>3, <2>1 DEF Queue
<1>6. PartsInOrder(r)
  <2>1. SUFFICES ASSUME NEW p \in Iters, NEW k \in 1 .. Parts, NEW j \in 1 .. k - 1,
                        Pending(r, <<p, k>>) \/ Due(r) = <<p, k>>
                 PROVE  FALSE
    BY DEF PartsInOrder
  <2>2. <<p, k>> # NoTask
    BY DirTypes
  <2>3. ~Pending(r, <<p, k>>)
    BY <1>2, <1>3, <2>2 DEF Pending
  <2>4. k = 1
    BY <1>2, <2>1, <2>3
  <2> QED BY <2>4
<1>7. \A x \in Kinds : Written(r, x)
  BY <1>1, <1>3 DEF Written, Fresh
<1>8. Rooted(r)
  BY <1>1 DEF Rooted, Fresh
<1> QED BY <1>4, <1>5, <1>6, <1>7, <1>8 DEF RankInv

\* The same, of the next state.
LEMMA FreshRankNext ==
  (CheckpointerAssumption => \A r \in Ranks : Fresh(r) => RankInv(r))'
BY FreshRank, PTL

\* A restarted job has written nothing yet under its own number.
LEMMA RestartRank ==
  ASSUME CheckpointerAssumption, TypeOK, NEW r \in Ranks, Restart
  PROVE  RankInv(r)'
<1>1. CheckpointerAssumption'
  BY DEF CheckpointerAssumption
<1>2. ASSUME NEW p \in Iters
      PROVE  ~Root(r, p)'
  <2>1. <<p, Parts>> \in Dirs
    BY DirTypes, PartsType
  <2>2. success[<<p, Parts>>][r] \in 0 .. run /\ run \in Int
    BY <2>1, SaverTypes DEF TypeOK
  <2> QED BY <2>2 DEF Root, Restart, diskVars
<1>3. Fresh(r)'
  BY <1>2, DirTypes DEF Fresh, Restart
<1> QED BY <1>1, <1>3, FreshRankNext

\* The dumper ends where it is, and its task with it.
LEMMA DumperDiesRank ==
  ASSUME CheckpointerAssumption, TypeOK, NEW r \in Ranks, RankInv(r), DumperDies(r)
  PROVE  RankInv(r)' /\ Alone(r)
<1>0. "dumper" \in Kinds
  BY DEF Kinds
<1>1. /\ Goes(<<r, "dumper">>, "dead") /\ UNCHANGED <<jobVars, saver, tasks, diskVars>>
      /\ dump[<<r, "dumper">>].pc # "idle"
  BY DEF DumperDies
<1>2. /\ dump'[<<r, "dumper">>].pc = "dead"
      /\ dump'[<<r, "dumper">>].task = dump[<<r, "dumper">>].task
      /\ \A s \in Ranks : \A y \in Kinds :
           s # r \/ y # "dumper" => dump'[<<s, y>>] = dump[<<s, y>>]
  BY <1>0, <1>1, GoesAt
<1>3. Works(r, "dumper") /\ Kept(r) /\ Written(r, "dumper")'
  BY <1>1, <1>2 DEF Works, Kept, Written, jobVars, diskVars
<1>4. RankInv(r)'
  BY <1>0, <1>1, <1>2, <1>3, TurnRank
<1> QED BY <1>1, <1>2, <1>4 DEF Alone, Same, jobVars, diskVars

\* A step of one rank's trainer, or its dumper taking a task.
LEMMA OwnRank ==
  ASSUME CheckpointerAssumption, TypeOK, NEW r \in Ranks, RankInv(r),
         TrainerStep(r) \/ DumperTake(r)
  PROVE  RankInv(r)' /\ Alone(r)
<1>1. RankInv(r)'
  BY JoinRank, SubmitAsyncRank, SubmitSyncRank, SyncDoneRank, ExitRank, DumperTakeRank
     DEF TrainerStep
<1>2. /\ iter' = iter /\ start' = start /\ run' = run /\ files' = files /\ success' = success
  BY DEF TrainerStep, Join, SubmitAsync, SubmitSync, SyncDone, Exit, DumperTake, jobVars, diskVars
<1>3. \A s \in Ranks : s # r => saver'[s] = saver[s]
  BY DEF TrainerStep, Join, SubmitAsync, SubmitSync, SyncDone, Exit, DumperTake, TypeOK
<1>4. \A s \in Ranks : s # r => tasks'[s] = tasks[s]
  BY DEF TrainerStep, Join, SubmitAsync, SubmitSync, SyncDone, Exit, DumperTake, TypeOK
<1>5. \A s \in Ranks : \A y \in Kinds : s # r => dump'[<<s, y>>] = dump[<<s, y>>]
  <2>1. dump' = dump \/ \E x \in Kinds : \E v : dump' = [dump EXCEPT ![<<r, x>>] = v]
    BY DEF TrainerStep, Join, SubmitAsync, SubmitSync, SyncDone, Exit, DumperTake, Kinds
  <2>2. ASSUME NEW x \in Kinds, NEW v, dump' = [dump EXCEPT ![<<r, x>>] = v]
        PROVE  \A s \in Ranks : \A y \in Kinds : s # r => dump'[<<s, y>>] = dump[<<s, y>>]
    BY <2>2, DumpAt
  <2> QED BY <2>1, <2>2
<1> QED BY <1>1, <1>2, <1>3, <1>4, <1>5 DEF Alone, Same

Ranked == \A r \in Ranks : RankInv(r)

\* Every step keeps the invariant of every rank.
LEMMA StepRank ==
  ASSUME CheckpointerAssumption, TypeOK, Ranked, [Next]_vars
  PROVE  Ranked'
<1>0. \A r \in Ranks : RankInv(r)
  BY DEF Ranked
<1>1. ASSUME NEW r \in Ranks, RankInv(r)', Alone(r)
      PROVE  Ranked'
  <2>1. ASSUME NEW s \in Ranks, s # r
        PROVE  RankInv(s)'
    <3>1. Same(s) /\ RankInv(s)
      BY <1>0, <1>1, <2>1 DEF Alone
    <3> QED BY <3>1, SameRank
  <2> QED BY <1>1, <2>1 DEF Ranked
<1>2. CASE Training
  <2>1. SUFFICES ASSUME NEW r \in Ranks
                 PROVE  RankInv(r)'
    BY DEF Ranked
  <2> QED BY <1>0, <1>2, TrainIterRank, SaveBeginRank, NextIterRank, BarrierRank DEF Training
<1>3. CASE \E r \in Ranks : TrainerStep(r) \/ DumperTake(r) \/ DumperDies(r)
  <2>1. PICK r \in Ranks : TrainerStep(r) \/ DumperTake(r) \/ DumperDies(r)
    BY <1>3
  <2>2. RankInv(r)' /\ Alone(r)
    BY <1>0, <2>1, OwnRank, DumperDiesRank
  <2> QED BY <1>1, <2>2
<1>4. CASE \E th \in Threads : DumpStep(th)
  <2>1. PICK r \in Ranks, x \in Kinds : DumpStep(<<r, x>>)
    BY <1>4, DirTypes
  <2>2. RankInv(r)' /\ Alone(r)
    BY <1>0, <2>1, DumpStepRank
  <2> QED BY <1>1, <2>2
<1>5. CASE Restart
  BY <1>5, RestartRank DEF Ranked
<1>6. CASE UNCHANGED vars \/ Finished
  <2>1. SUFFICES ASSUME NEW r \in Ranks
                 PROVE  RankInv(r)'
    BY DEF Ranked
  <2>2. Same(r)
    BY <1>6 DEF Finished, vars, Same, jobVars, diskVars
  <2> QED BY <1>0, <2>2, SameRank
<1> QED BY <1>2, <1>3, <1>4, <1>5, <1>6 DEF Next

-----------------------------------------------------------------------------
(* Every step keeps the types.                                             *)

\* The part of TypeOK that is about one thread, or one file.
LEMMA DumpStepType ==
  ASSUME CheckpointerAssumption, TypeOK, Ranked, NEW r \in Ranks, NEW x \in Kinds,
         DumpStep(<<r, x>>)
  PROVE  TypeOK'
<1>a. PICK t : t = dump[<<r, x>>].task
  OBVIOUS
<1>0. /\ FileOf(<<r, x>>) = <<t, r>> /\ <<r, x>>[1] = r
      /\ \A pc : At(<<r, x>>, pc) <=> dump[<<r, x>>].pc = pc
      /\ <<r, x>> \in Threads /\ RankInv(r)
  BY <1>a, DirTypes DEF FileOf, At, Ranked
<1>1. iter' = iter /\ start' = start /\ run' = run /\ saver' = saver /\ tasks' = tasks
  BY DEF DumpStep, DumpOpen, DumpWrite, DumpSuccess, DumpList, MarkWrite, MarkRename, MarkFail, jobVars
<1>2. dump' \in [Threads -> [pc : DumpPcs, task : Tasks]]
  <2>1. dump \in [Threads -> [pc : DumpPcs, task : Tasks]] /\ Idle \in [pc : DumpPcs, task : Tasks]
    BY DEF TypeOK, Idle, Tasks, DumpPcs
  <2>2. dump' = [dump EXCEPT ![<<r, x>>] = Idle] \/ \E pc \in DumpPcs : Goes(<<r, x>>, pc)
    BY DEF DumpStep, DumpOpen, DumpWrite, DumpSuccess, DumpList, MarkWrite, MarkRename, MarkFail, DumpPcs
  <2> QED BY <1>0, <2>1, <2>2 DEF Goes
<1>3. ASSUME dump[<<r, x>>].pc # "idle"
      PROVE  t \in Dirs /\ t[1] \in 0 .. Bound
  <2>1. t \in Dirs /\ t[1] \in Iters /\ t[1] \in Int /\ t[1] <= iter
    BY <1>a, <1>0, <1>3, TaskFacts
  <2>2. Bound \in Int /\ iter \in 0 .. Bound /\ t[1] >= 1
    BY <2>1, IterType DEF TypeOK, Iters
  <2> QED BY <2>1, <2>2
<1>4. files' \in [Dirs \X Ranks -> {Partial} \cup 0 .. run]
  <2>1. files' = files \/ (dump[<<r, x>>].pc # "idle" /\ \E v \in {Partial, run} : Writes(t, r, v))
    BY <1>0 DEF DumpStep, DumpOpen, DumpWrite, DumpSuccess, DumpList, MarkWrite, MarkRename, MarkFail,
                diskVars, Writes
  <2>2. {Partial, run} \subseteq {Partial} \cup 0 .. run
    BY SaverTypes
  <2> QED BY <1>3, <2>1, <2>2 DEF TypeOK, Writes
<1>5. success' \in [Dirs -> [Ranks -> 0 .. run]]
  <2>1. success' = success \/ (dump[<<r, x>>].pc # "idle" /\ Succeeds(t, r, run))
    BY <1>a, <1>0 DEF DumpStep, DumpOpen, DumpWrite, DumpSuccess, DumpList, MarkWrite, MarkRename, MarkFail,
                diskVars, Succeeds
  <2>2. run \in 0 .. run
    BY SaverTypes
  <2>3. ASSUME t \in Dirs, NEW v \in 0 .. run, Succeeds(t, r, v)
        PROVE  success' \in [Dirs -> [Ranks -> 0 .. run]]
    <3>1. success[t] \in [Ranks -> 0 .. run]
      BY <2>3 DEF TypeOK
    <3>2. [success[t] EXCEPT ![r] = v] \in [Ranks -> 0 .. run]
      BY <3>1
    <3>3. success' = [success EXCEPT ![t] = [success[t] EXCEPT ![r] = v]]
      BY <2>3 DEF Succeeds, TypeOK
    <3> QED BY <3>2, <3>3 DEF TypeOK
  <2>4. CASE success' = success
    BY <2>4 DEF TypeOK
  <2> QED BY <1>3, <2>1, <2>2, <2>3, <2>4
<1>6. tmp' \in [Ranks -> 0 .. Bound]
  <2>1. 0 \in 0 .. Bound
    BY IterType DEF TypeOK
  <2>2. \/ tmp' = tmp \/ tmp' = [tmp EXCEPT ![r] = 0]
        \/ dump[<<r, x>>].pc # "idle" /\ tmp' = [tmp EXCEPT ![r] = t[1]]
    BY <1>a, <1>0 DEF DumpStep, DumpOpen, DumpWrite, DumpSuccess, DumpList, MarkWrite, MarkRename, MarkFail,
                diskVars
  <2> QED BY <1>3, <2>1, <2>2 DEF TypeOK
<1>7. marked' \in 0 .. Bound
  <2>1. marked' = marked \/ marked' = tmp[r]
    BY <1>0 DEF DumpStep, DumpOpen, DumpWrite, DumpSuccess, DumpList, MarkWrite, MarkRename, MarkFail,
                diskVars
  <2> QED BY <2>1 DEF TypeOK
<1> QED BY <1>1, <1>2, <1>4, <1>5, <1>6, <1>7 DEF TypeOK, Bound

\* The next part, or none.
LEMMA NextPartType ==
  ASSUME CheckpointerAssumption, TypeOK, NEW r \in Ranks
  PROVE  NextPart(r) \in [pc : SaverPcs, part : 1 .. Parts]
<1>1. saver[r].part \in 1 .. Parts /\ Parts \in Nat /\ 1 \in 1 .. Parts
  BY SaverTypes, PartsType
<1> QED BY <1>1 DEF NextPart, SaverPcs

\* A step of one rank's trainer thread, or of its queue.
LEMMA TrainerType ==
  ASSUME CheckpointerAssumption, TypeOK, Ranked, NEW r \in Ranks,
         TrainerStep(r) \/ DumperTake(r) \/ DumperDies(r)
  PROVE  TypeOK'
<1>0. /\ saver[r] \in [pc : SaverPcs, part : 1 .. Parts] /\ tasks[r] \in Seq(Dirs)
      /\ RankInv(r) /\ "dumper" \in Kinds /\ "saver" \in Kinds
  BY DEF TypeOK, Ranked, Kinds
<1>1. UNCHANGED <<jobVars, diskVars>>
  BY DEF TrainerStep, Join, SubmitAsync, SubmitSync, SyncDone, Exit, DumperTake, DumperDies
<1>2. saver' \in [Ranks -> [pc : SaverPcs, part : 1 .. Parts]]
  <2>1. saver' = saver \/ \E v \in [pc : SaverPcs, part : 1 .. Parts] : saver' = [saver EXCEPT ![r] = v]
    <3>1. ASSUME NEW pc \in SaverPcs, saver' = [saver EXCEPT ![r].pc = pc]
          PROVE  \E v \in [pc : SaverPcs, part : 1 .. Parts] : saver' = [saver EXCEPT ![r] = v]
      <4>1. [saver[r] EXCEPT !.pc = pc] \in [pc : SaverPcs, part : 1 .. Parts]
        BY <1>0
      <4>2. saver' = [saver EXCEPT ![r] = [saver[r] EXCEPT !.pc = pc]]
        BY <3>1 DEF TypeOK
      <4> QED BY <4>1, <4>2
    <3>2. \/ saver' = saver
          \/ \E pc \in SaverPcs : saver' = [saver EXCEPT ![r].pc = pc]
          \/ saver' = [saver EXCEPT ![r] = NextPart(r)]
      BY DEF TrainerStep, Join, SubmitAsync, SubmitSync, SyncDone, Exit, DumperTake, DumperDies, SaverPcs
    <3> QED BY <3>1, <3>2, NextPartType
  <2> QED BY <2>1 DEF TypeOK
<1>3. ASSUME SubmitAsync(r) \/ SubmitSync(r)
      PROVE  Task(r) \in Dirs
  <2>1. saver[r].pc = "submit" /\ saver[r].part \in 1 .. Parts
    BY <1>0, <1>3 DEF SubmitAsync, SubmitSync
  <2>2. iter >= 1
    BY <1>0, <2>1 DEF RankInv, Phases
  <2> QED BY <2>1, <2>2, IterType, DirTypes DEF Task
<1>4. tasks' \in [Ranks -> Seq(Dirs)]
  <2>1. CASE SubmitAsync(r)
    <3>1. Append(tasks[r], Task(r)) \in Seq(Dirs)
      BY <1>0, <1>3, <2>1
    <3> QED BY <2>1, <3>1 DEF SubmitAsync, TypeOK
  <2>2. CASE DumperTake(r)
    <3>1. Tail(tasks[r]) \in Seq(Dirs)
      BY <1>0, <2>2 DEF DumperTake
    <3> QED BY <2>2, <3>1 DEF DumperTake, TakeTask, TypeOK
  <2>3. CASE tasks' = tasks
    BY <2>3 DEF TypeOK
  <2> QED BY <2>1, <2>2, <2>3 DEF TrainerStep, Join, SubmitSync, SyncDone, Exit, DumperDies
<1>5. dump' \in [Threads -> [pc : DumpPcs, task : Tasks]]
  <2>1. dump \in [Threads -> [pc : DumpPcs, task : Tasks]] /\ Idle \in [pc : DumpPcs, task : Tasks]
    BY DEF TypeOK, Idle, Tasks, DumpPcs
  <2>2. ASSUME NEW t \in Dirs
        PROVE  [pc |-> "open", task |-> t] \in [pc : DumpPcs, task : Tasks]
    BY DEF Tasks, DumpPcs
  <2>3. CASE SubmitSync(r)
    BY <1>0, <1>3, <2>1, <2>2, <2>3 DEF SubmitSync
  <2>4. CASE DumperTake(r)
    <3>1. Head(tasks[r]) \in Dirs
      BY <1>0, <2>4 DEF DumperTake
    <3> QED BY <1>0, <2>1, <2>2, <2>4, <3>1 DEF DumperTake, TakeTask
  <2>5. CASE DumperDies(r)
    BY <2>1, <2>5 DEF DumperDies, Goes, DumpPcs
  <2>6. CASE dump' = dump \/ Exit(r)
    BY <2>1, <2>6 DEF Exit
  <2> QED BY <2>3, <2>4, <2>5, <2>6 DEF TrainerStep, Join, SubmitAsync, SyncDone
<1> QED BY <1>1, <1>2, <1>4, <1>5 DEF TypeOK, Bound, jobVars, diskVars

\* Every step keeps the types.
LEMMA StepType ==
  ASSUME CheckpointerAssumption, TypeOK, Ranked, [Next]_vars
  PROVE  TypeOK'
<1>0. TrainIters \in Int /\ iter \in Int /\ run \in Int /\ Bound \in Int /\ Bound >= iter /\ run >= 1
      /\ 1 \in 1 .. Parts /\ Bound = TrainIters + run - 1 /\ start \in Int /\ iter >= 0
      /\ start <= iter /\ 0 <= start
  BY SaverTypes, IterType, PartsType DEF CheckpointerAssumption, TypeOK, Bound
<1>1. CASE Training
  <2>1. saver' \in [Ranks -> [pc : SaverPcs, part : 1 .. Parts]]
    <3>1. saver \in [Ranks -> [pc : SaverPcs, part : 1 .. Parts]]
      BY DEF TypeOK
    <3>2. CASE Barrier
      <4>1. ASSUME NEW r \in Ranks
            PROVE  [saver[r] EXCEPT !.pc = "submit"] \in [pc : SaverPcs, part : 1 .. Parts]
        BY <3>1 DEF SaverPcs
      <4> QED BY <3>2, <4>1 DEF Barrier
    <3>3. CASE TrainIter \/ SaveBegin \/ NextIter
      BY <1>0, <3>1, <3>3 DEF TrainIter, SaveBegin, NextIter, SaverPcs
    <3> QED BY <1>1, <3>2, <3>3 DEF Training
  <2>2. iter' = iter \/ (iter' = iter + 1 /\ ~Last)
    BY <1>1 DEF Training, TrainIter, SaveBegin, NextIter, Barrier, jobVars
  <2>3. iter' \in 0 .. Bound /\ start \in 0 .. iter'
    BY <1>0, <2>2 DEF Last
  <2> QED BY <1>1, <2>1, <2>3
          DEF Training, TrainIter, SaveBegin, NextIter, Barrier, TypeOK, Bound, jobVars, diskVars
<1>2. CASE \E r \in Ranks : TrainerStep(r) \/ DumperTake(r) \/ DumperDies(r)
  BY <1>2, TrainerType
<1>3. CASE \E th \in Threads : DumpStep(th)
  BY <1>3, DirTypes, DumpStepType
<1>4. CASE Restart
  <2>1. run' = run + 1 /\ run <= MaxCrashes /\ iter' = start' /\ marked' = marked
        /\ start' = IF marked = 0 THEN 0 ELSE marked + 1
    BY <1>4 DEF Restart, diskVars
  <2>2. Bound' = Bound + 1 /\ MaxCrashes \in Int
    BY <1>0, <2>1 DEF Bound, CheckpointerAssumption
  <2>3. run' \in 1 .. MaxCrashes + 1 /\ iter' \in 0 .. Bound' /\ start' \in 0 .. iter' /\ marked' \in 0 .. Bound'
    BY <1>0, <2>1, <2>2 DEF TypeOK
  <2>4. 0 .. Bound \subseteq 0 .. Bound' /\ 0 .. run \subseteq 0 .. run'
    BY <1>0, <2>1, <2>2
  <2>5. /\ saver' \in [Ranks -> [pc : SaverPcs, part : 1 .. Parts]]
        /\ tasks' \in [Ranks -> Seq(Dirs)]
        /\ dump' \in [Threads -> [pc : DumpPcs, task : Tasks]]
    BY <1>0, <1>4 DEF Restart, SaverPcs, DumpPcs, Idle, Tasks
  <2>6. /\ files' \in [Dirs \X Ranks -> {Partial} \cup 0 .. run']
        /\ success' \in [Dirs -> [Ranks -> 0 .. run']]
        /\ tmp' \in [Ranks -> 0 .. Bound']
    <3>1. files' = files /\ success' = success /\ tmp' = tmp
      BY <1>4 DEF Restart, diskVars
    <3>2. /\ files \in [Dirs \X Ranks -> {Partial} \cup 0 .. run]
          /\ success \in [Dirs -> [Ranks -> 0 .. run]]
          /\ tmp \in [Ranks -> 0 .. Bound]
      BY DEF TypeOK
    <3>3. tmp \in [Ranks -> 0 .. Bound']
      BY <2>4, <3>2
    <3>4. files \in [Dirs \X Ranks -> {Partial} \cup 0 .. run']
      BY <2>4, <3>2
    <3>5. success \in [Dirs -> [Ranks -> 0 .. run']]
      BY <2>4, <3>2
    <3> QED BY <3>1, <3>3, <3>4, <3>5
  <2> QED BY <2>3, <2>5, <2>6 DEF TypeOK
<1>5. CASE UNCHANGED vars \/ Finished
  BY <1>5 DEF TypeOK, Bound, Finished, vars, jobVars, diskVars
<1> QED BY <1>1, <1>2, <1>3, <1>4, <1>5 DEF Next

-----------------------------------------------------------------------------
(* What is marked.                                                         *)

\* A .success file is never removed, only written anew by a later run.
LEMMA SuccessStays ==
  ASSUME CheckpointerAssumption, TypeOK, Ranked, [Next]_vars, NEW d \in Dirs, NEW s \in Ranks
  PROVE  /\ success[d][s] # 0 => success'[d][s] # 0
         /\ run' = run /\ success[d][s] = run => success'[d][s] = run
<1>1. CASE success' = success
  BY <1>1
<1>2. CASE \E th \in Threads : DumpSuccess(th)
  <2>a. PICK v : v = run
    OBVIOUS
  <2>1. PICK r \in Ranks, x \in Kinds : DumpSuccess(<<r, x>>)
    BY <1>2, DirTypes
  <2>b. PICK t : t = dump[<<r, x>>].task
    OBVIOUS
  <2>2. dump[<<r, x>>].pc = "success" /\ Succeeds(t, r, v)
    BY <2>a, <2>b, <2>1 DEF DumpSuccess, At, Succeeds
  <2>3. t \in Dirs
    BY <2>b, <2>2, TaskFacts DEF Ranked
  <2>4. success'[t][r] = v /\ \A q \in Ranks : \A e \in Dirs : q # r \/ e # t => success'[e][q] = success[e][q]
    BY <2>2, <2>3, SuccessAt
  <2>5. run >= 1
    BY SaverTypes
  <2> QED BY <2>a, <2>4, <2>5
<1> QED BY <1>1, <1>2
        DEF Next, Training, TrainIter, SaveBegin, NextIter, Barrier, TrainerStep, Join, SubmitAsync,
            SubmitSync, SyncDone, Exit, DumperTake, DumperDies, DumpStep, DumpOpen, DumpWrite, DumpList,
            MarkWrite, MarkRename, MarkFail, Restart, Finished, vars, diskVars

\* A root that has all its .success files keeps them, and those of this run
\* stay this run's.
LEMMA MarkedStays ==
  ASSUME CheckpointerAssumption, TypeOK, Ranked, [Next]_vars, NEW p \in Iters
  PROVE  /\ Marked(p) => Marked(p)'
         /\ run' = run => \A r \in Ranks : Root(r, p) => Root(r, p)'
<1>1. <<p, Parts>> \in Dirs
  BY DirTypes, PartsType
<1>2. \A r \in Ranks : /\ success[<<p, Parts>>][r] # 0 => success'[<<p, Parts>>][r] # 0
                       /\ run' = run /\ success[<<p, Parts>>][r] = run => success'[<<p, Parts>>][r] = run
  BY <1>1, SuccessStays
<1> QED BY <1>2 DEF Marked, Root

\* What is in a root directory that has a .success file of every rank.
LEMMA FinishedMarked ==
  ASSUME CheckpointerAssumption, NEW t \in Dirs, AllRanksFinished(t)
  PROVE  t[2] = Parts /\ Marked(t[1])
<1>1. t = <<t[1], t[2]>> /\ t[2] = Parts
  BY DirTypes DEF AllRanksFinished, Marks
<1>2. IsFiniteSet(Ranks) /\ Successes(t) \subseteq Ranks /\ Cardinality(Successes(t)) = Cardinality(Ranks)
  BY DEF CheckpointerAssumption, Successes, AllRanksFinished
<1>3. Successes(t) = Ranks
  BY <1>2, FS_Subset
<1>4. \A r \in Ranks : success[<<t[1], Parts>>][r] # 0
  BY <1>1, <1>3 DEF Successes
<1> QED BY <1>1, <1>4 DEF Marked

\* What MarkInv says of one thread.
ThreadMark(r, x) ==
  /\ dump[<<r, x>>].pc \in {"mark", "rename"} => Marked(dump[<<r, x>>].task[1])
  /\ dump[<<r, x>>].pc = "rename" /\ tmp[r] # 0 => Marked(tmp[r]) /\ Root(r, tmp[r])

\* Where a checkpoint is named, on the disk, it is one of a past iteration.
LEMMA NamedIters ==
  ASSUME CheckpointerAssumption, TypeOK
  PROVE  /\ marked # 0 => marked \in Iters
         /\ \A r \in Ranks : tmp[r] # 0 => tmp[r] \in Iters
<1>1. TrainIters \in Int /\ MaxCrashes \in Int /\ run \in Int /\ run <= MaxCrashes + 1
  BY DEF CheckpointerAssumption, TypeOK
<1>2. Bound \in Int /\ Bound <= TrainIters + 1 + MaxCrashes
  BY <1>1 DEF Bound
<1>3. \A p \in 0 .. Bound : p # 0 => p \in Iters
  BY <1>1, <1>2 DEF Iters
<1> QED BY <1>3 DEF TypeOK

\* A thread that marks, and is left alone, has still what it marks.
LEMMA ThreadMarkStays ==
  ASSUME CheckpointerAssumption, TypeOK, Ranked, [Next]_vars, run' = run,
         NEW r \in Ranks, NEW x \in Kinds, ThreadMark(r, x),
         dump'[<<r, x>>] = dump[<<r, x>>], tmp'[r] \in {0, tmp[r]}
  PROVE  ThreadMark(r, x)'
<1>a. PICK t : t = dump[<<r, x>>].task
  OBVIOUS
<1>b. PICK q : q = tmp[r]
  OBVIOUS
<1>1. dump[<<r, x>>].pc \in {"mark", "rename"} => t[1] \in Iters
  BY <1>a, TaskFacts DEF Ranked
<1>2. q # 0 => q \in Iters
  BY <1>b, NamedIters
<1>3. dump[<<r, x>>].pc \in {"mark", "rename"} => Marked(t[1])'
  BY <1>a, <1>1, MarkedStays DEF ThreadMark
<1>4. dump[<<r, x>>].pc = "rename" /\ q # 0 => Marked(q)' /\ Root(r, q)'
  BY <1>b, <1>2, MarkedStays DEF ThreadMark
<1>5. dump'[<<r, x>>].task = t /\ (tmp'[r] = q \/ tmp'[r] = 0)
  BY <1>a, <1>b
<1>6. dump'[<<r, x>>].pc \in {"mark", "rename"} => Marked(dump[<<r, x>>].task[1])'
  BY <1>3, <1>5
<1>7. dump'[<<r, x>>].pc = "rename" /\ tmp'[r] # 0 => Marked(tmp[r])' /\ Root(r, tmp[r])'
  BY <1>4, <1>5
<1> QED BY <1>6, <1>7 DEF ThreadMark

\* A stage of a dump: what it lists, it may mark.
LEMMA DumpStepMark ==
  ASSUME CheckpointerAssumption, TypeOK, Ranked, [Next]_vars, NEW r \in Ranks, NEW x \in Kinds,
         DumpStep(<<r, x>>), \A y \in Kinds : ThreadMark(r, y)
  PROVE  /\ \A s \in Ranks : \A y \in Kinds : ThreadMark(s, y) => ThreadMark(s, y)'
         /\ run' = run /\ start' = start
         /\ marked' = marked \/ (marked' # 0 /\ Marked(marked)' /\ Root(r, marked)')
<1>a. PICK t : t = dump[<<r, x>>].task
  OBVIOUS
<1>0. /\ <<r, x>>[1] = r /\ \A pc : At(<<r, x>>, pc) <=> dump[<<r, x>>].pc = pc
  BY DEF At
<1>1. run' = run /\ start' = start
  BY DEF DumpStep, DumpOpen, DumpWrite, DumpSuccess, DumpList, MarkWrite, MarkRename, MarkFail, jobVars
<1>2. /\ dump[<<r, x>>].pc # "idle" => t \in Dirs /\ t[1] \in Iters /\ t = <<t[1], t[2]>>
      /\ Written(r, x)
  BY <1>a, TaskFacts DEF Ranked, RankInv
<1>3. /\ \/ dump' = [dump EXCEPT ![<<r, x>>] = Idle]
         \/ \E pc : Goes(<<r, x>>, pc)
      /\ dump[<<r, x>>].pc # "idle"
  BY <1>0 DEF DumpStep, DumpOpen, DumpWrite, DumpSuccess, DumpList, MarkWrite, MarkRename, MarkFail
<1>4. \A s \in Ranks : \A y \in Kinds : s # r \/ y # x => dump'[<<s, y>>] = dump[<<s, y>>]
  <2>1. ASSUME NEW pc, Goes(<<r, x>>, pc)
        PROVE  \A s \in Ranks : \A y \in Kinds : s # r \/ y # x => dump'[<<s, y>>] = dump[<<s, y>>]
    BY <2>1, GoesAt
  <2>2. ASSUME dump' = [dump EXCEPT ![<<r, x>>] = Idle]
        PROVE  \A s \in Ranks : \A y \in Kinds : s # r \/ y # x => dump'[<<s, y>>] = dump[<<s, y>>]
    BY <2>2, DumpAt
  <2> QED BY <1>3, <2>1, <2>2
<1>5. \A s \in Ranks : s # r => tmp'[s] = tmp[s]
  BY <1>0 DEF DumpStep, DumpOpen, DumpWrite, DumpSuccess, DumpList, MarkWrite, MarkRename, MarkFail,
              diskVars, TypeOK
<1>6. ASSUME NEW s \in Ranks, NEW y \in Kinds, s # r, ThreadMark(s, y)
      PROVE  ThreadMark(s, y)'
  BY <1>1, <1>4, <1>5, <1>6, ThreadMarkStays
<1>7. CASE MarkWrite(<<r, x>>)
  <2>1. /\ dump[<<r, x>>].pc = "mark" /\ Goes(<<r, x>>, "rename") /\ tmp'[r] = t[1]
        /\ marked' = marked /\ success' = success
    BY <1>a, <1>0, <1>7 DEF MarkWrite, TypeOK
  <2>2. Marked(t[1]) /\ success[t][r] = run /\ t = <<t[1], Parts>> /\ t[1] \in Iters
    BY <1>a, <1>2, <2>1 DEF ThreadMark, Written
  <2>3. Marked(t[1])' /\ Root(r, t[1])'
    BY <1>1, <2>2, MarkedStays DEF Root
  <2>4. dump'[<<r, x>>].task = t
    BY <1>a, <2>1, GoesAt
  <2>5. ASSUME NEW y \in Kinds
        PROVE  ThreadMark(r, y)'
    <3>1. dump'[<<r, y>>].pc \in {"mark", "rename"} => Marked(dump[<<r, y>>].task[1])'
      <4>1. CASE y = x
        BY <2>3, <2>4, <4>1
      <4>2. CASE y # x
        <5>1. dump'[<<r, y>>] = dump[<<r, y>>]
          BY <1>4, <4>2
        <5>a. PICK u : u = dump[<<r, y>>].task
          OBVIOUS
        <5>2. dump[<<r, y>>].pc \in {"mark", "rename"} => u[1] \in Iters
          BY <5>a, TaskFacts DEF Ranked
        <5>3. dump[<<r, y>>].pc \in {"mark", "rename"} => Marked(u[1])'
          BY <5>a, <5>2, MarkedStays DEF ThreadMark
        <5>4. dump'[<<r, y>>].task = u
          BY <5>a, <5>1
        <5> QED BY <5>1, <5>3, <5>4
      <4> QED BY <4>1, <4>2
    <3>2. Marked(tmp[r])' /\ Root(r, tmp[r])'
      BY <2>1, <2>3
    <3> QED BY <3>1, <3>2 DEF ThreadMark
  <2> QED BY <1>1, <1>6, <2>1, <2>5
<1>8. CASE ~MarkWrite(<<r, x>>)
  <2>1. tmp'[r] \in {0, tmp[r]}
    BY <1>0, <1>8 DEF DumpStep, DumpOpen, DumpWrite, DumpSuccess, DumpList, MarkRename, MarkFail, diskVars, TypeOK
  <2>2. ASSUME NEW y \in Kinds, y # x
        PROVE  ThreadMark(r, y)'
    BY <1>1, <1>4, <2>1, <2>2, ThreadMarkStays
  <2>3. ThreadMark(r, x)'
    <3>1. CASE DumpList(<<r, x>>) /\ AllRanksFinished(t)
      <4>1. dump[<<r, x>>].pc = "list" /\ Goes(<<r, x>>, "mark") /\ t \in Dirs
        BY <1>a, <1>0, <1>2, <3>1 DEF DumpList
      <4>2. Marked(t[1]) /\ t[1] \in Iters
        BY <1>2, <3>1, <4>1, FinishedMarked
      <4>3. Marked(t[1])'
        BY <4>2, MarkedStays
      <4>4. dump'[<<r, x>>].task = t /\ dump'[<<r, x>>].pc = "mark"
        BY <1>a, <4>1, GoesAt
      <4> QED BY <4>3, <4>4 DEF ThreadMark
    <3>2. CASE ~(DumpList(<<r, x>>) /\ AllRanksFinished(t))
      <4>1. \/ dump' = [dump EXCEPT ![<<r, x>>] = Idle]
            \/ \E pc \in {"write", "success", "list"} : Goes(<<r, x>>, pc)
        BY <1>a, <1>8, <3>2 DEF DumpStep, DumpOpen, DumpWrite, DumpSuccess, DumpList, MarkRename, MarkFail
      <4>2. dump'[<<r, x>>].pc \notin {"mark", "rename"}
        <5>1. ASSUME NEW pc \in {"write", "success", "list"}, Goes(<<r, x>>, pc)
              PROVE  dump'[<<r, x>>].pc \notin {"mark", "rename"}
          BY <5>1, GoesAt
        <5>2. ASSUME dump' = [dump EXCEPT ![<<r, x>>] = Idle]
              PROVE  dump'[<<r, x>>].pc \notin {"mark", "rename"}
          <6>1. /\ dump'[<<r, x>>] = Idle
                /\ \A s \in Ranks : \A y \in Kinds :
                     s # r \/ y # x => dump'[<<s, y>>] = dump[<<s, y>>]
            BY <5>2, DumpAt
          <6> QED BY <6>1 DEF Idle
        <5> QED BY <4>1, <5>1, <5>2
      <4> QED BY <4>2 DEF ThreadMark
    <3> QED BY <3>1, <3>2
  <2>4. marked' = marked \/ (marked' # 0 /\ Marked(marked)' /\ Root(r, marked)')
    <3>1. CASE MarkRename(<<r, x>>)
      <4>a. PICK q : q = tmp[r]
        OBVIOUS
      <4>1. dump[<<r, x>>].pc = "rename" /\ q # 0 /\ marked' = q
        BY <4>a, <1>0, <3>1 DEF MarkRename
      <4>2. Marked(q) /\ Root(r, q) /\ q \in Iters
        BY <4>a, <4>1, NamedIters DEF ThreadMark
      <4>3. Marked(q)' /\ Root(r, q)'
        BY <1>1, <4>2, MarkedStays
      <4> QED BY <4>1, <4>3
    <3>2. CASE ~MarkRename(<<r, x>>)
      BY <1>8, <3>2 DEF DumpStep, DumpOpen, DumpWrite, DumpSuccess, DumpList, MarkFail, diskVars
    <3> QED BY <3>1, <3>2
  <2> QED BY <1>1, <1>6, <2>2, <2>3, <2>4
<1> QED BY <1>7, <1>8

\* Every step keeps what is marked a checkpoint that all ranks finished.
LEMMA StepMark ==
  ASSUME CheckpointerAssumption, TypeOK, Ranked, MarkInv, [Next]_vars
  PROVE  MarkInv'
<1>0. \A r \in Ranks : \A x \in Kinds : ThreadMark(r, x)
  BY DEF MarkInv, ThreadMark
<1>1. SUFFICES /\ \A r \in Ranks : \A x \in Kinds : ThreadMark(r, x)'
               /\ Marked(marked)'
               /\ marked' < start' \/ marked' = 0 \/ \E r \in Ranks : Root(r, marked)'
  BY DEF MarkInv, ThreadMark
<1>2. ASSUME marked' = marked, run' = run, start' = start
      PROVE  /\ Marked(marked)'
             /\ marked' < start' \/ marked' = 0 \/ \E r \in Ranks : Root(r, marked)'
  <2>a. PICK p : p = marked
    OBVIOUS
  <2>1. p # 0 => p \in Iters /\ Marked(p)
    BY <2>a, NamedIters DEF MarkInv
  <2>2. Marked(p)'
    BY <2>1, MarkedStays DEF Marked
  <2>3. p < start \/ p = 0 \/ \E r \in Ranks : Root(r, p)
    BY <2>a DEF MarkInv
  <2>4. p < start \/ p = 0 \/ \E r \in Ranks : Root(r, p)'
    BY <1>2, <2>1, <2>3, MarkedStays
  <2> QED BY <2>a, <1>2, <2>2, <2>4
<1>3. CASE \E th \in Threads : DumpStep(th)
  <2>1. PICK r \in Ranks, x \in Kinds : DumpStep(<<r, x>>)
    BY <1>3, DirTypes
  <2>2. /\ \A s \in Ranks : \A y \in Kinds : ThreadMark(s, y) => ThreadMark(s, y)'
        /\ run' = run /\ start' = start
        /\ marked' = marked \/ (marked' # 0 /\ Marked(marked)' /\ Root(r, marked)')
    BY <1>0, <2>1, DumpStepMark
  <2> QED BY <1>0, <1>1, <1>2, <2>2
<1>4. CASE \E r \in Ranks : TrainerStep(r) \/ DumperTake(r) \/ DumperDies(r)
  <2>1. PICK r \in Ranks : TrainerStep(r) \/ DumperTake(r) \/ DumperDies(r)
    BY <1>4
  <2>2. UNCHANGED <<jobVars, diskVars>>
    BY <2>1 DEF TrainerStep, Join, SubmitAsync, SubmitSync, SyncDone, Exit, DumperTake, DumperDies
  <2>3. /\ \A x \in Kinds : \/ dump'[<<r, x>>] = dump[<<r, x>>]
                            \/ dump'[<<r, x>>].pc \in {"open", "idle", "dead"}
        /\ Alone(r)
    <3>1. Alone(r)
      BY <2>1, OwnRank, DumperDiesRank DEF Ranked
    <3>2. ASSUME NEW y \in Kinds, NEW v, v.pc \in {"open", "idle", "dead"}, dump' = [dump EXCEPT ![<<r, y>>] = v]
          PROVE  \A x \in Kinds : \/ dump'[<<r, x>>] = dump[<<r, x>>]
                                  \/ dump'[<<r, x>>].pc \in {"open", "idle", "dead"}
      BY <3>2, DumpAt
    <3>3. CASE dump' = dump
      BY <3>1, <3>3
    <3>4. CASE \E y \in Kinds : \E t : dump' = [dump EXCEPT ![<<r, y>>] = [pc |-> "open", task |-> t]]
      <4>0. PICK y \in Kinds : \E t : dump' = [dump EXCEPT ![<<r, y>>] = [pc |-> "open", task |-> t]]
        BY <3>4
      <4>1. PICK t : dump' = [dump EXCEPT ![<<r, y>>] = [pc |-> "open", task |-> t]]
        BY <4>0
      <4>2. PICK v : v = [pc |-> "open", task |-> t]
        OBVIOUS
      <4>3. v.pc \in {"open", "idle", "dead"} /\ dump' = [dump EXCEPT ![<<r, y>>] = v]
        BY <4>1, <4>2
      <4> QED BY <3>1, <3>2, <4>3
    <3>5. CASE dump' = [dump EXCEPT ![<<r, "dumper">>] = Idle]
      BY <3>1, <3>2, <3>5 DEF Kinds, Idle
    <3>6. CASE Goes(<<r, "dumper">>, "dead")
      <4>1. "dumper" \in Kinds
        BY DEF Kinds
      <4> QED BY <3>1, <3>6, <4>1, GoesAt
    <3> QED BY <2>1, <3>3, <3>4, <3>5, <3>6
            DEF TrainerStep, Join, SubmitAsync, SubmitSync, SyncDone, Exit, DumperTake, DumperDies, Kinds
  <2>4. ASSUME NEW s \in Ranks, NEW x \in Kinds
        PROVE  ThreadMark(s, x)'
    <3>1. \/ dump'[<<s, x>>] = dump[<<s, x>>]
          \/ dump'[<<s, x>>].pc \in {"open", "idle", "dead"}
      BY <2>3 DEF Alone, Same
    <3>2. CASE dump'[<<s, x>>] = dump[<<s, x>>]
      BY <1>0, <2>2, <3>2, ThreadMarkStays DEF diskVars, jobVars
    <3>3. CASE dump'[<<s, x>>].pc \in {"open", "idle", "dead"}
      BY <3>3 DEF ThreadMark
    <3> QED BY <3>1, <3>2, <3>3
  <2> QED BY <1>1, <1>2, <2>2, <2>4 DEF diskVars, jobVars
<1>5. CASE Training \/ UNCHANGED vars \/ Finished
  <2>1. dump' = dump /\ run' = run /\ start' = start /\ tmp' = tmp /\ marked' = marked
    BY <1>5 DEF Training, TrainIter, SaveBegin, NextIter, Barrier, Finished, vars, jobVars, diskVars
  <2>2. ASSUME NEW s \in Ranks, NEW x \in Kinds
        PROVE  ThreadMark(s, x)'
    BY <1>0, <2>1, ThreadMarkStays
  <2> QED BY <1>1, <1>2, <2>1, <2>2
<1>6. CASE Restart
  <2>1. ASSUME NEW s \in Ranks, NEW x \in Kinds
        PROVE  ThreadMark(s, x)'
    BY <1>6, DirTypes DEF Restart, Idle, ThreadMark
  <2>2. marked' = marked /\ success' = success /\ start' = IF marked = 0 THEN 0 ELSE marked + 1
    BY <1>6 DEF Restart, diskVars
  <2>3. Marked(marked)'
    BY <2>2 DEF MarkInv, Marked
  <2>4. marked \in Int
    BY IterType DEF TypeOK
  <2> QED BY <1>1, <2>1, <2>2, <2>3, <2>4
<1> QED BY <1>3, <1>4, <1>5, <1>6 DEF Next

-----------------------------------------------------------------------------
(* What is resumed from is complete.                                       *)

\* A root this run has finished on all ranks comes with all its parts.
LEMMA RootsComplete ==
  CheckpointerAssumption /\ TypeOK /\ Ranked =>
    \A p \in Iters : (\A r \in Ranks : Root(r, p)) => Complete(p)
<1>1. SUFFICES ASSUME CheckpointerAssumption, TypeOK, Ranked, NEW p \in Iters, \A r \in Ranks : Root(r, p)
               PROVE  Complete(p)
  OBVIOUS
<1>2. \A k \in 1 .. Parts : \A r \in Ranks : files[<<<<p, k>>, r>>] = run
  BY <1>1 DEF Ranked, RankInv, Rooted, Here
<1>3. run \in 1 .. run
  BY <1>1 DEF TypeOK
<1> QED BY <1>2, <1>3 DEF Complete

\* The same, of the next state.
LEMMA RootsCompleteNext ==
  (CheckpointerAssumption /\ TypeOK /\ Ranked =>
    \A p \in Iters : (\A r \in Ranks : Root(r, p)) => Complete(p))'
BY RootsComplete, PTL

\* A run does not touch the checkpoints of those before it.
LEMMA PastKept ==
  ASSUME CheckpointerAssumption, TypeOK, Ranked, [Next]_vars, run' = run,
         NEW p \in Iters, p < start, NEW s \in Ranks, NEW k \in 1 .. Parts
  PROVE  files'[<<<<p, k>>, s>>] = files[<<<<p, k>>, s>>] /\ success'[<<p, k>>][s] = success[<<p, k>>][s]
<1>0. <<p, k>> \in Dirs /\ start \in Int /\ run \in Int
  BY DirTypes, SaverTypes
<1>1. CASE \E th \in Threads : DumpOpen(th) \/ DumpWrite(th) \/ DumpSuccess(th)
  <2>1. PICK r \in Ranks, x \in Kinds : DumpOpen(<<r, x>>) \/ DumpWrite(<<r, x>>) \/ DumpSuccess(<<r, x>>)
    BY <1>1, DirTypes
  <2>a. PICK t : t = dump[<<r, x>>].task
    OBVIOUS
  <2>b. PICK v : v = run
    OBVIOUS
  <2>2. /\ dump[<<r, x>>].pc # "idle"
        /\ \/ (Writes(t, r, Partial) \/ Writes(t, r, v)) /\ success' = success
           \/ Succeeds(t, r, v) /\ files' = files
    BY <2>a, <2>b, <2>1 DEF DumpOpen, DumpWrite, DumpSuccess, At, FileOf, Writes, Succeeds
  <2>3. t \in Dirs /\ t # <<p, k>>
    <3>1. t \in Dirs /\ start <= t[1] /\ t[1] \in Int
      BY <2>a, <2>2, TaskFacts DEF Ranked
    <3> QED BY <1>0, <3>1
  <2>4. \A w : Writes(t, r, w) => files'[<<<<p, k>>, s>>] = files[<<<<p, k>>, s>>]
    BY <1>0, <2>3, FileAt
  <2>5. \A w : Succeeds(t, r, w) => success'[<<p, k>>][s] = success[<<p, k>>][s]
    BY <1>0, <2>3, SuccessAt
  <2> QED BY <2>2, <2>4, <2>5
<1>2. CASE files' = files /\ success' = success
  BY <1>2
<1> QED BY <1>1, <1>2
        DEF Next, Training, TrainIter, SaveBegin, NextIter, Barrier, TrainerStep, Join, SubmitAsync,
            SubmitSync, SyncDone, Exit, DumperTake, DumperDies, DumpStep, DumpList,
            MarkWrite, MarkRename, MarkFail, Restart, Finished, vars, diskVars

\* What is marked stays so, or this run has finished what is marked now.
LEMMA MarkedMoves ==
  ASSUME CheckpointerAssumption, TypeOK, Ranked, MarkInv, [Next]_vars, run' = run
  PROVE  /\ start' = start
         /\ marked' = marked \/ \E r \in Ranks : Root(r, marked)'
<1>1. CASE \E th \in Threads : DumpStep(th)
  <2>1. PICK r \in Ranks, x \in Kinds : DumpStep(<<r, x>>)
    BY <1>1, DirTypes
  <2>2. \A y \in Kinds : ThreadMark(r, y)
    BY DEF MarkInv, ThreadMark
  <2> QED BY <2>1, <2>2, DumpStepMark
<1>2. CASE ~\E th \in Threads : DumpStep(th)
  <2>1. run' # run + 1
    BY SaverTypes DEF CheckpointerAssumption, TypeOK
  <2> QED BY <1>2, <2>1
          DEF Next, Training, TrainIter, SaveBegin, NextIter, Barrier, TrainerStep, Join, SubmitAsync,
              SubmitSync, SyncDone, Exit, DumperTake, DumperDies, Restart, Finished, vars, jobVars, diskVars
<1> QED BY <1>1, <1>2

\* Every step keeps what is resumed from complete: this run has finished it,
\* or it is of a run before, and nothing writes there any more.
LEMMA StepComplete ==
  ASSUME CheckpointerAssumption, TypeOK, Ranked, MarkInv, OneRunComplete, [Next]_vars
  PROVE  OneRunComplete'
<1>0. TypeOK' /\ Ranked' /\ MarkInv' /\ CheckpointerAssumption' /\ CheckpointerAssumption
  BY StepType, StepRank, StepMark DEF CheckpointerAssumption
<1>a. PICK p : p = marked'
  OBVIOUS
<1>b. PICK m : m = run'
  OBVIOUS
<1>1. SUFFICES ASSUME NEW n \in 1 .. m, p # 0,
                      \A r \in Ranks : success'[<<p, Parts>>][r] \in {0, n}
               PROVE  Complete(p)'
  BY <1>a, <1>b DEF OneRunComplete
<1>2. p \in Iters /\ \A r \in Ranks : success'[<<p, Parts>>][r] # 0
  <2>1. marked' # 0 => marked' \in Iters
    <3>1. TrainIters \in Int /\ MaxCrashes \in Int /\ m \in Int /\ m <= MaxCrashes + 1 /\ marked' \in 0 .. Bound'
      BY <1>0, <1>b DEF CheckpointerAssumption, TypeOK
    <3>2. Bound' = TrainIters + m - 1
      BY <1>b DEF Bound
    <3>3. \A b \in 0 .. TrainIters + m - 1 : b # 0 => b \in Iters
      BY <3>1 DEF Iters
    <3> QED BY <3>1, <3>2, <3>3
  <2>2. Marked(marked)'
    BY <1>0 DEF MarkInv
  <2> QED BY <1>a, <1>1, <2>1, <2>2 DEF Marked
<1>3. \A r \in Ranks : success'[<<p, Parts>>][r] = n
  BY <1>1, <1>2
<1>4. CASE \E r \in Ranks : Root(r, p)'
  <2>1. \A r \in Ranks : Root(r, p)'
    BY <1>3, <1>4 DEF Root
  <2> QED BY <1>0, <1>2, <2>1, RootsCompleteNext
<1>5. CASE ~\E r \in Ranks : Root(r, p)'
  <2>1. \A q : (q = marked /\ q # 0 /\ \E w \in 1 .. run : \A r \in Ranks : success[<<q, Parts>>][r] \in {0, w})
                 => Complete(q)
    BY DEF OneRunComplete
  <2>2. CASE Restart
    <3>1. p = marked /\ m = run + 1 /\ success' = success /\ files' = files /\ run \in Int /\ run >= 1
      BY <1>a, <1>b, <2>2, SaverTypes DEF Restart, diskVars, CheckpointerAssumption, TypeOK
    <3>2. n \in 1 .. run
      <4>1. PICK r \in Ranks : TRUE
        BY DEF CheckpointerAssumption
      <4>2. <<p, Parts>> \in Dirs
        BY <1>2, DirTypes, PartsType
      <4>3. success[<<p, Parts>>][r] \in 0 .. run
        BY <4>2 DEF TypeOK
      <4> QED BY <1>3, <3>1, <4>3
    <3>3. Complete(p)
      BY <1>1, <2>1, <3>1, <3>2
    <3> QED BY <1>b, <3>1, <3>3 DEF Complete
  <2>3. CASE ~Restart
    <3>1. run' = run
      BY <2>3 DEF Next, Training, TrainIter, SaveBegin, NextIter, Barrier, TrainerStep, Join, SubmitAsync,
            SubmitSync, SyncDone, Exit, DumperTake, DumperDies, DumpStep, DumpOpen, DumpWrite, DumpSuccess,
            DumpList, MarkWrite, MarkRename, MarkFail, Finished, vars, jobVars
    <3>2. p = marked /\ start' = start /\ p < start'
      BY <1>0, <1>a, <1>1, <1>5, <3>1, MarkedMoves DEF MarkInv
    <3>3. \A r \in Ranks : \A k \in 1 .. Parts :
            files'[<<<<p, k>>, r>>] = files[<<<<p, k>>, r>>] /\ success'[<<p, k>>][r] = success[<<p, k>>][r]
      BY <1>2, <3>1, <3>2, PastKept
    <3>4. \A r \in Ranks : success[<<p, Parts>>][r] = n
      BY <1>3, <3>3, PartsType
    <3>5. Complete(p)
      BY <1>1, <1>b, <2>1, <3>1, <3>2, <3>4
    <3> QED BY <3>1, <3>3, <3>5 DEF Complete
  <2> QED BY <2>2, <2>3
<1> QED BY <1>4, <1>5

-----------------------------------------------------------------------------
(* The theorems.                                                           *)

\* The first run finds an empty directory.
LEMMA InitInv ==
  ASSUME CheckpointerAssumption, Init
  PROVE  TypeOK /\ Ranked /\ MarkInv /\ OneRunComplete
<1>1. TrainIters \in Nat /\ MaxCrashes \in Nat /\ 1 \in 1 .. Parts /\ Bound = TrainIters
  BY PartsType DEF CheckpointerAssumption, Init, Bound
<1>2. TypeOK
  BY <1>1 DEF Init, TypeOK, SaverPcs, DumpPcs, Idle, Tasks, Absent, Partial
<1>3. ASSUME NEW r \in Ranks
      PROVE  RankInv(r)
  <2>1. \A p \in Iters : ~Root(r, p)
    BY DirTypes, PartsType DEF Init, Root
  <2>2. Fresh(r)
    BY <2>1, DirTypes DEF Init, Fresh
  <2> QED BY <2>2, FreshRank
<1>4. MarkInv
  BY DirTypes DEF Init, MarkInv, Marked, Idle
<1>5. OneRunComplete
  BY DEF Init, OneRunComplete
<1> QED BY <1>2, <1>3, <1>4, <1>5 DEF Ranked

\* The counters, the queues, the threads and what is on the disk are what the
\* comments of the module say, whatever the number of ranks, parts and crashes.
THEOREM TypeInvariant == CheckpointerAssumption /\ Spec => []TypeOK
<1> SUFFICES ASSUME CheckpointerAssumption PROVE Spec => []TypeOK
  OBVIOUS
<1> DEFINE Inv == TypeOK /\ Ranked
<1>1. Init => Inv
  BY InitInv
<1>2. Inv /\ [Next]_vars => Inv'
  BY StepType, StepRank
<1>3. Inv => TypeOK
  OBVIOUS
<1> QED BY <1>1, <1>2, <1>3, PTL DEF Spec

\* A checkpoint that a restarted job resumes from is complete on every rank, if
\* no two runs have left .success files in its root.
THEOREM OneRunCheckpoints == CheckpointerAssumption /\ Spec => []OneRunComplete
<1> SUFFICES ASSUME CheckpointerAssumption PROVE Spec => []OneRunComplete
  OBVIOUS
<1> DEFINE Inv == TypeOK /\ Ranked /\ MarkInv /\ OneRunComplete
<1>1. Init => Inv
  BY InitInv
<1>2. Inv /\ [Next]_vars => Inv'
  BY StepType, StepRank, StepMark, StepComplete
<1>3. Inv => OneRunComplete
  OBVIOUS
<1> QED BY <1>1, <1>2, <1>3, PTL DEF Spec

-----------------------------------------------------------------------------
(* A job that is not restarted.                                            *)

\* All .success files are of this run, so every checkpoint marked is complete.
THEOREM LatestCheckpoints ==
  CheckpointerAssumption /\ MaxCrashes = 0 /\ Spec => []LatestComplete
<1> SUFFICES ASSUME CheckpointerAssumption, MaxCrashes = 0 PROVE Spec => []LatestComplete
  OBVIOUS
<1>1. TypeOK /\ OneRunComplete => LatestComplete
  <2>1. SUFFICES ASSUME TypeOK, OneRunComplete, marked # 0
                 PROVE  Complete(marked)
    BY DEF LatestComplete
  <2>2. run = 1 /\ <<marked, Parts>> \in Dirs
    BY <2>1, NamedIters, DirTypes, PartsType DEF TypeOK
  <2>3. \A r \in Ranks : success[<<marked, Parts>>][r] \in 0 .. 1
    BY <2>1, <2>2 DEF TypeOK
  <2>4. 1 \in 1 .. run /\ \A r \in Ranks : success[<<marked, Parts>>][r] \in {0, 1}
    BY <2>2, <2>3
  <2> QED BY <2>1, <2>4 DEF OneRunComplete
<1> QED BY <1>1, TypeInvariant, OneRunCheckpoints, PTL

\* Until the root of the last checkpoint is written, one thread of r marks.
Single(r) ==
  \/ ~Last
  \/ saver[r].pc \notin {"dumping", "saved", "gone"}
  \/ saver[r].pc = "dumping" /\ saver[r].part # Parts

\* Whoever is about to rename latest_ckpt.rank<r> has written it.
OwnTmp(r) ==
  Single(r) => \A x \in Kinds : dump[<<r, x>>].pc = "rename" => tmp[r] \in {0, dump[<<r, x>>].task[1]}

\* Both threads of a rank have a task to dump at the end of training only.
LEMMA BothBusy ==
  ASSUME CheckpointerAssumption, TypeOK, NEW r \in Ranks, RankInv(r),
         D(r).pc # "idle", S(r).pc # "idle"
  PROVE  Last /\ saver[r].pc = "dumping"
BY DEF RankInv, Phases, Sync

\* A thread that writes latest_ckpt.rank<r> becomes its owner, and the other
\* thread is not about to rename it.
LEMMA OwnTmpMarks ==
  ASSUME CheckpointerAssumption, TypeOK, NEW r \in Ranks, RankInv(r), OwnTmp(r), NEW x \in Kinds,
         MarkWrite(<<r, x>>)
  PROVE  OwnTmp(r)'
<1>0. /\ dump[<<r, x>>].pc = "mark" /\ Goes(<<r, x>>, "rename") /\ tmp'[r] = dump[<<r, x>>].task[1]
      /\ saver' = saver /\ (Last <=> Last')
  BY DEF MarkWrite, At, TypeOK, jobVars, Last
<1>1. /\ dump'[<<r, x>>].task = dump[<<r, x>>].task
      /\ \A y \in Kinds : y # x => dump'[<<r, y>>] = dump[<<r, y>>]
  BY <1>0, GoesAt
<1>2. SUFFICES ASSUME NEW y \in Kinds, y # x, dump[<<r, y>>].pc = "rename",
                      Single(r)
               PROVE  FALSE
  BY <1>0, <1>1 DEF OwnTmp, Single
<1>3. D(r).pc \in {"mark", "rename"} /\ S(r).pc \in {"mark", "rename"}
  BY <1>0, <1>2 DEF D, S, Kinds
<1>4. Last /\ saver[r].pc = "dumping"
  BY <1>3, BothBusy
<1>5. S(r).task = <<iter, saver[r].part>> /\ S(r).task[2] = Parts
  BY <1>3 DEF RankInv, Phases, Written, S, Kinds
<1> QED BY <1>2, <1>4, <1>5 DEF Single

\* What keeps the name, or drops it, keeps its owner.
LEMMA OwnTmpStays ==
  ASSUME NEW r \in Ranks, OwnTmp(r), tmp'[r] \in {0, tmp[r]},
         \A x \in Kinds : dump'[<<r, x>>].pc # "rename" \/ dump'[<<r, x>>] = dump[<<r, x>>],
         Single(r)' => Single(r)
  PROVE  OwnTmp(r)'
BY DEF OwnTmp

\* Once they may be two, they stay so.
LEMMA SingleBefore ==
  ASSUME CheckpointerAssumption, TypeOK, Ranked, Next, ~Restart, NEW r \in Ranks, Single(r)'
  PROVE  Single(r)
<1>0. iter \in Int /\ RankInv(r) /\ TrainIters \in Int
  BY SaverTypes DEF Ranked, CheckpointerAssumption
<1>1. SUFFICES ASSUME Last, saver[r].pc \in {"dumping", "saved", "gone"},
                      saver[r].pc = "dumping" => saver[r].part = Parts
               PROVE  FALSE
  BY DEF Single
<1>2. ~(TrainIter \/ SaveBegin \/ NextIter \/ Barrier)
  BY <1>1 DEF TrainIter, SaveBegin, NextIter, Barrier, AllAt
<1>3. iter' = iter /\ (Last <=> Last')
  BY <1>2 DEF Next, Training, TrainerStep, Join, SubmitAsync, SubmitSync, SyncDone, Exit, DumperTake,
              DumperDies, DumpStep, DumpOpen, DumpWrite, DumpSuccess, DumpList, MarkWrite, MarkRename,
              MarkFail, Finished, vars, jobVars, Last
<1>4. saver'[r] = saver[r] \/ saver'[r].pc \in {"saved", "gone"}
  <2>1. saver' = saver \/ \E s \in Ranks : TrainerStep(s)
    BY <1>2 DEF Next, Training, DumperTake, DumperDies, DumpStep, DumpOpen, DumpWrite, DumpSuccess,
                DumpList, MarkWrite, MarkRename, MarkFail, Finished, vars
  <2>2. ASSUME NEW s \in Ranks, s # r, TrainerStep(s)
        PROVE  saver'[r] = saver[r]
    BY <2>2 DEF TrainerStep, Join, SubmitAsync, SubmitSync, SyncDone, Exit, TypeOK
  <2>3. ASSUME TrainerStep(r)
        PROVE  saver'[r].pc \in {"saved", "gone"}
    <3>1. Parts \in Int
      BY PartsType
    <3>2. SyncDone(r) \/ Exit(r)
      BY <1>1, <2>3 DEF TrainerStep, Join, SubmitAsync, SubmitSync
    <3> QED BY <1>1, <3>1, <3>2 DEF SyncDone, Exit, NextPart, TypeOK
  <2> QED BY <2>1, <2>2, <2>3
<1> QED BY <1>1, <1>3, <1>4 DEF Single

Owned == \A r \in Ranks : OwnTmp(r)

\* Every step of a job that is not restarted keeps the owners.
LEMMA StepOwn ==
  ASSUME CheckpointerAssumption, TypeOK, Ranked, Owned, Next, ~Restart
  PROVE  Owned'
<1>0. \A r \in Ranks : OwnTmp(r) /\ RankInv(r)
  BY DEF Owned, Ranked
<1>1. ASSUME NEW r \in Ranks, NEW x \in Kinds, MarkWrite(<<r, x>>)
      PROVE  Owned'
  <2>1. OwnTmp(r)'
    BY <1>0, <1>1, OwnTmpMarks
  <2>2. ASSUME NEW s \in Ranks, s # r
        PROVE  OwnTmp(s)'
    <3>1. Alone(r)
      BY <1>0, <1>1, DumpStepRank DEF DumpStep
    <3>2. tmp'[s] = tmp[s]
      BY <1>1, <2>2 DEF MarkWrite, TypeOK
    <3> QED BY <1>0, <2>2, <3>1, <3>2, SingleBefore, OwnTmpStays DEF Alone, Same
  <2> QED BY <2>1, <2>2 DEF Owned
<1>2. ASSUME ~\E r \in Ranks : \E x \in Kinds : MarkWrite(<<r, x>>), NEW s \in Ranks
      PROVE  OwnTmp(s)'
  <2>1. tmp'[s] \in {0, tmp[s]}
    <3>1. tmp' = tmp \/ \E r \in Ranks : tmp' = [tmp EXCEPT ![r] = 0]
      <4>1. CASE \E th \in Threads : DumpStep(th)
        <5>1. PICK r \in Ranks, x \in Kinds : DumpStep(<<r, x>>)
          BY <4>1, DirTypes
        <5>2. <<r, x>>[1] = r /\ ~MarkWrite(<<r, x>>)
          BY <1>2
        <5> QED BY <5>1, <5>2 DEF DumpStep, DumpOpen, DumpWrite, DumpSuccess, DumpList, MarkRename, MarkFail, diskVars
      <4>2. CASE ~\E th \in Threads : DumpStep(th)
        BY <4>2 DEF Next, Training, TrainIter, SaveBegin, NextIter, Barrier, TrainerStep, Join, SubmitAsync,
             SubmitSync, SyncDone, Exit, DumperTake, DumperDies, Finished, vars, diskVars
      <4> QED BY <4>1, <4>2
    <3> QED BY <3>1 DEF TypeOK
  <2>2. ASSUME NEW x \in Kinds
        PROVE  dump'[<<s, x>>].pc # "rename" \/ dump'[<<s, x>>] = dump[<<s, x>>]
    <3>1. \/ dump' = dump
          \/ \E r \in Ranks : \E y \in Kinds : \E v :
               dump' = [dump EXCEPT ![<<r, y>>] = v] /\ v.pc # "rename"
          \/ \E r \in Ranks : \E y \in Kinds : \E pc :
               Goes(<<r, y>>, pc) /\ pc # "rename"
      <4>1. CASE Training \/ Finished
        BY <4>1 DEF Training, TrainIter, SaveBegin, NextIter, Barrier, Finished, vars
      <4>2. CASE \E r \in Ranks : TrainerStep(r) \/ DumperTake(r) \/ DumperDies(r)
        <5>1. PICK r \in Ranks : TrainerStep(r) \/ DumperTake(r) \/ DumperDies(r)
          BY <4>2
        <5>2. "dumper" \in Kinds /\ "saver" \in Kinds /\ Idle.pc # "rename"
              /\ \A t : [pc |-> "open", task |-> t].pc # "rename"
          BY DEF Kinds, Idle
        <5>3. \/ dump' = dump \/ Goes(<<r, "dumper">>, "dead")
              \/ dump' = [dump EXCEPT ![<<r, "dumper">>] = Idle]
              \/ \E y \in Kinds : \E t : dump' = [dump EXCEPT ![<<r, y>>] = [pc |-> "open", task |-> t]]
          BY <5>1, <5>2 DEF TrainerStep, Join, SubmitAsync, SubmitSync, SyncDone, Exit, DumperTake, DumperDies
        <5>4. ASSUME NEW y \in Kinds, NEW t, dump' = [dump EXCEPT ![<<r, y>>] = [pc |-> "open", task |-> t]]
              PROVE  \E v : dump' = [dump EXCEPT ![<<r, y>>] = v] /\ v.pc # "rename"
          BY <5>2, <5>4
        <5>5. CASE Goes(<<r, "dumper">>, "dead")
          <6>1. "dead" # "rename"
            OBVIOUS
          <6> QED BY <5>2, <5>5, <6>1
        <5>6. CASE dump' = [dump EXCEPT ![<<r, "dumper">>] = Idle]
          BY <5>2, <5>6
        <5>7. CASE \E y \in Kinds : \E t : dump' = [dump EXCEPT ![<<r, y>>] = [pc |-> "open", task |-> t]]
          BY <5>4, <5>7
        <5> QED BY <5>3, <5>5, <5>6, <5>7
      <4>3. CASE \E th \in Threads : DumpStep(th)
        <5>1. PICK r \in Ranks, y \in Kinds : DumpStep(<<r, y>>)
          BY <4>3, DirTypes
        <5>2. Idle.pc # "rename" /\ ~MarkWrite(<<r, y>>)
          BY <1>2 DEF Idle
        <5>3. \/ dump' = [dump EXCEPT ![<<r, y>>] = Idle]
              \/ \E pc \in {"write", "success", "list", "mark"} : Goes(<<r, y>>, pc)
          BY <5>1, <5>2 DEF DumpStep, DumpOpen, DumpWrite, DumpSuccess, DumpList, MarkRename, MarkFail
        <5> QED BY <5>2, <5>3
      <4> QED BY <4>1, <4>2, <4>3 DEF Next
    <3>2. ASSUME NEW r \in Ranks, NEW y \in Kinds, NEW v, v.pc # "rename",
                 dump' = [dump EXCEPT ![<<r, y>>] = v]
          PROVE  dump'[<<s, x>>].pc # "rename" \/ dump'[<<s, x>>] = dump[<<s, x>>]
      BY <3>2, DumpAt
    <3>3. ASSUME NEW r \in Ranks, NEW y \in Kinds, NEW pc, pc # "rename", Goes(<<r, y>>, pc)
          PROVE  dump'[<<s, x>>].pc # "rename" \/ dump'[<<s, x>>] = dump[<<s, x>>]
      BY <3>3, GoesAt
    <3> QED BY <3>1, <3>2, <3>3
  <2> QED BY <1>0, <2>1, <2>2, SingleBefore, OwnTmpStays
<1> QED BY <1>1, <1>2 DEF Owned

\* A rename never points latest_ckpt at an older checkpoint, before the last
\* save begins to write.
LEMMA StepBack ==
  ASSUME CheckpointerAssumption, MaxCrashes = 0, TypeOK, Ranked, MarkInv, Owned, [Next]_vars
  PROVE  marked' >= marked \/ Ending
<1>0. marked \in Int /\ run = 1 /\ iter \in Int /\ marked >= 0
  BY SaverTypes, IterType DEF TypeOK
<1>1. CASE marked' = marked
  BY <1>0, <1>1
<1>2. CASE \E th \in Threads : MarkRename(th)
  <2>1. PICK r \in Ranks, x \in Kinds : MarkRename(<<r, x>>)
    BY <1>2, DirTypes
  <2>a. PICK t : t = dump[<<r, x>>].task
    OBVIOUS
  <2>2. dump[<<r, x>>].pc = "rename" /\ tmp[r] # 0 /\ marked' = tmp[r] /\ RankInv(r) /\ OwnTmp(r)
    BY <2>1 DEF MarkRename, At, Ranked, Owned
  <2>3. SUFFICES ASSUME ~Ending
                 PROVE  marked' >= marked
    OBVIOUS
  <2>4. Single(r)
    BY <2>3 DEF Ending, Single
  <2>5. marked' = t[1] /\ t[1] \in Int /\ t[1] >= 0
    <3>1. t[1] \in Iters
      BY <2>a, <2>2, TaskFacts
    <3> QED BY <2>a, <2>2, <2>4, <3>1 DEF OwnTmp, Iters
  <2>6. ASSUME marked # 0
        PROVE  t[1] >= marked
    <3>1. Root(r, marked) /\ marked \in Iters
      <4>1. <<marked, Parts>> \in Dirs /\ marked \in Iters
        BY <2>6, NamedIters, DirTypes, PartsType
      <4>2. success[<<marked, Parts>>][r] \in 0 .. 1 /\ success[<<marked, Parts>>][r] # 0
        BY <1>0, <2>6, <4>1 DEF TypeOK, MarkInv, Marked
      <4> QED BY <1>0, <4>1, <4>2 DEF Root
    <3>2. CASE x = "dumper"
      <4>1. marked <= t[1] \/ (Sync /\ marked = iter)
        BY <2>a, <2>2, <3>1, <3>2 DEF RankInv, Rooted, D
      <4>2. ASSUME Sync, marked = iter
            PROVE  FALSE
        <5>1. Last
          BY <2>2, <3>2, <4>2 DEF RankInv, Phases, D, Sync
        <5>2. \/ iter < Due(r)[1]
              \/ saver[r].pc = "dumping"
          BY <3>1, <4>2, <2>2 DEF RankInv, Rooted
        <5>3. saver[r].pc \in {"dumping", "saved", "gone"}
          BY <1>0, <5>2 DEF Due
        <5> QED BY <2>3, <5>1, <5>3 DEF Ending
      <4> QED BY <1>0, <2>5, <4>1, <4>2
    <3>3. CASE x = "saver"
      <4>1. t[1] = iter /\ saver[r].pc = "dumping"
        BY <2>a, <2>2, <3>3, TaskFacts
      <4>2. marked < Due(r)[1] \/ marked = iter
        BY <2>2, <3>1 DEF RankInv, Rooted
      <4> QED BY <1>0, <4>1, <4>2 DEF Due
    <3> QED BY <3>2, <3>3 DEF Kinds
  <2> QED BY <1>0, <2>5, <2>6
<1> QED BY <1>1, <1>2
    DEF Next, Training, TrainIter, SaveBegin, NextIter, Barrier, TrainerStep, Join, SubmitAsync,
        SubmitSync, SyncDone, Exit, DumperTake, DumperDies, DumpStep, DumpOpen, DumpWrite, DumpSuccess,
        DumpList, MarkWrite, MarkFail, Restart, Finished, vars, diskVars

\* No step of a job that is not restarted points latest_ckpt at an older
\* checkpoint, until the last save begins to write.
THEOREM LatestNeverBack ==
  CheckpointerAssumption /\ MaxCrashes = 0 /\ Spec => NeverBack
<1> SUFFICES ASSUME CheckpointerAssumption, MaxCrashes = 0 PROVE Spec => NeverBack
  OBVIOUS
<1> DEFINE Inv == TypeOK /\ Ranked /\ MarkInv /\ Owned
<1>1. Init => Inv
  <2>1. Init => Owned
    BY DEF Init, Owned, OwnTmp
  <2> QED BY <2>1, InitInv
<1>2. Inv /\ [Next]_vars => Inv'
  <2>1. TypeOK => ~Restart
    BY DEF TypeOK, Restart
  <2>2. Owned /\ UNCHANGED vars => Owned'
    BY DEF Owned, OwnTmp, Single, Last, vars, jobVars, diskVars
  <2> QED BY <2>1, <2>2, StepType, StepRank, StepMark, StepOwn
<1>3. Inv /\ [Next]_vars => [marked' >= marked \/ Ending]_vars
  BY StepBack
<1> QED BY <1>1, <1>2, <1>3, PTL DEF Spec, NeverBack

-----------------------------------------------------------------------------
(* How far behind the checkpoints are, when nothing fails.                 *)

Saves(q) == q % SaveInterval = 0 /\ q > start

\* A checkpoint before the one that is due was submitted: its root is written
\* or pending.
Submitted(r) ==
  saver[r].pc # "gone" =>
    \A q \in Iters : Saves(q) /\ q < Due(r)[1] => Root(r, q) \/ Pending(r, <<q, Parts>>)

\* The rank is done with a checkpoint.
Passed(r, q) == Root(r, q) /\ D(r).task # <<q, Parts>>

\* A save has begun when the one before it is over, but for the dump of one task.
Behind(r, q) == q + 2 * SaveInterval < iter \/ (~Joining(r) /\ q + SaveInterval < iter)

Lag(r) == \A q \in Iters : Saves(q) /\ Behind(r, q) => Passed(r, q)

\* latest_ckpt.rank<r> is there only while a thread is about to rename it.
Holder(r) ==
  tmp[r] # 0 => \/ S(r).pc = "rename" /\ tmp[r] = S(r).task[1]
                \/ D(r).pc = "rename" /\ tmp[r] = D(r).task[1]
                \/ saver[r].pc = "gone"

\* This thread is going to mark a checkpoint, unless the others mark it first.
Carries(r, x, q) ==
  dump[<<r, x>>].task = <<q, Parts>> /\ ~(dump[<<r, x>>].pc = "rename" /\ tmp[r] = 0)

\* All ranks have written the root of q, and the last save is not to blame.
Owed(q) ==
  Saves(q) /\ (\A r \in Ranks : Root(r, q)) /\ (Last => q + SaveInterval < iter)

\* What all ranks have written is marked, or somebody is about to.
Landed ==
  \A q \in Iters : Owed(q) => marked >= q \/ \E r \in Ranks : \E x \in Kinds : Carries(r, x, q)

\* Multiples of an interval are an interval apart.
LEMMA ModStep ==
  ASSUME NEW s \in Nat \ {0}, NEW q \in Nat, q % s = 0
  PROVE  (q + s) % s = 0 /\ (q + 2 * s) % s = 0
<1>1. q = s * (q \div s)
  OBVIOUS
<1>2. PICK k \in Int : q = s * k
  BY <1>1
<1>3. \A a \in Int : (s * a) % s = 0
  OBVIOUS
<1>4. PICK a \in Int : a = k + 1
  OBVIOUS
<1>5. PICK b \in Int : b = k + 2
  OBVIOUS
<1>6. q + s = s * a
  BY <1>2, <1>4
<1>7. q + 2 * s = s * b
  BY <1>2, <1>5
<1> QED BY <1>3, <1>6, <1>7

\* The root of a pending task is still to be written, or its dump nearly over.
LEMMA PendingRoot ==
  ASSUME CheckpointerAssumption, TypeOK, NEW r \in Ranks, RankInv(r), NEW q \in Iters,
         D(r).task = <<q, Parts>>, D(r).pc \in {"list", "mark", "rename"}
  PROVE  Root(r, q)
BY DEF RankInv, Written, D, Kinds, Root

\* What else a step has to see to, for what is due and what is behind.
Onward(r) ==
  /\ start' = start /\ run' = run /\ tasks'[r] = tasks[r]
  /\ \/ D(r)'.task = D(r).task
     \/ D(r)'.task = NoTask /\ D(r).pc \in {"list", "rename"}
  /\ \A q \in Iters : Root(r, q) => Root(r, q)'
  /\ \A q \in Iters : Saves(q) /\ saver'[r].pc # "gone" /\ q < Due(r)'[1] =>
       saver[r].pc # "gone" /\ (q < Due(r)[1] \/ Root(r, q))
  /\ \A q \in Iters : Saves(q) /\ Behind(r, q)' => Passed(r, q)

\* A step that is onward keeps what was submitted, and the lag.
LEMMA OnwardRank ==
  ASSUME CheckpointerAssumption, TypeOK, NEW r \in Ranks, RankInv(r), Submitted(r), Lag(r), Onward(r)
  PROVE  Submitted(r)' /\ Lag(r)'
<1>1. \A q : Saves(q)' <=> Saves(q)
  BY DEF Saves, Onward
<1>2. ASSUME NEW q \in Iters, Pending(r, <<q, Parts>>)
      PROVE  Pending(r, <<q, Parts>>)' \/ Root(r, q)'
  <2>1. CASE D(r)'.task = D(r).task
    BY <1>2, <2>1 DEF Pending, Onward
  <2>2. CASE D(r)'.task = NoTask /\ D(r).pc \in {"list", "rename"} /\ D(r).task = <<q, Parts>>
    <3>1. Root(r, q)
      BY <2>2, PendingRoot
    <3> QED BY <3>1 DEF Onward
  <2>3. CASE D(r).task # <<q, Parts>>
    BY <1>2, <2>3 DEF Pending, Onward
  <2> QED BY <2>1, <2>2, <2>3 DEF Onward
<1>3. Submitted(r)'
  <2>1. SUFFICES ASSUME NEW q \in Iters, Saves(q), saver'[r].pc # "gone", q < Due(r)'[1]
                 PROVE  Root(r, q)' \/ Pending(r, <<q, Parts>>)'
    BY <1>1 DEF Submitted
  <2>2. saver[r].pc # "gone" /\ (q < Due(r)[1] \/ Root(r, q))
    BY <2>1 DEF Onward
  <2>3. Root(r, q) \/ Pending(r, <<q, Parts>>)
    BY <2>1, <2>2 DEF Submitted
  <2> QED BY <1>2, <2>3 DEF Onward
<1>4. Lag(r)'
  <2>1. SUFFICES ASSUME NEW q \in Iters, Saves(q), Behind(r, q)'
                 PROVE  Passed(r, q)'
    BY <1>1 DEF Lag
  <2>2. Root(r, q) /\ D(r).task # <<q, Parts>>
    BY <2>1 DEF Onward, Passed
  <2>3. <<q, Parts>> # NoTask
    BY DirTypes, PartsType
  <2> QED BY <2>2, <2>3 DEF Onward, Passed
<1> QED BY <1>3, <1>4

\* The steps of the trainers in lock step.
LEMMA TrainingLag ==
  ASSUME CheckpointerAssumption, TypeOK, Ranked, NEW r \in Ranks, Submitted(r), Lag(r), Training
  PROVE  Submitted(r)' /\ Lag(r)'
<1>0. /\ iter \in Int /\ start \in Int /\ start >= 0 /\ SaveInterval \in Nat \ {0} /\ RankInv(r)
      /\ saver[r].pc \in SaverPcs
  BY SaverTypes DEF TypeOK, Ranked, CheckpointerAssumption
<1>1. /\ start' = start /\ run' = run /\ tasks' = tasks /\ dump' = dump /\ success' = success
  BY DEF Training, TrainIter, SaveBegin, NextIter, Barrier, jobVars, diskVars
<1>2. D(r)'.task = D(r).task /\ \A q : Root(r, q)' <=> Root(r, q)
  BY <1>1 DEF D, Root
<1>3. /\ TrainIter => saver[r].pc = "train" /\ saver'[r].pc = "train" /\ iter' = iter + 1
      /\ SaveBegin => saver[r].pc = "train" /\ saver'[r].pc = "join" /\ iter' = iter
      /\ NextIter => saver[r].pc = "saved" /\ saver'[r].pc = "train" /\ iter' = iter + 1
      /\ Barrier => saver[r].pc = "arrive" /\ saver'[r].pc = "submit" /\ iter' = iter
  <2>1. saver[r] \in [pc : SaverPcs, part : 1 .. Parts]
    BY DEF TypeOK
  <2>2. [saver[r] EXCEPT !.pc = "submit"].pc = "submit"
    BY <2>1
  <2>3. TrainIter => saver[r].pc = "train" /\ saver'[r].pc = "train" /\ iter' = iter + 1
    BY DEF TrainIter, AllAt
  <2>4. SaveBegin => saver[r].pc = "train" /\ saver'[r].pc = "join" /\ iter' = iter
    BY DEF SaveBegin, AllAt, jobVars
  <2>5. NextIter => saver[r].pc = "saved" /\ saver'[r].pc = "train" /\ iter' = iter + 1
    BY DEF NextIter, AllAt
  <2>6. Barrier => saver[r].pc = "arrive" /\ saver'[r].pc = "submit" /\ iter' = iter
    BY <2>2 DEF Barrier, AllAt, jobVars
  <2> QED BY <2>3, <2>4, <2>5, <2>6
<1>4. \A q \in Iters : q \in Nat
  BY DEF Iters
<1>5. ASSUME NEW q \in Iters, Saves(q), q < Due(r)'[1]
      PROVE  saver[r].pc # "gone" /\ q < Due(r)[1]
  <2>1. CASE TrainIter
    <3>1. q < iter + 1 /\ ~SaveDue
      BY <1>3, <1>5, <2>1 DEF Due, TrainIter
    <3>2. q # iter
      BY <1>5, <3>1 DEF SaveDue, Saves
    <3> QED BY <1>0, <1>3, <1>4, <2>1, <3>1, <3>2 DEF Due
  <2>2. CASE ~TrainIter
    BY <1>0, <1>3, <1>5, <2>2 DEF Training, Due
  <2> QED BY <2>1, <2>2
<1>6. ASSUME NEW q \in Iters, Saves(q), Behind(r, q)'
      PROVE  Behind(r, q)
  <2>1. CASE TrainIter
    <3>1. q + 2 * SaveInterval < iter + 1 /\ ~SaveDue
      BY <1>0, <1>3, <1>6, <2>1 DEF Behind, Joining, TrainIter
    <3>2. q + 2 * SaveInterval # iter
      <4>1. (q + 2 * SaveInterval) % SaveInterval = 0
        BY <1>0, <1>4, <1>6, ModStep DEF Saves
      <4>2. q + 2 * SaveInterval > start
        BY <1>0, <1>4, <1>6 DEF Saves
      <4> QED BY <3>1, <4>1, <4>2 DEF SaveDue
    <3> QED BY <1>0, <1>4, <3>1, <3>2 DEF Behind
  <2>2. CASE SaveBegin \/ Barrier
    BY <1>3, <1>6, <2>2 DEF Behind, Joining
  <2>3. CASE NextIter
    BY <1>0, <1>3, <1>4, <1>6, <2>3 DEF Behind, Joining
  <2> QED BY <2>1, <2>2, <2>3 DEF Training
<1>7. Onward(r)
  BY <1>1, <1>2, <1>5, <1>6 DEF Onward, Lag
<1> QED BY <1>0, <1>7, OnwardRank

\* A rank joins when its queue is empty, so that all but the last task it
\* submitted are dumped.
LEMMA JoinLag ==
  ASSUME CheckpointerAssumption, TypeOK, NEW r \in Ranks, RankInv(r), Submitted(r), Lag(r), Join(r)
  PROVE  Submitted(r)' /\ Lag(r)'
<1>0. /\ iter \in Int /\ start \in Int /\ start >= 0 /\ SaveInterval \in Nat \ {0}
  BY SaverTypes DEF TypeOK, CheckpointerAssumption
<1>1. /\ start' = start /\ run' = run /\ iter' = iter /\ tasks' = tasks /\ dump' = dump /\ success' = success
      /\ tasks[r] = <<>> /\ saver[r].pc = "join" /\ saver'[r].pc = "arrive"
      /\ saver'[r].part = saver[r].part
  BY DEF Join, Joined, jobVars, diskVars, TypeOK
<1>2. D(r)'.task = D(r).task /\ \A q : Root(r, q)' <=> Root(r, q)
  BY <1>1 DEF D, Root
<1>3. Due(r)' = Due(r) /\ Due(r)[1] = iter
  BY <1>1 DEF Due
<1>4. ASSUME NEW q \in Iters, Saves(q), q < iter
      PROVE  Root(r, q) \/ D(r).task = <<q, Parts>>
  BY <1>1, <1>3, <1>4 DEF Submitted, Pending
<1>5. ASSUME NEW q \in Iters, Saves(q), Behind(r, q)'
      PROVE  Passed(r, q)
  <2>a. q \in Nat
    BY DEF Iters
  <2>1. q + SaveInterval < iter
    BY <1>0, <1>1, <1>5, <2>a DEF Behind, Joining
  <2>2. PICK p : p = q + SaveInterval
    OBVIOUS
  <2>3. p \in Iters /\ Saves(p) /\ p < iter /\ q < p
    <3>1. p \in Int /\ p > start /\ q < p /\ p < iter /\ 1 <= p
      BY <1>0, <1>5, <2>a, <2>1, <2>2 DEF Saves, Iters
    <3>2. p % SaveInterval = 0
      BY <1>0, <1>5, <2>a, <2>2, ModStep DEF Saves
    <3>3. p \in Iters
      <4>1. iter \in Iters
        BY <1>0, <3>1, IterType
      <4>2. TrainIters \in Int /\ MaxCrashes \in Int
        BY DEF CheckpointerAssumption
      <4> QED BY <3>1, <4>1, <4>2 DEF Iters
    <3> QED BY <3>1, <3>2, <3>3 DEF Saves
  <2>4. ASSUME D(r).task = <<q, Parts>>
        PROVE  FALSE
    <3>0. <<p, Parts>> # <<q, Parts>>
      BY <2>a, <2>3 DEF Iters
    <3>1. Root(r, p)
      BY <1>4, <2>3, <2>4, <3>0
    <3>2. D(r).pc # "idle"
      <4>1. <<q, Parts>> # NoTask
        BY DirTypes, PartsType
      <4> QED BY <2>4, <4>1, KindFacts DEF RankInv
    <3>3. p <= D(r).task[1] \/ p = iter
      BY <2>3, <3>1, <3>2 DEF RankInv, Rooted
    <3>4. p \in Int
      BY <2>3 DEF Iters
    <3> QED BY <2>3, <2>4, <2>a, <3>3, <3>4, <1>0
  <2>5. q < iter
    BY <1>0, <2>a, <2>1
  <2> QED BY <1>4, <1>5, <2>4, <2>5 DEF Passed
<1>6. Onward(r)
  BY <1>1, <1>2, <1>3, <1>5 DEF Onward
<1> QED BY <1>6, OnwardRank

\* The other steps of a rank's trainer thread.
LEMMA OwnLag ==
  ASSUME CheckpointerAssumption, TypeOK, NEW r \in Ranks, RankInv(r), Submitted(r), Lag(r),
         SubmitAsync(r) \/ SubmitSync(r) \/ SyncDone(r) \/ Exit(r) \/ DumperTake(r)
  PROVE  Submitted(r)' /\ Lag(r)'
<1>0. /\ iter \in Int /\ start \in Int /\ Parts \in Nat /\ saver[r].part \in 1 .. Parts
      /\ saver[r] \in [pc : SaverPcs, part : 1 .. Parts] /\ Len(tasks[r]) \in Nat
  BY SaverTypes, PartsType DEF TypeOK
<1>1. /\ start' = start /\ run' = run /\ iter' = iter /\ success' = success /\ (Last <=> Last')
  BY DEF SubmitAsync, SubmitSync, SyncDone, Exit, DumperTake, jobVars, diskVars, Last
<1>2. (\A q : Root(r, q)' <=> Root(r, q)) /\ (\A q : Saves(q)' <=> Saves(q))
  BY <1>1 DEF Root, Saves
<1>3. "dumper" \in Kinds /\ "saver" \in Kinds
  BY DEF Kinds
<1>4. CASE SubmitSync(r) \/ SyncDone(r)
  <2>1. tasks' = tasks /\ D(r)' = D(r)
    <3>1. CASE SubmitSync(r)
      BY <1>3, <3>1, DumpAt DEF SubmitSync, D
    <3>2. CASE SyncDone(r)
      BY <3>2 DEF SyncDone, D
    <3> QED BY <1>4, <3>1, <3>2 DEF SubmitSync, SyncDone
  <2>2. saver[r].pc \in {"submit", "dumping"} /\ saver'[r].pc \in {"dumping", "arrive", "saved"}
    BY <1>4 DEF SubmitSync, SyncDone, NextPart, TypeOK
  <2>3. ASSUME NEW q \in Iters, q < Due(r)'[1]
        PROVE  q < Due(r)[1] \/ Root(r, q)
    <3>1. q < iter \/ (q = iter /\ saver'[r].pc = "saved")
      BY <1>0, <1>1, <2>2, <2>3 DEF Due, Iters
    <3>2. ASSUME saver'[r].pc = "saved"
          PROVE  Root(r, iter)
      <4>1. SyncDone(r) /\ saver[r].pc = "dumping" /\ S(r).pc = "idle" /\ saver[r].part = Parts
        BY <1>0, <1>4, <3>2 DEF SubmitSync, SyncDone, NextPart, TypeOK, S, Idle
      <4> QED BY <4>1 DEF RankInv, Phases, Root
    <3> QED BY <2>2, <3>1, <3>2 DEF Due
  <2>4. \A q : Behind(r, q)' => Behind(r, q)
    BY <1>1, <2>2 DEF Behind, Joining
  <2>5. Onward(r)
    BY <1>1, <1>2, <2>1, <2>2, <2>3, <2>4 DEF Onward, Lag
  <2> QED BY <2>5, OnwardRank
<1>5. ASSUME D(r)' = D(r) \/ D(r)' = Idle \/ DumperTake(r), Joining(r)' <=> Joining(r)
      PROVE  Lag(r)'
  <2>1. SUFFICES ASSUME NEW q \in Iters, Saves(q), Behind(r, q)'
                 PROVE  Passed(r, q)'
    BY <1>2 DEF Lag
  <2>2. Behind(r, q)
    BY <1>1, <1>5, <2>1 DEF Behind
  <2>3. Root(r, q) /\ D(r).task # <<q, Parts>>
    BY <2>1, <2>2 DEF Lag, Passed
  <2>4. CASE D(r)' = D(r) \/ D(r)' = Idle
    <3>1. <<q, Parts>> # NoTask
      BY DirTypes, PartsType
    <3> QED BY <1>2, <2>3, <2>4, <3>1 DEF Passed, Idle
  <2>5. CASE DumperTake(r)
    <3>1. D(r)'.task = Head(tasks[r]) /\ Len(tasks[r]) >= 1 /\ Head(tasks[r]) = tasks[r][1]
      <4>1. dump'[<<r, "dumper">>] = [pc |-> "open", task |-> Head(tasks[r])]
        BY <1>3, <2>5, DirTypes DEF DumperTake, TakeTask, TypeOK
      <4>2. tasks[r] # <<>> /\ tasks[r] \in Seq(Dirs)
        BY <2>5 DEF DumperTake, TypeOK
      <4> QED BY <4>1, <4>2 DEF D
    <3>2. q < tasks[r][1][1]
      BY <1>0, <2>3, <3>1 DEF RankInv, Rooted
    <3>3. q \in Int
      BY DEF Iters
    <3>4. Head(tasks[r]) # <<q, Parts>>
      BY <3>1, <3>2, <3>3
    <3> QED BY <1>2, <2>3, <3>1, <3>4 DEF Passed
  <2> QED BY <1>5, <2>4, <2>5
<1>6. CASE Exit(r)
  <2>1. saver'[r].pc = "gone" /\ saver[r].pc = "saved" /\ D(r)' = Idle
    BY <1>3, <1>6, DirTypes DEF Exit, TypeOK, D
  <2>2. Lag(r)'
    BY <1>5, <2>1 DEF Joining
  <2> QED BY <2>1, <2>2 DEF Submitted
<1>7. CASE SubmitAsync(r)
  <2>1. /\ tasks'[r] = Append(tasks[r], <<iter, saver[r].part>>) /\ D(r)' = D(r)
        /\ saver[r].pc = "submit" /\ saver'[r] = NextPart(r)
    BY <1>7 DEF SubmitAsync, TypeOK, D, Task
  <2>2. saver'[r].pc \in {"arrive", "saved"} /\ (saver'[r].pc = "saved" => saver[r].part = Parts)
    BY <1>0, <2>1 DEF NextPart
  <2>3. Lag(r)'
    BY <1>5, <2>1, <2>2 DEF Joining
  <2>a. PICK u : u = <<iter, saver[r].part>>
    OBVIOUS
  <2>4. /\ \A t : Pending(r, t) => Pending(r, t)'
        /\ Pending(r, u)'
    <3>1. /\ Len(tasks'[r]) = Len(tasks[r]) + 1
          /\ \A i \in 1 .. Len(tasks[r]) : tasks'[r][i] = tasks[r][i]
          /\ tasks'[r][Len(tasks[r]) + 1] = <<iter, saver[r].part>>
      <4>1. tasks[r] \in Seq(Dirs)
        BY DEF TypeOK
      <4> QED BY <2>1, <4>1, AppendProperties
    <3>2. \A i \in 1 .. Len(tasks[r]) : i \in 1 .. Len(tasks'[r])
      BY <1>0, <3>1
    <3>3. Len(tasks[r]) + 1 \in 1 .. Len(tasks'[r])
      BY <1>0, <3>1
    <3>4. Pending(r, u)'
      BY <2>a, <3>1, <3>3 DEF Pending
    <3>5. ASSUME NEW t, Pending(r, t)
          PROVE  Pending(r, t)'
      BY <2>1, <3>1, <3>2, <3>5 DEF Pending
    <3> QED BY <3>4, <3>5
  <2>5. ASSUME NEW q \in Iters, Saves(q), q < Due(r)'[1]
        PROVE  Root(r, q)' \/ Pending(r, <<q, Parts>>)'
    <3>1. q < iter \/ (q = iter /\ saver'[r].pc = "saved")
      BY <1>0, <1>1, <2>2, <2>5 DEF Due, Iters
    <3>2. CASE q < iter
      <4>1. Root(r, q) \/ Pending(r, <<q, Parts>>)
        BY <2>1, <2>5, <3>2 DEF Submitted, Due
      <4> QED BY <1>2, <2>4, <4>1
    <3>3. CASE q = iter /\ saver'[r].pc = "saved"
      BY <2>a, <2>2, <2>4, <3>3
    <3> QED BY <3>1, <3>2, <3>3
  <2> QED BY <1>2, <2>3, <2>5 DEF Submitted
<1>8. CASE DumperTake(r)
  <2>1. /\ D(r).task = NoTask /\ tasks[r] # <<>> /\ tasks[r] \in Seq(Dirs) /\ saver' = saver
        /\ D(r)'.task = Head(tasks[r]) /\ tasks'[r] = Tail(tasks[r])
    <3>1. dump'[<<r, "dumper">>] = [pc |-> "open", task |-> Head(tasks[r])]
      BY <1>3, <1>8, DirTypes DEF DumperTake, TakeTask, TypeOK
    <3> QED BY <1>8, <3>1 DEF DumperTake, TakeTask, TypeOK, D, Idle
  <2>2. Lag(r)'
    BY <1>5, <1>8, <2>1 DEF Joining
  <2>3. ASSUME NEW q \in Iters, Pending(r, <<q, Parts>>)
        PROVE  Pending(r, <<q, Parts>>)'
    <3>1. <<q, Parts>> # NoTask
      BY DirTypes, PartsType
    <3>2. PICK i \in 1 .. Len(tasks[r]) : tasks[r][i] = <<q, Parts>>
      BY <2>1, <2>3, <3>1 DEF Pending
    <3>3. CASE i = 1
      BY <2>1, <3>2, <3>3 DEF Pending
    <3>4. CASE i # 1
      <4>1. i - 1 \in 1 .. Len(Tail(tasks[r])) /\ Tail(tasks[r])[i - 1] = tasks[r][i]
        BY <2>1, <3>2, <3>4
      <4> QED BY <2>1, <3>2, <4>1 DEF Pending
    <3> QED BY <3>3, <3>4
  <2>4. Due(r)' = Due(r)
    BY <1>1, <2>1 DEF Due
  <2> QED BY <1>2, <2>1, <2>2, <2>3, <2>4 DEF Submitted
<1> QED BY <1>4, <1>6, <1>7, <1>8

\* What a stage of a dump changes of the threads.
LEMMA DumpMoves ==
  ASSUME TypeOK, NEW r \in Ranks, NEW x \in Kinds, DumpStep(<<r, x>>)
  PROVE  /\ iter' = iter /\ start' = start /\ run' = run /\ saver' = saver /\ tasks' = tasks
         /\ \A s \in Ranks : \A y \in Kinds : s # r \/ y # x => dump'[<<s, y>>] = dump[<<s, y>>]
         /\ dump[<<r, x>>].pc # "idle"
         /\ \/ dump'[<<r, x>>] = Idle /\ dump[<<r, x>>].pc \in {"list", "rename"}
            \/ /\ dump'[<<r, x>>].task = dump[<<r, x>>].task
               /\ dump'[<<r, x>>].pc # "rename" \/ MarkWrite(<<r, x>>)
               /\ dump[<<r, x>>].pc # "rename"
<1>1. iter' = iter /\ start' = start /\ run' = run /\ saver' = saver /\ tasks' = tasks
  BY DEF DumpStep, DumpOpen, DumpWrite, DumpSuccess, DumpList, MarkWrite, MarkRename, MarkFail, jobVars
<1>2. \/ dump' = [dump EXCEPT ![<<r, x>>] = Idle] /\ dump[<<r, x>>].pc \in {"list", "rename"}
      \/ \E pc \in {"write", "success", "list", "mark", "rename"} :
           /\ Goes(<<r, x>>, pc) /\ dump[<<r, x>>].pc \in {"open", "write", "success", "list", "mark"}
           /\ pc # "rename" \/ MarkWrite(<<r, x>>)
  BY DEF DumpStep, DumpOpen, DumpWrite, DumpSuccess, DumpList, MarkWrite, MarkRename, MarkFail, At
<1>3. CASE dump' = [dump EXCEPT ![<<r, x>>] = Idle] /\ dump[<<r, x>>].pc \in {"list", "rename"}
  <2>1. /\ dump'[<<r, x>>] = Idle
        /\ \A s \in Ranks : \A y \in Kinds : s # r \/ y # x => dump'[<<s, y>>] = dump[<<s, y>>]
    BY <1>3, DumpAt
  <2> QED BY <1>1, <1>3, <2>1
<1>4. ASSUME NEW pc \in {"write", "success", "list", "mark", "rename"}, Goes(<<r, x>>, pc),
             dump[<<r, x>>].pc \in {"open", "write", "success", "list", "mark"},
             pc # "rename" \/ MarkWrite(<<r, x>>)
      PROVE  /\ \A s \in Ranks : \A y \in Kinds : s # r \/ y # x => dump'[<<s, y>>] = dump[<<s, y>>]
             /\ dump[<<r, x>>].pc # "idle"
             /\ dump'[<<r, x>>].task = dump[<<r, x>>].task
             /\ dump'[<<r, x>>].pc # "rename" \/ MarkWrite(<<r, x>>)
             /\ dump[<<r, x>>].pc # "rename"
  <2>1. /\ dump'[<<r, x>>].pc = pc /\ dump'[<<r, x>>].task = dump[<<r, x>>].task
        /\ \A s \in Ranks : \A y \in Kinds : s # r \/ y # x => dump'[<<s, y>>] = dump[<<s, y>>]
    BY <1>4, GoesAt
  <2> QED BY <1>4, <2>1
<1> QED BY <1>1, <1>2, <1>3, <1>4

\* Everything of one rank that the lag is about.
CalmRank(r) == Submitted(r) /\ Lag(r) /\ Holder(r)

\* A stage of a dump takes no checkpoint back.
LEMMA DumpLag ==
  ASSUME CheckpointerAssumption, TypeOK, Ranked, ~MayFail, NEW r \in Ranks, NEW x \in Kinds,
         DumpStep(<<r, x>>), [Next]_vars, CalmRank(r)
  PROVE  CalmRank(r)'
<1>0. RankInv(r) /\ "dumper" \in Kinds /\ "saver" \in Kinds /\ <<r, x>>[1] = r
  BY DEF Ranked, Kinds
<1>1. /\ iter' = iter /\ start' = start /\ run' = run /\ saver' = saver /\ tasks' = tasks
      /\ \A y \in Kinds : y # x => dump'[<<r, y>>] = dump[<<r, y>>]
      /\ \/ dump'[<<r, x>>] = Idle /\ dump[<<r, x>>].pc \in {"list", "rename"}
         \/ /\ dump'[<<r, x>>].task = dump[<<r, x>>].task
            /\ dump[<<r, x>>].pc # "rename"
  BY DumpMoves
<1>2. Onward(r)
  <2>1. \A q \in Iters : Root(r, q) => Root(r, q)'
    BY <1>1, MarkedStays
  <2>2. D(r)'.task = D(r).task \/ (D(r)'.task = NoTask /\ D(r).pc \in {"list", "rename"})
    BY <1>0, <1>1 DEF D, Idle, Kinds
  <2>3. Due(r)' = Due(r) /\ \A q : Behind(r, q)' <=> Behind(r, q)
    BY <1>1 DEF Due, Behind, Joining
  <2> QED BY <1>1, <2>1, <2>2, <2>3 DEF Onward, Lag, CalmRank
<1>3. Holder(r)'
  <2>1. CASE MarkWrite(<<r, x>>)
    <3>1. tmp'[r] = dump[<<r, x>>].task[1] /\ Goes(<<r, x>>, "rename")
      BY <1>0, <2>1 DEF MarkWrite, TypeOK
    <3>2. dump'[<<r, x>>].pc = "rename" /\ dump'[<<r, x>>].task = dump[<<r, x>>].task
      BY <3>1, GoesAt
    <3> QED BY <3>1, <3>2 DEF Holder, S, D, Kinds
  <2>2. CASE MarkRename(<<r, x>>) \/ MarkFail(<<r, x>>)
    <3>1. tmp'[r] = 0
      BY <1>0, <2>2 DEF MarkRename, MarkFail, TypeOK, diskVars
    <3> QED BY <3>1 DEF Holder
  <2>3. CASE DumpOpen(<<r, x>>) \/ DumpWrite(<<r, x>>) \/ DumpSuccess(<<r, x>>) \/ DumpList(<<r, x>>)
    <3>1. tmp' = tmp /\ dump[<<r, x>>].pc # "rename"
      BY <2>3 DEF DumpOpen, DumpWrite, DumpSuccess, DumpList, At, diskVars
    <3> QED BY <1>0, <1>1, <3>1 DEF Holder, S, D, CalmRank
  <2> QED BY <2>1, <2>2, <2>3 DEF DumpStep
<1> QED BY <1>0, <1>2, <1>3, OnwardRank DEF CalmRank

\* The steps that are not a dump's.
LEMMA OwnHolder ==
  ASSUME CheckpointerAssumption, TypeOK, NEW r \in Ranks, RankInv(r), Holder(r),
         TrainerStep(r) \/ DumperTake(r)
  PROVE  Holder(r)'
<1>0. "dumper" \in Kinds /\ "saver" \in Kinds
  BY DEF Kinds
<1>1. tmp' = tmp
  BY DEF TrainerStep, Join, SubmitAsync, SubmitSync, SyncDone, Exit, DumperTake, diskVars
<1>2. CASE Exit(r)
  BY <1>2 DEF Exit, Holder, TypeOK
<1>3. CASE ~Exit(r)
  <2>1. saver[r].pc = "gone" => saver' = saver
    BY <1>3 DEF TrainerStep, Join, SubmitAsync, SubmitSync, SyncDone, DumperTake
  <2>2. S(r).pc = "rename" => S(r)' = S(r)
    <3>1. CASE SubmitSync(r)
      BY <3>1 DEF SubmitSync, RankInv, Phases
    <3>2. CASE DumperTake(r)
      BY <1>0, <3>2, DumpAt DEF DumperTake, S
    <3>3. CASE ~SubmitSync(r) /\ ~DumperTake(r)
      BY <1>3, <3>3 DEF TrainerStep, Join, SubmitAsync, SyncDone, S
    <3> QED BY <3>1, <3>2, <3>3
  <2>3. D(r).pc = "rename" => D(r)' = D(r)
    <3>1. CASE SubmitSync(r)
      BY <1>0, <3>1, DumpAt DEF SubmitSync, D
    <3>2. CASE DumperTake(r)
      BY <3>2 DEF DumperTake, D, Idle
    <3>3. CASE ~SubmitSync(r) /\ ~DumperTake(r)
      BY <1>3, <3>3 DEF TrainerStep, Join, SubmitAsync, SyncDone, D
    <3> QED BY <3>1, <3>2, <3>3
  <2> QED BY <1>1, <2>1, <2>2, <2>3 DEF Holder
<1> QED BY <1>2, <1>3

\* A step of another rank changes nothing of the lag of this one.
LEMMA SameCalm ==
  ASSUME CheckpointerAssumption, TypeOK, NEW r \in Ranks, RankInv(r), CalmRank(r), Same(r), tmp'[r] = tmp[r]
  PROVE  CalmRank(r)'
<1>1. /\ D(r)' = D(r) /\ S(r)' = S(r) /\ saver'[r] = saver[r] /\ tasks'[r] = tasks[r]
      /\ iter' = iter /\ start' = start /\ run' = run
  BY DEF Same, D, S, Kinds
<1>2. \A q \in Iters : Root(r, q)' <=> Root(r, q)
  BY DirTypes, PartsType DEF Same, Root
<1>3. Due(r)' = Due(r) /\ \A q : Behind(r, q)' <=> Behind(r, q)
  BY <1>1 DEF Due, Behind, Joining
<1>4. Onward(r)
  BY <1>1, <1>2, <1>3 DEF Onward, Lag, CalmRank
<1>5. Holder(r)'
  BY <1>1 DEF Holder, CalmRank
<1> QED BY <1>4, <1>5, OnwardRank DEF CalmRank

Calm == \A r \in Ranks : CalmRank(r)

\* Every step keeps the lag of every rank, when nothing fails.
LEMMA StepCalm ==
  ASSUME CheckpointerAssumption, ~MayFail, TypeOK, Ranked, Calm, [Next]_vars, ~Restart
  PROVE  Calm'
<1>0. \A r \in Ranks : RankInv(r) /\ CalmRank(r)
  BY DEF Ranked, Calm
<1>1. ASSUME NEW r \in Ranks, CalmRank(r)', Alone(r), \A s \in Ranks : s # r => tmp'[s] = tmp[s]
      PROVE  Calm'
  <2>1. ASSUME NEW s \in Ranks, s # r
        PROVE  CalmRank(s)'
    BY <1>0, <1>1, <2>1, SameCalm DEF Alone
  <2> QED BY <1>1, <2>1 DEF Calm
<1>2. CASE Training
  <2>1. ASSUME NEW r \in Ranks
        PROVE  CalmRank(r)'
    <3>1. Submitted(r)' /\ Lag(r)'
      BY <1>0, <1>2, TrainingLag DEF CalmRank
    <3>2. /\ tmp' = tmp /\ dump' = dump
          /\ saver[r].pc = "gone" => saver'[r] = saver[r]
      BY <1>2 DEF Training, TrainIter, SaveBegin, NextIter, Barrier, AllAt, diskVars
    <3>3. Holder(r)'
      BY <1>0, <3>2 DEF Holder, D, S, CalmRank
    <3> QED BY <3>1, <3>3 DEF CalmRank
  <2> QED BY <2>1 DEF Calm
<1>3. CASE \E r \in Ranks : TrainerStep(r) \/ DumperTake(r) \/ DumperDies(r)
  <2>1. PICK r \in Ranks : TrainerStep(r) \/ DumperTake(r)
    BY <1>3 DEF DumperDies
  <2>2. Alone(r)
    BY <1>0, <2>1, OwnRank
  <2>3. tmp' = tmp
    BY <2>1 DEF TrainerStep, Join, SubmitAsync, SubmitSync, SyncDone, Exit, DumperTake, diskVars
  <2>4. Submitted(r)' /\ Lag(r)'
    BY <1>0, <2>1, JoinLag, OwnLag DEF TrainerStep, CalmRank
  <2>5. Holder(r)'
    BY <1>0, <2>1, OwnHolder DEF CalmRank
  <2> QED BY <1>1, <2>2, <2>3, <2>4, <2>5 DEF CalmRank
<1>4. CASE \E th \in Threads : DumpStep(th)
  <2>1. PICK r \in Ranks, x \in Kinds : DumpStep(<<r, x>>)
    BY <1>4, DirTypes
  <2>2. Alone(r)
    BY <1>0, <2>1, DumpStepRank
  <2>3. CalmRank(r)'
    BY <1>0, <2>1, DumpLag
  <2>4. <<r, x>>[1] = r
    OBVIOUS
  <2>5. \A s \in Ranks : s # r => tmp'[s] = tmp[s]
    BY <2>1, <2>4 DEF DumpStep, DumpOpen, DumpWrite, DumpSuccess, DumpList, MarkWrite, MarkRename, MarkFail, diskVars, TypeOK
  <2> QED BY <1>1, <2>2, <2>3, <2>5
<1>5. CASE UNCHANGED vars \/ Finished
  <2>1. ASSUME NEW r \in Ranks
        PROVE  CalmRank(r)'
    <3>1. Same(r) /\ tmp'[r] = tmp[r]
      BY <1>5 DEF Finished, vars, Same, jobVars, diskVars
    <3> QED BY <1>0, <3>1, SameCalm
  <2> QED BY <2>1 DEF Calm
<1> QED BY <1>2, <1>3, <1>4, <1>5 DEF Next

\* What a rank renames is no older than what is owed.
LEMMA RenameOwed ==
  ASSUME CheckpointerAssumption, TypeOK, NEW r \in Ranks, RankInv(r), Holder(r), NEW x \in Kinds,
         dump[<<r, x>>].pc = "rename", tmp[r] # 0, NEW q \in Iters, Owed(q)
  PROVE  tmp[r] >= q
<1>0. /\ iter \in Int /\ q \in Int /\ q >= 1 /\ SaveInterval \in Nat \ {0} /\ Root(r, q)
      /\ Last => q + SaveInterval < iter
  BY SaverTypes DEF Iters, Owed, CheckpointerAssumption
<1>1. saver[r].pc # "gone"
  BY DEF RankInv, Phases, D, S, Kinds
<1>2. CASE S(r).pc = "rename" /\ tmp[r] = S(r).task[1]
  <2>1. saver[r].pc = "dumping" /\ S(r).task = <<iter, saver[r].part>>
    BY <1>2 DEF RankInv, Phases
  <2>2. q < Due(r)[1] \/ q = iter
    BY <1>0 DEF RankInv, Rooted
  <2> QED BY <1>0, <1>2, <2>1, <2>2 DEF Due
<1>3. CASE D(r).pc = "rename" /\ tmp[r] = D(r).task[1]
  <2>1. q <= D(r).task[1] \/ (Sync /\ q = iter)
    BY <1>0, <1>3 DEF RankInv, Rooted
  <2>2. ASSUME Sync, q = iter
        PROVE  FALSE
    <3>1. Last
      BY <1>3, <2>2 DEF RankInv, Phases, Sync
    <3> QED BY <1>0, <2>2, <3>1
  <2> QED BY <1>3, <2>1, <2>2
<1> QED BY <1>1, <1>2, <1>3 DEF Holder

\* A dump neither loses a checkpoint that is owed nor marks an older one.
LEMMA DumpLanded ==
  ASSUME CheckpointerAssumption, ~MayFail, TypeOK, Ranked, Calm, Landed, [Next]_vars,
         NEW r \in Ranks, NEW x \in Kinds, DumpStep(<<r, x>>)
  PROVE  Landed'
<1>0. RankInv(r) /\ Holder(r) /\ <<r, x>>[1] = r /\ SaveInterval \in Int
  BY DEF Ranked, Calm, CalmRank, CheckpointerAssumption
<1>a. PICK t : t = dump[<<r, x>>].task
  OBVIOUS
<1>1. /\ iter' = iter /\ start' = start /\ run' = run
      /\ \A s \in Ranks : \A y \in Kinds : s # r \/ y # x => dump'[<<s, y>>] = dump[<<s, y>>]
      /\ dump[<<r, x>>].pc # "idle"
      /\ \/ dump'[<<r, x>>] = Idle /\ dump[<<r, x>>].pc \in {"list", "rename"}
         \/ /\ dump'[<<r, x>>].task = t
            /\ dump'[<<r, x>>].pc # "rename" \/ MarkWrite(<<r, x>>)
            /\ dump[<<r, x>>].pc # "rename"
  BY <1>a, DumpMoves
<1>2. t \in Dirs /\ t[1] \in Iters /\ t = <<t[1], t[2]>> /\ t[1] # 0
  <2>1. t \in Dirs /\ t[1] \in Iters /\ t = <<t[1], t[2]>>
    BY <1>0, <1>1, <1>a, TaskFacts
  <2> QED BY <2>1 DEF Iters
<1>3. SUFFICES ASSUME NEW q \in Iters, Owed(q)'
               PROVE  marked' >= q \/ \E s \in Ranks : \E y \in Kinds : Carries(s, y, q)'
  BY DEF Landed
<1>4. Saves(q) /\ (Last => q + SaveInterval < iter) /\ \A s \in Ranks : Root(s, q)'
  BY <1>1, <1>3 DEF Owed, Saves, Last
<1>5. CASE DumpSuccess(<<r, x>>)
  <2>1. marked' = marked /\ tmp' = tmp /\ Goes(<<r, x>>, "list") /\ files' = files
    BY <1>5 DEF DumpSuccess
  <2>2. dump'[<<r, x>>].pc = "list" /\ dump'[<<r, x>>].task = t
    BY <2>1, <1>a, GoesAt
  <2>3. CASE Owed(q)
    <3>1. \A s \in Ranks : \A y \in Kinds : Carries(s, y, q) => Carries(s, y, q)'
      <4>1. ASSUME NEW s \in Ranks, NEW y \in Kinds, Carries(s, y, q)
            PROVE  Carries(s, y, q)'
        BY <1>a, <1>1, <2>1, <2>2, <4>1 DEF Carries
      <4> QED BY <4>1
    <3> QED BY <2>1, <2>3, <3>1 DEF Landed
  <2>4. CASE ~Owed(q)
    <3>1. PICK s \in Ranks : ~Root(s, q)
      BY <1>4, <2>4 DEF Owed
    <3>2. success'[<<q, Parts>>][s] # success[<<q, Parts>>][s]
      BY <1>1, <1>4, <3>1 DEF Root
    <3>3. <<q, Parts>> = t
      <4>a. PICK v : v = run
        OBVIOUS
      <4>1. Succeeds(t, r, v)
        BY <1>a, <1>0, <1>5, <4>a DEF DumpSuccess, Succeeds
      <4>2. \A e \in Ranks : \A d \in Dirs : e # r \/ d # t => success'[d][e] = success[d][e]
        BY <1>2, <4>1, SuccessAt
      <4>3. <<q, Parts>> \in Dirs
        BY DirTypes, PartsType
      <4> QED BY <3>2, <4>2, <4>3
    <3>4. Carries(r, x, q)'
      BY <2>2, <3>3 DEF Carries
    <3> QED BY <3>4
  <2> QED BY <2>3, <2>4
<1>6. CASE ~DumpSuccess(<<r, x>>)
  <2>1. success' = success
    BY <1>6 DEF DumpStep, DumpOpen, DumpWrite, DumpList, MarkWrite, MarkRename, MarkFail, diskVars
  <2>2. Owed(q)
    BY <1>1, <1>4, <2>1 DEF Owed, Root
  <2>3. CASE MarkRename(<<r, x>>)
    <3>1. dump[<<r, x>>].pc = "rename" /\ tmp[r] # 0 /\ marked' = tmp[r]
      BY <1>0, <2>3 DEF MarkRename, At
    <3> QED BY <1>0, <2>2, <3>1, RenameOwed
  <2>4. CASE ~MarkRename(<<r, x>>)
    <3>1. marked' = marked /\ \A s \in Ranks : s # r => tmp'[s] = tmp[s]
      BY <1>0, <1>6, <2>4 DEF DumpStep, DumpOpen, DumpWrite, DumpList, MarkWrite, MarkFail, diskVars, TypeOK
    <3>2. tmp'[r] = tmp[r] \/ tmp'[r] = t[1]
      BY <1>0, <1>a, <1>6, <2>4 DEF DumpStep, DumpOpen, DumpWrite, DumpList, MarkWrite, MarkFail, diskVars, TypeOK
    <3>3. ASSUME NEW s \in Ranks, NEW y \in Kinds, Carries(s, y, q), s # r \/ y # x
          PROVE  Carries(s, y, q)'
      <4>1. dump'[<<s, y>>] = dump[<<s, y>>]
        BY <1>1, <3>3
      <4> QED BY <1>2, <3>1, <3>2, <3>3, <4>1 DEF Carries
    <3>4. ASSUME Carries(r, x, q)
          PROVE  Carries(r, x, q)'
      <4>1. t = <<q, Parts>> /\ ~(dump[<<r, x>>].pc = "rename" /\ tmp[r] = 0)
        BY <1>a, <3>4 DEF Carries
      <4>2. ~MarkFail(<<r, x>>)
        BY <1>0, <4>1 DEF MarkFail, At
      <4>3. CASE DumpList(<<r, x>>)
        <5>1. Successes(t) = Ranks
          <6>1. run # 0
            BY SaverTypes, <1>0
          <6> QED BY <2>2, <4>1, <6>1 DEF Successes, Owed, Root
        <5>2. AllRanksFinished(t)
          BY <4>1, <5>1 DEF AllRanksFinished, Marks
        <5>3. Goes(<<r, x>>, "mark")
          BY <1>a, <4>3, <5>2 DEF DumpList
        <5>4. dump'[<<r, x>>].pc = "mark" /\ dump'[<<r, x>>].task = t
          BY <1>a, <5>3, GoesAt
        <5> QED BY <4>1, <5>4 DEF Carries
      <4>4. CASE MarkWrite(<<r, x>>)
        <5>1. tmp'[r] = t[1] /\ Goes(<<r, x>>, "rename")
          BY <1>a, <1>0, <4>4 DEF MarkWrite, TypeOK
        <5>2. dump'[<<r, x>>].task = t
          BY <1>a, <5>1, GoesAt
        <5> QED BY <1>2, <4>1, <5>1, <5>2 DEF Carries
      <4>5. CASE DumpOpen(<<r, x>>) \/ DumpWrite(<<r, x>>)
        <5>1. Goes(<<r, x>>, "write") \/ Goes(<<r, x>>, "success")
          BY <4>5 DEF DumpOpen, DumpWrite
        <5>2. dump'[<<r, x>>].task = t /\ dump'[<<r, x>>].pc # "rename"
          BY <1>a, <5>1, GoesAt
        <5> QED BY <4>1, <5>2 DEF Carries
      <4> QED BY <1>6, <2>4, <4>2, <4>3, <4>4, <4>5 DEF DumpStep
    <3> QED BY <2>2, <3>1, <3>3, <3>4 DEF Landed
  <2> QED BY <2>3, <2>4
<1> QED BY <1>5, <1>6

\* Every step keeps what is owed marked, or about to be.
LEMMA StepLanded ==
  ASSUME CheckpointerAssumption, ~MayFail, TypeOK, Ranked, Calm, Landed, [Next]_vars, ~Restart
  PROVE  Landed'
<1>0. iter \in Int /\ TrainIters \in Int /\ SaveInterval \in Nat \ {0}
  BY IterType DEF CheckpointerAssumption
<1>1. CASE \E th \in Threads : DumpStep(th)
  BY <1>1, DirTypes, DumpLanded
<1>2. CASE ~\E th \in Threads : DumpStep(th)
  <2>1. /\ run' = run /\ start' = start /\ success' = success /\ tmp' = tmp /\ marked' = marked
        /\ iter' = iter \/ (~Last /\ iter' = iter + 1)
    BY <1>2 DEF Next, Training, TrainIter, SaveBegin, NextIter, Barrier, TrainerStep, Join, SubmitAsync,
         SubmitSync, SyncDone, Exit, DumperTake, DumperDies, Finished, vars, jobVars, diskVars
  <2>2. \A q \in Iters : Owed(q)' => Owed(q)
    BY <1>0, <2>1 DEF Owed, Saves, Root, Last
  <2>3. ASSUME NEW q \in Iters, Owed(q), NEW s \in Ranks, NEW y \in Kinds, Carries(s, y, q)
        PROVE  Carries(s, y, q)'
    <3>0. RankInv(s) /\ Lag(s) /\ <<q, Parts>> # NoTask
      BY DirTypes, PartsType DEF Ranked, Calm, CalmRank
    <3>1. dump[<<s, y>>].pc # "idle"
      BY <2>3, <3>0 DEF Carries, RankInv, Phases
    <3>2. dump'[<<s, y>>] = dump[<<s, y>>]
      <4>1. CASE Training \/ UNCHANGED vars \/ Finished
        BY <4>1 DEF Training, TrainIter, SaveBegin, NextIter, Barrier, Finished, vars
      <4>2. CASE \E r \in Ranks : TrainerStep(r) \/ DumperTake(r) \/ DumperDies(r)
        <5>1. PICK r \in Ranks : TrainerStep(r) \/ DumperTake(r)
          BY <4>2 DEF DumperDies
        <5>2. CASE s # r
          <6>1. Alone(r)
            BY <5>1, OwnRank DEF Ranked
          <6> QED BY <5>2, <6>1 DEF Alone, Same
        <5>3. CASE s = r
          <6>0. "dumper" \in Kinds /\ "saver" \in Kinds /\ (y = "dumper" \/ y = "saver")
            BY DEF Kinds
          <6>1. CASE SubmitSync(s)
            <7>1. S(s).pc = "idle"
              BY <3>0, <6>1 DEF SubmitSync, RankInv, Phases
            <7>2. y = "dumper"
              BY <3>1, <6>0, <7>1 DEF S
            <7> QED BY <6>0, <6>1, <7>2, DumpAt DEF SubmitSync
          <6>2. CASE DumperTake(s)
            <7>1. y = "saver"
              BY <3>1, <6>0, <6>2 DEF DumperTake, Idle
            <7> QED BY <6>0, <6>2, <7>1, DumpAt DEF DumperTake
          <6>3. CASE Exit(s)
            <7>1. saver[s].pc = "saved" /\ Last
              BY <6>3 DEF Exit
            <7>2. q + SaveInterval < iter /\ Saves(q)
              BY <2>3, <7>1 DEF Owed
            <7>3. D(s).task # <<q, Parts>>
              BY <3>0, <7>1, <7>2 DEF Lag, Behind, Joining, Passed
            <7>4. y = "saver"
              BY <2>3, <6>0, <7>3 DEF Carries, D
            <7> QED BY <6>0, <6>3, <7>4, DumpAt DEF Exit
          <6>4. CASE ~SubmitSync(s) /\ ~DumperTake(s) /\ ~Exit(s)
            BY <5>1, <5>3, <6>4 DEF TrainerStep, Join, SubmitAsync, SyncDone
          <6> QED BY <6>1, <6>2, <6>3, <6>4
        <5> QED BY <5>2, <5>3
      <4> QED BY <1>2, <4>1, <4>2 DEF Next
    <3> QED BY <2>1, <2>3, <3>2 DEF Carries
  <2> QED BY <2>1, <2>2, <2>3 DEF Landed
<1> QED BY <1>1, <1>2

\* The first half of BoundedBacklog, which needs no luck.
LEMMA QueueBound ==
  ASSUME CheckpointerAssumption, TypeOK, Ranked, NEW r \in Ranks
  PROVE  Len(tasks[r]) + (IF dump[<<r, "dumper">>] = Idle THEN 0 ELSE 1) <= Parts + 1
<1>1. /\ Len(tasks[r]) \in Nat /\ saver[r].part \in 1 .. Parts /\ Parts \in Nat
      /\ Queue(r)
  BY SaverTypes, PartsType DEF Ranked, RankInv
<1>2. Len(tasks[r]) <= Parts
  BY <1>1 DEF Queue
<1>3. CASE dump[<<r, "dumper">>] = Idle
  BY <1>1, <1>2, <1>3
<1>4. CASE dump[<<r, "dumper">>] # Idle
  BY <1>1, <1>2, <1>4
<1> QED BY <1>3, <1>4

\* What is two saves behind is marked, or it would be pending still.
LEMMA BacklogHolds ==
  ASSUME CheckpointerAssumption, TypeOK, Ranked, Calm, Landed
  PROVE  BoundedBacklog
<1>1. SUFFICES ASSUME NEW p \in Iters, p % SaveInterval = 0, p > start, p + 2 * SaveInterval < iter
               PROVE  marked >= p
  BY QueueBound DEF BoundedBacklog
<1>0. iter \in Int /\ SaveInterval \in Nat \ {0} /\ p \in Int
  BY IterType DEF CheckpointerAssumption, Iters
<1>2. \A r \in Ranks : Passed(r, p)
  BY <1>1 DEF Calm, CalmRank, Lag, Saves, Behind
<1>3. Owed(p)
  BY <1>0, <1>1, <1>2 DEF Owed, Saves, Passed
<1>4. ASSUME NEW r \in Ranks, NEW x \in Kinds, Carries(r, x, p)
      PROVE  FALSE
  <2>1. x = "saver" /\ S(r).task = <<p, Parts>>
    BY <1>2, <1>4 DEF Passed, Carries, D, S, Kinds
  <2>2. RankInv(r) /\ <<p, Parts>> # NoTask /\ "saver" \in Kinds
    BY DirTypes, PartsType DEF Ranked, Kinds
  <2>3. S(r).pc # "idle"
    BY <2>1, <2>2 DEF RankInv, Phases, S
  <2>4. S(r).task = <<iter, saver[r].part>>
    BY <2>2, <2>3 DEF RankInv, Phases
  <2> QED BY <1>0, <1>1, <2>1, <2>4
<1> QED BY <1>3, <1>4 DEF Landed

\* When nothing fails, a rank keeps at most one checkpoint waiting and a part of
\* the one before, and what was saved two saves ago is marked.
THEOREM BacklogBound ==
  CheckpointerAssumption /\ ~MayFail /\ MaxCrashes = 0 /\ Spec => []BoundedBacklog
<1> SUFFICES ASSUME CheckpointerAssumption, ~MayFail, MaxCrashes = 0 PROVE Spec => []BoundedBacklog
  OBVIOUS
<1> DEFINE Inv == TypeOK /\ Ranked /\ Calm /\ Landed
<1>1. Init => Inv
  <2>1. SUFFICES ASSUME Init
                 PROVE  Calm /\ Landed
    BY InitInv
  <2>2. ASSUME NEW r \in Ranks
        PROVE  CalmRank(r)
    <3>1. iter = 0 /\ start = 0 /\ saver[r].pc = "train" /\ tmp[r] = 0
      BY <2>1 DEF Init
    <3>2. \A q \in Iters : ~(q < iter) /\ ~(q + 2 * SaveInterval < iter)
      BY <3>1 DEF Iters, CheckpointerAssumption
    <3>3. Submitted(r)
      BY <3>1, <3>2, PartsType DEF Submitted, Due
    <3>4. Lag(r)
      BY <3>1, <3>2 DEF Lag, Behind, Joining
    <3> QED BY <3>1, <3>3, <3>4 DEF CalmRank, Holder
  <2>3. Landed
    <3>1. PICK r \in Ranks : TRUE
      BY DEF CheckpointerAssumption
    <3>2. \A q \in Iters : ~Root(r, q)
      BY <2>1, DirTypes, PartsType DEF Init, Root
    <3> QED BY <3>1, <3>2 DEF Landed, Owed
  <2> QED BY <2>2, <2>3 DEF Calm
<1>2. Inv /\ [Next]_vars => Inv'
  <2>1. TypeOK => ~Restart
    BY DEF TypeOK, Restart
  <2> QED BY <2>1, StepType, StepRank, StepCalm, StepLanded
<1>3. Inv => BoundedBacklog
  BY BacklogHolds
<1> QED BY <1>1, <1>2, <1>3, PTL DEF Spec

\* Whatever fails, a rank never keeps more than one checkpoint waiting and a part
\* of the one before.
THEOREM QueueBounded ==
  CheckpointerAssumption /\ Spec =>
    [](\A r \in Ranks :
         Len(tasks[r]) + (IF dump[<<r, "dumper">>] = Idle THEN 0 ELSE 1) <= Parts + 1)
<1> SUFFICES ASSUME CheckpointerAssumption
             PROVE  Spec => [](\A r \in Ranks :
                Len(tasks[r]) + (IF dump[<<r, "dumper">>] = Idle THEN 0 ELSE 1) <= Parts + 1)
  OBVIOUS
<1> DEFINE Inv == TypeOK /\ Ranked
<1>1. Init => Inv
  BY InitInv
<1>2. Inv /\ [Next]_vars => Inv'
  BY StepType, StepRank
<1>3. Inv => \A r \in Ranks :
               Len(tasks[r]) + (IF dump[<<r, "dumper">>] = Idle THEN 0 ELSE 1) <= Parts + 1
  BY QueueBound
<1> QED BY <1>1, <1>2, <1>3, PTL DEF Spec
=============================================================================
