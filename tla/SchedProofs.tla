---------------------------- MODULE SchedProofs ----------------------------
(* Proof that QueueInv is an invariant of the scheduler for any number of   *)
(* tasks and any arguments of the system calls.                             *)
EXTENDS Sched, TLAPS

-----------------------------------------------------------------------------
(* What Append and Tail do to the elements of a sequence without repetition *)

\* LIST_ENQUEUE of an unlinked node: the element is added and no element is
\* on the queue twice.
LEMMA AppendElems ==
    ASSUME NEW S, NEW s \in Seq(S), NEW e \in S
    PROVE  /\ Append(s, e) \in Seq(S)
           /\ ToSet(Append(s, e)) = ToSet(s) \cup {e}
           /\ IsInjective(s) /\ e \notin ToSet(s) => IsInjective(Append(s, e))
<1> DEFINE t == Append(s, e)
<1>1. /\ t \in Seq(S)
      /\ Len(t) = Len(s) + 1
      /\ DOMAIN t = 1 .. Len(s) + 1
      /\ DOMAIN s = 1 .. Len(s)
      /\ Len(s) \in Nat
      /\ \A i \in 1 .. Len(s) : t[i] = s[i]
      /\ t[Len(s) + 1] = e
  OBVIOUS
<1> HIDE DEF t
<1>2. ToSet(t) = ToSet(s) \cup {e}
  <2>1. ASSUME NEW x \in ToSet(t) PROVE x \in ToSet(s) \cup {e}
    BY <1>1, <2>1 DEF ToSet
  <2>2. ASSUME NEW x \in ToSet(s) PROVE x \in ToSet(t)
    BY <1>1, <2>2 DEF ToSet
  <2>3. e \in ToSet(t)
    BY <1>1 DEF ToSet
  <2> QED  BY <2>1, <2>2, <2>3
<1>3. ASSUME IsInjective(s), e \notin ToSet(s) PROVE IsInjective(t)
  <2>1. SUFFICES ASSUME NEW i \in DOMAIN t, NEW j \in DOMAIN t, t[i] = t[j]
                 PROVE  i = j
    BY DEF IsInjective
  <2>2. \A k \in 1 .. Len(s) : s[k] # e
    BY <1>1, <1>3 DEF ToSet
  <2> QED  BY <1>1, <1>3, <2>1, <2>2 DEF IsInjective
<1> QED  BY <1>1, <1>2, <1>3 DEF t

\* LIST_DEQUEUE of a non-empty queue: the head leaves, the rest stays.
LEMMA TailElems ==
    ASSUME NEW S, NEW s \in Seq(S), s # <<>>
    PROVE  /\ Head(s) \in S
           /\ Head(s) \in ToSet(s)
           /\ Tail(s) \in Seq(S)
           /\ ToSet(s) = ToSet(Tail(s)) \cup {Head(s)}
           /\ IsInjective(s) => IsInjective(Tail(s)) /\ Head(s) \notin ToSet(Tail(s))
<1> DEFINE t == Tail(s)
<1>1. /\ t \in Seq(S)
      /\ Len(s) \in Nat \ {0}
      /\ DOMAIN s = 1 .. Len(s)
      /\ DOMAIN t = 1 .. Len(s) - 1
      /\ \A i \in 1 .. Len(s) - 1 : t[i] = s[i + 1]
      /\ Head(s) = s[1]
      /\ Head(s) \in S
  OBVIOUS
<1> HIDE DEF t
<1>2. Head(s) \in ToSet(s)
  BY <1>1 DEF ToSet
<1>3. ToSet(s) = ToSet(t) \cup {Head(s)}
  <2>1. ASSUME NEW x \in ToSet(s), x # s[1] PROVE x \in ToSet(t)
    <3>1. PICK i \in 1 .. Len(s) : x = s[i]
      BY <1>1, <2>1 DEF ToSet
    <3>2. i - 1 \in DOMAIN t /\ t[i - 1] = x
      BY <1>1, <2>1, <3>1
    <3> QED  BY <3>2 DEF ToSet
  <2>2. ASSUME NEW x \in ToSet(t) PROVE x \in ToSet(s)
    <3>1. PICK i \in 1 .. Len(s) - 1 : x = t[i]
      BY <1>1, <2>2 DEF ToSet
    <3>2. i + 1 \in DOMAIN s /\ s[i + 1] = x
      BY <1>1, <3>1
    <3> QED  BY <3>2 DEF ToSet
  <2> QED  BY <1>1, <1>2, <2>1, <2>2
<1>4. ASSUME IsInjective(s) PROVE IsInjective(t) /\ Head(s) \notin ToSet(t)
  <2>1. \A i \in 1 .. Len(s), j \in 1 .. Len(s) : s[i] = s[j] => i = j
    BY <1>1, <1>4 DEF IsInjective
  <2>2. \A i \in 1 .. Len(s) - 1 : t[i] # s[1]
    <3> TAKE i \in 1 .. Len(s) - 1
    <3>1. /\ i + 1 \in 1 .. Len(s)
          /\ 1 \in 1 .. Len(s)
          /\ i + 1 # 1
      BY <1>1
    <3> QED  BY <1>1, <2>1, <3>1
  <2>3. Head(s) \notin ToSet(t)
    BY <1>1, <2>2 DEF ToSet
  <2>4. ASSUME NEW i \in DOMAIN t, NEW j \in DOMAIN t, t[i] = t[j] PROVE i = j
    <3>1. i + 1 \in 1 .. Len(s) /\ j + 1 \in 1 .. Len(s)
      BY <1>1, <2>4
    <3>2. s[i + 1] = s[j + 1]
      BY <1>1, <2>4
    <3> QED  BY <1>1, <2>1, <3>1, <3>2
  <2> QED  BY <2>3, <2>4 DEF IsInjective
<1> QED  BY <1>1, <1>2, <1>3, <1>4 DEF t

\* An empty queue has no elements.
LEMMA EmptyElems == ToSet(<<>>) = {} /\ IsInjective(<<>>)
BY DEF ToSet, IsInjective

-----------------------------------------------------------------------------
(* The invariant *)

\* While the idle task is both running and queued no other task has run, so
\* the other queues are empty.
BootInv == Booting => /\ term_queue = <<>>
                      /\ delay_queue = <<>>
                      /\ wait_queue = <<>>

\* kernel_loop_task only executes kernel_loop: it makes no call of its own.
IdleInv == ctx[KernelLoop] = "idle"

IInv == TypeOK /\ LinkedOnce /\ StateTellsQueue /\ BootInv /\ IdleInv

\* LIST_DEQUEUE(&running_queue) with the idle task as the default.
LEMMA FirstRest ==
    ASSUME NEW q \in Seq(Task), IsInjective(q)
    PROVE  /\ First(q) \in Task
           /\ Rest(q) \in Seq(Task)
           /\ IsInjective(Rest(q))
           /\ ToSet(q) \cup {KernelLoop} = ToSet(Rest(q)) \cup {First(q), KernelLoop}
           /\ First(q) \notin ToSet(Rest(q))
           /\ ToSet(Rest(q)) \subseteq ToSet(q)
           /\ First(q) \in ToSet(q) \cup {KernelLoop}
<1>1. CASE q = <<>>
  BY <1>1, EmptyElems, SchedAssumption DEF First, Rest
<1>2. CASE q # <<>>
  BY <1>2, TailElems DEF First, Rest
<1> QED  BY <1>1, <1>2

\* sched_setup and kernel_setup establish the invariant.
LEMMA InitInv == Init => IInv
<1> SUFFICES ASSUME Init PROVE IInv
  OBVIOUS
<1> USE SchedAssumption
<1> DEFINE q == <<KernelLoop, Ttyd>> \o BootSeq
<1>1. /\ q \in Seq(Task)
      /\ Len(q) = Len(BootSeq) + 2
      /\ Len(BootSeq) \in Nat
      /\ DOMAIN BootSeq = 1 .. Len(BootSeq)
      /\ q[1] = KernelLoop
      /\ q[2] = Ttyd
      /\ \A i \in 1 .. Len(BootSeq) : q[i + 2] = BootSeq[i]
      /\ q # <<>>
      /\ Head(q) = KernelLoop
  OBVIOUS
<1>2. DOMAIN q = 1 .. Len(BootSeq) + 2
  BY <1>1
<1> HIDE DEF q
<1>3. \A i \in DOMAIN q : \/ i = 1
                          \/ i = 2
                          \/ i - 2 \in 1 .. Len(BootSeq) /\ q[i] = BootSeq[i - 2]
  <2> TAKE i \in DOMAIN q
  <2>1. CASE i > 2
    <3>1. i - 2 \in 1 .. Len(BootSeq) /\ (i - 2) + 2 = i
      BY <1>1, <1>2, <2>1
    <3> QED  BY <1>1, <3>1
  <2> QED  BY <1>1, <1>2, <2>1
<1>4. ToSet(q) = {KernelLoop, Ttyd} \cup BootUser
  <2>1. ASSUME NEW x \in BootUser PROVE x \in ToSet(q)
    <3>1. PICK i \in 1 .. Len(BootSeq) : x = BootSeq[i]
      BY <1>1, <2>1 DEF BootUser, ToSet
    <3>2. i + 2 \in DOMAIN q /\ q[i + 2] = x
      BY <1>1, <1>2, <3>1
    <3> QED  BY <3>2 DEF ToSet
  <2>2. KernelLoop \in ToSet(q) /\ Ttyd \in ToSet(q)
    <3>1. 1 \in DOMAIN q /\ 2 \in DOMAIN q
      BY <1>1, <1>2
    <3> QED  BY <1>1, <3>1 DEF ToSet
  <2>3. ASSUME NEW x \in ToSet(q) PROVE x \in {KernelLoop, Ttyd} \cup BootUser
    <3>1. PICK i \in DOMAIN q : x = q[i]
      BY <2>3 DEF ToSet
    <3>2. \A j \in 1 .. Len(BootSeq) : BootSeq[j] \in BootUser
      BY <1>1 DEF BootUser, ToSet
    <3> QED  BY <1>1, <1>3, <3>1, <3>2
  <2> QED  BY <2>1, <2>2, <2>3
<1>5. IsInjective(q)
  <2>1. SUFFICES ASSUME NEW i \in DOMAIN q, NEW j \in DOMAIN q, q[i] = q[j]
                 PROVE  i = j
    BY DEF IsInjective
  <2>2. \A k \in 1 .. Len(BootSeq) : BootSeq[k] # KernelLoop /\ BootSeq[k] # Ttyd
    BY <1>1 DEF BootUser, ToSet
  <2>3. \A k, l \in 1 .. Len(BootSeq) : BootSeq[k] = BootSeq[l] => k = l
    BY <1>1
  <2>4. CASE i \in {1, 2}
    BY <1>1, <1>2, <1>3, <2>1, <2>2, <2>4
  <2>5. CASE j \in {1, 2}
    BY <1>1, <1>2, <1>3, <2>1, <2>2, <2>5
  <2>6. CASE i \notin {1, 2} /\ j \notin {1, 2}
    <3>1. i - 2 = j - 2
      BY <1>3, <2>1, <2>3, <2>6
    <3> QED  BY <1>2, <3>1
  <2> QED  BY <2>4, <2>5, <2>6
<1>6. /\ running_queue = q
      /\ task_list = ToSet(q)
      /\ ToSet(q) \subseteq Task
      /\ BootUser \subseteq Task
  <2>1. BootUser \subseteq Task
    BY <1>1 DEF BootUser, ToSet
  <2> QED  BY <1>4, <2>1 DEF Init, setup_queue, q
<1>7. TypeOK
  <2>1. files1 \in [Task -> Nat]
    <3>1. FilePtr \cup {0} \subseteq Nat
      BY SchedAssumption
    <3>2. Stdout \in [BootUser -> FilePtr \cup {0}]
      BY SchedAssumption
    <3> QED  BY <3>1, <3>2 DEF Init
  <2>2. state \in [Task -> States] /\ ctx \in [Task -> Contexts]
    BY DEF Init, States, Contexts
  <2> QED  BY <1>1, <1>6, <2>1, <2>2 DEF Init, TypeOK
<1>8. LinkedOnce
  BY <1>1, <1>5, <1>6, EmptyElems DEF Init, LinkedOnce, Booting
<1>9. StateTellsQueue
  BY <1>4, <1>6, EmptyElems DEF Init, StateTellsQueue, In
<1> QED  BY <1>7, <1>8, <1>9 DEF Init, IInv, BootInv, IdleInv

-----------------------------------------------------------------------------
(* One lemma for each way in which the queues change.                        *)

\* yield() by a task that stays runnable: it goes to the tail, the head runs.
LEMMA YieldStep ==
    ASSUME IInv, current # KernelLoop, state[current] = "RUNNING",
           yield(TRUE),
           UNCHANGED <<state, task_list, term_queue, delay_queue, wait_queue>>
    PROVE  /\ current' \in Task
           /\ running_queue' \in Seq(Task)
           /\ (LinkedOnce /\ StateTellsQueue /\ BootInv)'
<1> USE SchedAssumption DEF IInv, TypeOK
<1> DEFINE r == Rest(running_queue)
<1>1. /\ current \notin ToSet(running_queue)
      /\ IsInjective(running_queue)
  BY DEF LinkedOnce, Booting
<1>2. /\ First(running_queue) \in Task
      /\ r \in Seq(Task)
      /\ IsInjective(r)
      /\ ToSet(running_queue) \cup {KernelLoop} = ToSet(r) \cup {First(running_queue), KernelLoop}
      /\ First(running_queue) \notin ToSet(r)
      /\ ToSet(r) \subseteq ToSet(running_queue)
      /\ First(running_queue) \in ToSet(running_queue) \cup {KernelLoop}
  BY <1>1, FirstRest
<1>3. current' = First(running_queue) /\ running_queue' = Append(r, current)
  BY DEF yield
<1> HIDE DEF r
<1>4. /\ running_queue' \in Seq(Task)
      /\ ToSet(running_queue') = ToSet(r) \cup {current}
      /\ IsInjective(running_queue')
  BY <1>1, <1>2, <1>3, AppendElems
<1>5. current' \notin ToSet(running_queue')
  BY <1>1, <1>2, <1>3, <1>4
<1>6. LinkedOnce'
  BY <1>4, <1>5 DEF LinkedOnce
<1>7. StateTellsQueue'
  BY <1>2, <1>3, <1>4 DEF StateTellsQueue, In
<1>8. BootInv'
  BY <1>4, <1>5, TailElems DEF BootInv, Booting
<1> QED  BY <1>2, <1>3, <1>4, <1>6, <1>7, <1>8

\* The CPU leaves current for good or for a while: its state becomes s, and
\* the next task of running_queue is taken. Here s is "TERM" or "WAIT".
LEMMA LeaveStep ==
    ASSUME IInv, NEW s \in {"TERM", "WAIT"}, current # KernelLoop,
           state[current] = "RUNNING",
           state' = [state EXCEPT ![current] = s],
           current' = First(running_queue),
           running_queue' = Rest(running_queue)
    PROVE  /\ current' \in Task
           /\ state' \in [Task -> States]
           /\ running_queue' \in Seq(Task)
           /\ IsInjective(running_queue')
           /\ ~ Booting'
           /\ current' \notin ToSet(running_queue')
           /\ In("RUNNING")' = {current', KernelLoop} \cup ToSet(running_queue')
           /\ In("WAIT")' = IF s = "WAIT" THEN In("WAIT") \cup {current} ELSE In("WAIT")
           /\ In("TERM")' = IF s = "TERM" THEN In("TERM") \cup {current} ELSE In("TERM")
           /\ In("FREE")' = In("FREE")
<1> USE SchedAssumption DEF IInv, TypeOK
<1> DEFINE r == Rest(running_queue)
<1>1. /\ current \notin ToSet(running_queue)
      /\ IsInjective(running_queue)
  BY DEF LinkedOnce, Booting
<1>2. /\ First(running_queue) \in Task
      /\ r \in Seq(Task)
      /\ IsInjective(r)
      /\ ToSet(running_queue) \cup {KernelLoop} = ToSet(r) \cup {First(running_queue), KernelLoop}
      /\ First(running_queue) \notin ToSet(r)
      /\ ToSet(r) \subseteq ToSet(running_queue)
      /\ First(running_queue) \in ToSet(running_queue) \cup {KernelLoop}
  BY <1>1, FirstRest
<1>3. current' = First(running_queue) /\ running_queue' = r
  OBVIOUS
<1> HIDE DEF r
<1>4. state' \in [Task -> States]
  BY DEF States
<1>5. ~ Booting'
  BY <1>2, <1>3, TailElems DEF Booting
<1>6. In("RUNNING")' = In("RUNNING") \ {current}
  BY DEF In
<1>7. In("RUNNING")' = {current', KernelLoop} \cup ToSet(running_queue')
  BY <1>1, <1>2, <1>3, <1>6 DEF StateTellsQueue
<1>8. /\ In("WAIT")' = IF s = "WAIT" THEN In("WAIT") \cup {current} ELSE In("WAIT")
      /\ In("TERM")' = IF s = "TERM" THEN In("TERM") \cup {current} ELSE In("TERM")
      /\ In("FREE")' = In("FREE")
  BY DEF In
<1> QED  BY <1>2, <1>3, <1>4, <1>5, <1>7, <1>8

\* task_resume(queue): the head of a non-empty queue takes the CPU and the
\* interrupted task, which is never linked at that time, is queued.
LEMMA ResumeStep ==
    ASSUME IInv, NEW q \in Seq(Task), q # <<>>, q \in {delay_queue, wait_queue},
           task_resume(q)
    PROVE  /\ current' \in Task
           /\ state' \in [Task -> States]
           /\ running_queue' \in Seq(Task)
           /\ IsInjective(running_queue')
           /\ current' \notin ToSet(running_queue')
           /\ ~ Booting'
           /\ In("RUNNING")' = {current', KernelLoop} \cup ToSet(running_queue')
           /\ In("WAIT")' = In("WAIT") \ {Head(q)}
           /\ In("TERM")' = In("TERM")
           /\ In("FREE")' = In("FREE")
<1> USE SchedAssumption DEF IInv, TypeOK
<1>1. current \notin ToSet(running_queue) /\ IsInjective(running_queue)
  BY DEF LinkedOnce, BootInv
<1>2. Head(q) \in Task /\ Head(q) \in In("WAIT")
  BY TailElems DEF StateTellsQueue
<1>3. /\ current' = Head(q)
      /\ running_queue' = Append(running_queue, current)
      /\ state' = [state EXCEPT ![Head(q)] = "RUNNING"]
  BY DEF task_resume
<1>4. /\ running_queue' \in Seq(Task)
      /\ ToSet(running_queue') = ToSet(running_queue) \cup {current}
      /\ IsInjective(running_queue')
  BY <1>1, <1>3, AppendElems
<1>5. Head(q) \notin In("RUNNING")
  BY <1>2 DEF In
<1>6. /\ current' \notin ToSet(running_queue')
      /\ current' # KernelLoop
  BY <1>3, <1>4, <1>5 DEF StateTellsQueue
<1>7. /\ In("RUNNING")' = In("RUNNING") \cup {Head(q)}
      /\ In("WAIT")' = In("WAIT") \ {Head(q)}
      /\ In("TERM")' = In("TERM")
      /\ In("FREE")' = In("FREE")
  <2>1. \A x \in Task : state'[x] = IF x = Head(q) THEN "RUNNING" ELSE state[x]
    BY <1>3
  <2>2. state[Head(q)] = "WAIT"
    BY <1>2 DEF In
  <2>3. In("RUNNING")' = In("RUNNING") \cup {Head(q)}
    BY <1>2, <2>1 DEF In
  <2>4. In("WAIT")' = In("WAIT") \ {Head(q)}
    BY <2>1 DEF In
  <2>5. In("TERM")' = In("TERM") /\ In("FREE")' = In("FREE")
    BY <2>1, <2>2 DEF In
  <2> QED
    BY <2>3, <2>4, <2>5
<1>8. In("RUNNING")' = {current', KernelLoop} \cup ToSet(running_queue')
  BY <1>3, <1>4, <1>7 DEF StateTellsQueue
<1>9. state' \in [Task -> States]
  BY <1>3 DEF States
<1> QED  BY <1>2, <1>3, <1>4, <1>6, <1>7, <1>8, <1>9 DEF Booting

\* task_sched(): one round-robin step, and every task of term_queue is freed.
LEMMA SchedStep ==
    ASSUME IInv, task_sched
    PROVE  /\ current' \in Task
           /\ state' \in [Task -> States]
           /\ running_queue' \in Seq(Task)
           /\ IsInjective(running_queue')
           /\ current' \notin ToSet(running_queue')
           /\ ~ Booting'
           /\ term_queue' = <<>>
           /\ task_list' \subseteq Task
           /\ In("RUNNING")' = {current', KernelLoop} \cup ToSet(running_queue')
           /\ In("WAIT")' = In("WAIT")
           /\ In("TERM")' = {}
           /\ task_list' = Task \ In("FREE")'
<1> USE SchedAssumption DEF IInv, TypeOK
<1> DEFINE ready == IF current # KernelLoop /\ state[current] = "RUNNING"
                    THEN Append(running_queue, current) ELSE running_queue
<1>1. /\ ready \in Seq(Task)
      /\ IsInjective(ready)
      /\ ToSet(ready) \cup {KernelLoop} = ToSet(running_queue) \cup {current, KernelLoop}
  <2>1. IsInjective(running_queue)
    BY DEF LinkedOnce
  <2>2. CASE current # KernelLoop
    <3>1. state[current] = "RUNNING" /\ current \notin ToSet(running_queue)
      BY <2>2 DEF LinkedOnce, Booting, StateTellsQueue, In
    <3> QED  BY <2>1, <2>2, <3>1, AppendElems
  <2> QED  BY <2>1, <2>2
<1>2. /\ First(ready) \in Task
      /\ Rest(ready) \in Seq(Task)
      /\ IsInjective(Rest(ready))
      /\ ToSet(ready) \cup {KernelLoop} = ToSet(Rest(ready)) \cup {First(ready), KernelLoop}
      /\ First(ready) \notin ToSet(Rest(ready))
  BY <1>1, FirstRest
<1>3. /\ current' = First(ready)
      /\ running_queue' = Rest(ready)
      /\ term_queue' = <<>>
      /\ state' = [t \in Task |-> IF t \in In("TERM") THEN "FREE" ELSE state[t]]
      /\ task_list' = task_list \ In("TERM")
  BY DEF task_sched, StateTellsQueue
<1> HIDE DEF ready
<1>4. /\ In("RUNNING")' = In("RUNNING")
      /\ In("WAIT")' = In("WAIT")
      /\ In("TERM")' = {}
      /\ In("FREE")' = In("FREE") \cup In("TERM")
  BY <1>3 DEF In, States
<1>5. In("RUNNING")' = {current', KernelLoop} \cup ToSet(running_queue')
  BY <1>1, <1>2, <1>3, <1>4 DEF StateTellsQueue
<1>6. task_list' \subseteq Task /\ task_list' = Task \ In("FREE")'
  BY <1>3, <1>4 DEF StateTellsQueue
<1>7. state' \in [Task -> States]
  BY <1>3 DEF States
<1>8. ~ Booting'
  BY <1>2, <1>3, TailElems DEF Booting
<1> QED  BY <1>2, <1>3, <1>4, <1>5, <1>6, <1>7, <1>8

-----------------------------------------------------------------------------
(* One lemma for each action whose proof takes several steps.                *)

\* clock_handler keeps the values of files[1] in type.
LEMMA CountDownType ==
    ASSUME TypeOK, NEW n \in Nat, CountDown(n)
    PROVE  files1' \in [Task -> Nat]
<1>1. \A t \in Task : ~ (files1[t] < TICK_US) => files1[t] - TICK_US \in Nat
  BY SchedAssumption DEF TypeOK
<1> QED  BY <1>1 DEF TypeOK, CountDown

\* A tick, with or without a sleeper to wake.
LEMMA ClockStep == IInv /\ clock_handler => IInv'
<1> SUFFICES ASSUME IInv, clock_handler PROVE IInv'
  OBVIOUS
<1> USE SchedAssumption
<1>0. TypeOK /\ UNCHANGED <<wait_queue, delay, ctx>>
  BY DEF IInv, clock_handler
<1>1. ASSUME clock_resume PROVE IInv'
  <2>1. PICK i \in DOMAIN delay_queue : CountDown(i) /\ task_resume(delay_queue)
    BY <1>1 DEF clock_resume
  <2>2. /\ delay_queue \in Seq(Task)
        /\ delay_queue # <<>>
        /\ i \in Nat
    <3>1. delay_queue \in Seq(Task)
      BY <1>0 DEF TypeOK
    <3>2. i \in 1 .. Len(delay_queue) /\ Len(delay_queue) \in Nat
      BY <3>1
    <3> QED  BY <3>1, <3>2
  <2>3. UNCHANGED <<task_list, term_queue>> /\ delay_queue' = Tail(delay_queue)
    BY <1>1 DEF clock_resume
  <2>4. /\ delay_queue' \in Seq(Task)
        /\ IsInjective(delay_queue')
        /\ ToSet(delay_queue') = ToSet(delay_queue) \ {Head(delay_queue)}
        /\ Head(delay_queue) \in ToSet(delay_queue)
    BY <2>2, <2>3, TailElems DEF IInv, LinkedOnce
  <2>5. files1' \in [Task -> Nat]
    BY <1>0, <2>1, <2>2, CountDownType
  <2>6. /\ current' \in Task
        /\ state' \in [Task -> States]
        /\ running_queue' \in Seq(Task)
        /\ IsInjective(running_queue')
        /\ current' \notin ToSet(running_queue')
        /\ ~ Booting'
        /\ In("RUNNING")' = {current', KernelLoop} \cup ToSet(running_queue')
        /\ In("WAIT")' = In("WAIT") \ {Head(delay_queue)}
        /\ In("TERM")' = In("TERM")
        /\ In("FREE")' = In("FREE")
    BY <2>1, <2>2, ResumeStep
  <2>7. TypeOK'
    BY <1>0, <2>3, <2>4, <2>5, <2>6 DEF TypeOK
  <2>8. LinkedOnce'
    <3>1. ToSet(delay_queue') \subseteq ToSet(delay_queue)
      BY <2>4
    <3> QED  BY <1>0, <2>3, <2>4, <2>6, <3>1 DEF IInv, LinkedOnce
  <2>9. StateTellsQueue'
    BY <1>0, <2>3, <2>4, <2>6 DEF IInv, LinkedOnce, StateTellsQueue
  <2> QED  BY <1>0, <2>6, <2>7, <2>8, <2>9 DEF IInv, BootInv, IdleInv
<1>2. ASSUME clock_sched PROVE IInv'
  <2>1. /\ CountDown(Len(delay_queue))
        /\ task_sched
        /\ UNCHANGED delay_queue
    BY <1>2 DEF clock_sched
  <2>2. files1' \in [Task -> Nat]
    BY <1>0, <2>1, CountDownType DEF TypeOK
  <2>3. /\ current' \in Task
        /\ state' \in [Task -> States]
        /\ running_queue' \in Seq(Task)
        /\ IsInjective(running_queue')
        /\ current' \notin ToSet(running_queue')
        /\ ~ Booting'
        /\ term_queue' = <<>>
        /\ task_list' \subseteq Task
        /\ In("RUNNING")' = {current', KernelLoop} \cup ToSet(running_queue')
        /\ In("WAIT")' = In("WAIT")
        /\ In("TERM")' = {}
        /\ task_list' = Task \ In("FREE")'
    BY <2>1, SchedStep
  <2>4. TypeOK'
    <3>1. term_queue' \in Seq(Task)
      BY <2>3
    <3> QED  BY <1>0, <2>1, <2>2, <2>3, <3>1 DEF TypeOK
  <2>5. LinkedOnce'
    BY <1>0, <2>1, <2>3, EmptyElems DEF IInv, LinkedOnce
  <2>6. StateTellsQueue'
    BY <1>0, <2>1, <2>3, EmptyElems DEF IInv, StateTellsQueue
  <2> QED  BY <1>0, <2>3, <2>4, <2>5, <2>6 DEF IInv, BootInv, IdleInv
<1> QED  BY <1>1, <1>2 DEF clock_handler

\* task_suspend on delay_queue.
LEMMA DelayStep == IInv /\ (\E us \in Delays : sys_delay(us)) => IInv'
<1> SUFFICES ASSUME IInv, NEW us \in Delays, sys_delay(us) PROVE IInv'
  OBVIOUS
<1> USE SchedAssumption
<1>1. current # KernelLoop /\ state[current] = "RUNNING" /\ TypeOK
  BY DEF IInv, IdleInv, sys_delay, StateTellsQueue, In
<1>2. /\ state' = [state EXCEPT ![current] = "WAIT"]
      /\ current' = First(running_queue)
      /\ running_queue' = Rest(running_queue)
      /\ delay_queue' = Append(delay_queue, current)
      /\ delay' = [delay EXCEPT ![current] = us]
      /\ UNCHANGED <<task_list, term_queue, wait_queue, files1, ctx>>
  BY DEF sys_delay, task_suspend
<1>3. /\ current' \in Task
      /\ state' \in [Task -> States]
      /\ running_queue' \in Seq(Task)
      /\ IsInjective(running_queue')
      /\ ~ Booting'
      /\ current' \notin ToSet(running_queue')
      /\ In("RUNNING")' = {current', KernelLoop} \cup ToSet(running_queue')
      /\ In("WAIT")' = In("WAIT") \cup {current}
      /\ In("TERM")' = In("TERM")
      /\ In("FREE")' = In("FREE")
  BY <1>1, <1>2, LeaveStep
<1>4. current \notin ToSet(delay_queue) \cup ToSet(wait_queue)
  BY <1>1 DEF IInv, StateTellsQueue, In
<1>5. /\ delay_queue' \in Seq(Task)
      /\ ToSet(delay_queue') = ToSet(delay_queue) \cup {current}
      /\ IsInjective(delay_queue')
  BY <1>1, <1>2, <1>4, AppendElems DEF IInv, LinkedOnce, TypeOK
<1>6. TypeOK'
  <2>1. delay' \in [Task -> Nat]
    BY <1>1, <1>2 DEF TypeOK
  <2> QED  BY <1>1, <1>2, <1>3, <1>5, <2>1 DEF TypeOK
<1>7. LinkedOnce'
  BY <1>2, <1>3, <1>4, <1>5 DEF IInv, LinkedOnce
<1>8. StateTellsQueue'
  BY <1>2, <1>3, <1>5 DEF IInv, StateTellsQueue
<1> QED  BY <1>2, <1>3, <1>6, <1>7, <1>8 DEF IInv, BootInv, IdleInv

\* task_suspend on wait_queue.
LEMMA ReadStep == IInv /\ do_read_async => IInv'
<1> SUFFICES ASSUME IInv, do_read_async PROVE IInv'
  OBVIOUS
<1> USE SchedAssumption
<1>1. current # KernelLoop /\ state[current] = "RUNNING" /\ TypeOK
  BY DEF IInv, IdleInv, do_read_async, StateTellsQueue, In
<1>2. /\ state' = [state EXCEPT ![current] = "WAIT"]
      /\ current' = First(running_queue)
      /\ running_queue' = Rest(running_queue)
      /\ wait_queue' = Append(wait_queue, current)
      /\ ctx' = [ctx EXCEPT ![current] = "hd"]
      /\ UNCHANGED <<task_list, term_queue, delay_queue, delay, files1>>
  BY DEF do_read_async, task_suspend
<1>3. /\ current' \in Task
      /\ state' \in [Task -> States]
      /\ running_queue' \in Seq(Task)
      /\ IsInjective(running_queue')
      /\ ~ Booting'
      /\ current' \notin ToSet(running_queue')
      /\ In("RUNNING")' = {current', KernelLoop} \cup ToSet(running_queue')
      /\ In("WAIT")' = In("WAIT") \cup {current}
      /\ In("TERM")' = In("TERM")
      /\ In("FREE")' = In("FREE")
  BY <1>1, <1>2, LeaveStep
<1>4. current \notin ToSet(delay_queue) \cup ToSet(wait_queue)
  BY <1>1 DEF IInv, StateTellsQueue, In
<1>5. /\ wait_queue' \in Seq(Task)
      /\ ToSet(wait_queue') = ToSet(wait_queue) \cup {current}
      /\ IsInjective(wait_queue')
  BY <1>1, <1>2, <1>4, AppendElems DEF IInv, LinkedOnce, TypeOK
<1>6. TypeOK' /\ IdleInv'
  BY <1>1, <1>2, <1>3, <1>5 DEF TypeOK, Contexts, IInv, IdleInv
<1>7. LinkedOnce'
  BY <1>2, <1>3, <1>4, <1>5 DEF IInv, LinkedOnce
<1>8. StateTellsQueue'
  BY <1>2, <1>3, <1>5 DEF IInv, StateTellsQueue
<1> QED  BY <1>3, <1>6, <1>7, <1>8 DEF IInv, BootInv

\* The disk interrupt resumes the first reader.
LEMMA HdIrqStep == IInv /\ hd_irq_handler => IInv'
<1> SUFFICES ASSUME IInv, hd_irq_handler PROVE IInv'
  OBVIOUS
<1> USE SchedAssumption
<1>1. /\ TypeOK
      /\ wait_queue \in Seq(Task)
      /\ wait_queue # <<>>
      /\ task_resume(wait_queue)
      /\ wait_queue' = Tail(wait_queue)
      /\ UNCHANGED <<task_list, term_queue, delay_queue, delay, files1, ctx>>
  BY DEF IInv, TypeOK, hd_irq_handler
<1>2. /\ current' \in Task
      /\ state' \in [Task -> States]
      /\ running_queue' \in Seq(Task)
      /\ IsInjective(running_queue')
      /\ current' \notin ToSet(running_queue')
      /\ ~ Booting'
      /\ In("RUNNING")' = {current', KernelLoop} \cup ToSet(running_queue')
      /\ In("WAIT")' = In("WAIT") \ {Head(wait_queue)}
      /\ In("TERM")' = In("TERM")
      /\ In("FREE")' = In("FREE")
  BY <1>1, ResumeStep
<1>3. /\ wait_queue' \in Seq(Task)
      /\ IsInjective(wait_queue')
      /\ ToSet(wait_queue') = ToSet(wait_queue) \ {Head(wait_queue)}
      /\ Head(wait_queue) \in ToSet(wait_queue)
  BY <1>1, TailElems DEF IInv, LinkedOnce
<1>4. TypeOK'
  BY <1>1, <1>2, <1>3 DEF TypeOK
<1>5. LinkedOnce'
  <2>1. ToSet(wait_queue') \subseteq ToSet(wait_queue)
    BY <1>3
  <2> QED  BY <1>1, <1>2, <1>3, <2>1 DEF IInv, LinkedOnce
<1>6. StateTellsQueue'
  BY <1>1, <1>2, <1>3 DEF IInv, LinkedOnce, StateTellsQueue
<1> QED  BY <1>1, <1>2, <1>4, <1>5, <1>6 DEF IInv, BootInv, IdleInv

\* sys_exit and the exceptions: task_term(current).
LEMMA TermStep == IInv /\ (sys_exit \/ exception) => IInv'
<1> SUFFICES ASSUME IInv, sys_exit \/ exception PROVE IInv'
  OBVIOUS
<1> USE SchedAssumption
<1>1. current # KernelLoop /\ state[current] = "RUNNING" /\ TypeOK
  BY DEF IInv, IdleInv, sys_exit, exception, StateTellsQueue, In
<1>2. /\ state' = [state EXCEPT ![current] = "TERM"]
      /\ current' = First(running_queue)
      /\ running_queue' = Rest(running_queue)
      /\ term_queue' = Append(term_queue, current)
      /\ UNCHANGED <<task_list, delay_queue, wait_queue, delay, files1, ctx>>
  BY DEF sys_exit, exception, task_term, yield
<1>3. /\ current' \in Task
      /\ state' \in [Task -> States]
      /\ running_queue' \in Seq(Task)
      /\ IsInjective(running_queue')
      /\ ~ Booting'
      /\ current' \notin ToSet(running_queue')
      /\ In("RUNNING")' = {current', KernelLoop} \cup ToSet(running_queue')
      /\ In("WAIT")' = In("WAIT")
      /\ In("TERM")' = In("TERM") \cup {current}
      /\ In("FREE")' = In("FREE")
  BY <1>1, <1>2, LeaveStep
<1>4. current \notin ToSet(term_queue)
  BY <1>1 DEF IInv, StateTellsQueue, In
<1>5. /\ term_queue' \in Seq(Task)
      /\ ToSet(term_queue') = ToSet(term_queue) \cup {current}
      /\ IsInjective(term_queue')
  BY <1>1, <1>2, <1>4, AppendElems DEF IInv, LinkedOnce, TypeOK
<1>6. TypeOK'
  BY <1>1, <1>2, <1>3, <1>5 DEF TypeOK
<1>7. LinkedOnce'
  BY <1>2, <1>3, <1>5 DEF IInv, LinkedOnce
<1>8. StateTellsQueue'
  BY <1>2, <1>3, <1>5 DEF IInv, StateTellsQueue
<1> QED  BY <1>2, <1>3, <1>6, <1>7, <1>8 DEF IInv, BootInv, IdleInv

\* sys_clone: a struct that is not in use becomes runnable.
LEMMA CloneStep == IInv /\ (\E t \in Task : sys_clone(t)) => IInv'
<1> SUFFICES ASSUME IInv, NEW t \in Task, sys_clone(t) PROVE IInv'
  OBVIOUS
<1> USE SchedAssumption
<1>1. /\ TypeOK
      /\ state[t] = "FREE"
      /\ current # KernelLoop
      /\ current \notin ToSet(running_queue)
  BY DEF IInv, IdleInv, LinkedOnce, Booting, sys_clone
<1>2. /\ state' = [state EXCEPT ![t] = "RUNNING"]
      /\ task_list' = task_list \cup {t}
      /\ running_queue' = Append(running_queue, t)
      /\ delay' = [delay EXCEPT ![t] = 0]
      /\ files1' = [files1 EXCEPT ![t] = files1[current]]
      /\ ctx' = [ctx EXCEPT ![t] = "user"]
      /\ UNCHANGED <<current, term_queue, delay_queue, wait_queue>>
  BY DEF sys_clone, task_start
<1>3. t # KernelLoop /\ t # current /\ t \notin ToSet(running_queue)
  BY <1>1 DEF IInv, StateTellsQueue, In
<1>4. /\ running_queue' \in Seq(Task)
      /\ ToSet(running_queue') = ToSet(running_queue) \cup {t}
      /\ IsInjective(running_queue')
  BY <1>1, <1>2, <1>3, AppendElems DEF IInv, LinkedOnce, TypeOK
<1>5. /\ In("RUNNING")' = In("RUNNING") \cup {t}
      /\ In("WAIT")' = In("WAIT")
      /\ In("TERM")' = In("TERM")
      /\ In("FREE")' = In("FREE") \ {t}
  BY <1>1, <1>2 DEF In, TypeOK
<1>6. TypeOK'
  <2>1. state' \in [Task -> States] /\ ctx' \in [Task -> Contexts]
    BY <1>1, <1>2 DEF TypeOK, States, Contexts
  <2>2. delay' \in [Task -> Nat] /\ files1' \in [Task -> Nat]
    BY <1>1, <1>2 DEF TypeOK
  <2> QED  BY <1>1, <1>2, <1>4, <2>1, <2>2 DEF TypeOK
<1>7. LinkedOnce'
  BY <1>1, <1>2, <1>3, <1>4 DEF IInv, LinkedOnce
<1>8. StateTellsQueue'
  BY <1>2, <1>4, <1>5 DEF IInv, StateTellsQueue
<1>9. BootInv' /\ IdleInv'
  BY <1>1, <1>2, <1>3 DEF IInv, BootInv, IdleInv, Booting, TypeOK
<1> QED  BY <1>6, <1>7, <1>8, <1>9 DEF IInv

\* yield() in ttyd, in the boot loader or in a blocking read of the tty.
LEMMA YieldActionStep == IInv /\ Yield => IInv'
<1> SUFFICES ASSUME IInv, Yield PROVE IInv'
  OBVIOUS
<1>1. current # KernelLoop /\ state[current] = "RUNNING" /\ TypeOK
  BY DEF IInv, IdleInv, Yield, StateTellsQueue, In, TypeOK
<1>2. /\ yield(TRUE)
      /\ UNCHANGED <<state, task_list, term_queue, delay_queue, wait_queue>>
      /\ UNCHANGED <<delay, files1, ctx>>
  BY DEF Yield
<1>3. /\ current' \in Task
      /\ running_queue' \in Seq(Task)
      /\ (LinkedOnce /\ StateTellsQueue /\ BootInv)'
  BY <1>1, <1>2, YieldStep
<1>4. TypeOK' /\ IdleInv'
  BY <1>1, <1>2, <1>3 DEF TypeOK, IInv, IdleInv
<1> QED  BY <1>3, <1>4 DEF IInv

\* The steps that leave the queues alone: the end of a read, the jump to
\* ring 3, and the changes of a file descriptor.
LEMMA LocalStep ==
    IInv /\ (read_done \/ Enter \/ (\E f \in FilePtr : sys_open(f)) \/ sys_close)
      => IInv'
<1> SUFFICES ASSUME IInv,
                    read_done \/ Enter \/ (\E f \in FilePtr : sys_open(f)) \/ sys_close
             PROVE  IInv'
  OBVIOUS
<1>1. /\ UNCHANGED <<current, state, task_list, queues, delay>>
      /\ TypeOK
      /\ current \in Task
  BY DEF read_done, Enter, sys_open, sys_close, IInv, TypeOK
<1>2. UNCHANGED <<running_queue, term_queue, delay_queue, wait_queue>>
  BY <1>1 DEF queues
<1>3. ctx' \in [Task -> Contexts] /\ ctx'[KernelLoop] = "idle"
  <2>1. KernelLoop \in Task /\ ctx \in [Task -> Contexts] /\ ctx[KernelLoop] = "idle"
    BY SchedAssumption DEF IInv, TypeOK, IdleInv
  <2>2. \/ ctx' = ctx
        \/ ctx[current] \in {"hd", "boot"}
           /\ \E c \in {"boot", "user"} : ctx' = [ctx EXCEPT ![current] = c]
    BY DEF read_done, Enter, sys_open, sys_close
  <2> QED  BY <1>1, <2>1, <2>2 DEF Contexts
<1>4. files1' \in [Task -> Nat]
  <2>1. FilePtr \subseteq Nat
    BY SchedAssumption
  <2> QED  BY <1>1, <2>1 DEF read_done, Enter, sys_open, sys_close, TypeOK
<1>5. TypeOK'
  BY <1>1, <1>2, <1>3, <1>4 DEF TypeOK
<1>6. (LinkedOnce /\ StateTellsQueue /\ BootInv)'
  BY <1>1, <1>2 DEF IInv, LinkedOnce, StateTellsQueue, BootInv, Booting, In
<1> QED  BY <1>3, <1>5, <1>6 DEF IInv, IdleInv

\* Every step of the scheduler preserves the inductive invariant.
LEMMA NextInv == IInv /\ [Next]_vars => IInv'
<1>1. IInv /\ UNCHANGED vars => IInv'
  <2> SUFFICES ASSUME IInv, UNCHANGED vars PROVE IInv'
    OBVIOUS
  <2>1. UNCHANGED <<current, state, task_list, running_queue, term_queue,
                    delay_queue, wait_queue, delay, files1, ctx>>
    BY DEF vars, queues
  <2> QED  BY <2>1 DEF IInv, TypeOK, LinkedOnce, StateTellsQueue, BootInv,
                      IdleInv, Booting, In
<1> QED  BY <1>1, ClockStep, DelayStep, HdIrqStep, ReadStep, TermStep, CloneStep,
            YieldActionStep, LocalStep DEF Next

-----------------------------------------------------------------------------
(* The theorems. *)

\* The inductive invariant holds in every reachable state.
THEOREM Inductive == Spec => []IInv
BY InitInv, NextInv, PTL DEF Spec

\* Type correctness of the scheduler's state, for any number of tasks.
THEOREM TypeCorrect == Spec => []TypeOK
<1>1. IInv => TypeOK
  BY DEF IInv
<1> QED  BY <1>1, Inductive, PTL

\* For any number of tasks and any interleaving of ticks, disk interrupts,
\* yields and system calls, no task is lost or linked twice (sched.c).
THEOREM QueuesCorrect == Spec => []QueueInv
<1>1. IInv => QueueInv
  BY DEF IInv, QueueInv
<1> QED  BY <1>1, Inductive, PTL

\* do_term_task never frees the task whose stack the CPU is using, nor the
\* one it switches to (sched.c task_sched).
THEOREM ReapSafe == Spec => ReapedOffCpu
<1>1. ASSUME IInv, IInv', [Next]_vars, NEW t \in Task,
             state[t] # "FREE", state'[t] = "FREE"
      PROVE  state[t] = "TERM" /\ t \notin {current, current'}
  <2>1. TypeOK /\ t \in Task /\ state \in [Task -> States]
    BY <1>1 DEF IInv, TypeOK
  <2>2. state[current] = "RUNNING" /\ state'[current'] = "RUNNING"
    BY <1>1 DEF IInv, StateTellsQueue, In
  <2>3. state[t] = "TERM"
    <3>1. CASE task_sched
      <4>1. t \in ToSet(term_queue)
        BY <1>1, <3>1 DEF task_sched
      <4> QED  BY <1>1, <4>1 DEF IInv, StateTellsQueue, In
    <3>2. CASE UNCHANGED state
      BY <1>1, <3>2
    <3>3. CASE \E u \in Task, s \in {"RUNNING", "WAIT", "TERM"} :
                 state' = [state EXCEPT ![u] = s]
      BY <1>1, <2>1, <3>3
    <3>4. \/ task_sched
          \/ UNCHANGED state
          \/ \E u \in Task, s \in {"RUNNING", "WAIT", "TERM"} :
                 state' = [state EXCEPT ![u] = s]
      <4>1. current \in Task
        BY <1>1 DEF IInv, TypeOK
      <4>2. ASSUME NEW q \in {delay_queue, wait_queue}, q # <<>>, task_resume(q)
            PROVE  \E u \in Task : state' = [state EXCEPT ![u] = "RUNNING"]
        <5>1. Head(q) \in Task
          BY <1>1, <4>2, TailElems DEF IInv, TypeOK
        <5> QED  BY <4>2, <5>1 DEF task_resume
      <4>3. CASE clock_handler
        <5>1. clock_resume => delay_queue # <<>> /\ task_resume(delay_queue)
          BY EmptyElems DEF clock_resume
        <5> QED  BY <4>2, <4>3, <5>1 DEF clock_handler, clock_sched
      <4>4. CASE hd_irq_handler
        BY <4>2, <4>4 DEF hd_irq_handler
      <4>5. CASE do_read_async \/ \E us \in Delays : sys_delay(us)
        BY <4>1, <4>5 DEF do_read_async, sys_delay, task_suspend
      <4>6. CASE sys_exit \/ exception
        BY <4>1, <4>6 DEF sys_exit, exception, task_term
      <4>7. CASE \E u \in Task : sys_clone(u)
        BY <4>7 DEF sys_clone, task_start
      <4>8. CASE \/ read_done \/ Yield \/ Enter \/ sys_close
                 \/ \E f \in FilePtr : sys_open(f)
        BY <4>8 DEF read_done, Yield, Enter, sys_close, sys_open
      <4>9. CASE UNCHANGED vars
        BY <4>9 DEF vars
      <4> QED  BY <1>1, <4>3, <4>4, <4>5, <4>6, <4>7, <4>8, <4>9 DEF Next
    <3> QED  BY <3>1, <3>2, <3>3, <3>4
  <2> QED  BY <1>1, <2>2, <2>3
<1>2. IInv /\ IInv' /\ [Next]_vars =>
        [\A t \in Task : state[t] # "FREE" /\ state'[t] = "FREE"
          => /\ state[t] = "TERM"
             /\ t \notin {current, current'}]_vars
  BY <1>1
<1> QED  BY <1>2, Inductive, PTL DEF Spec, ReapedOffCpu
=============================================================================
