--------------------------- MODULE PfsTaskProofs ----------------------------
(***************************************************************************)
(* Proofs about the task queues of network/pfs_task.c, for every set of    *)
(* records, threads and queues.                                            *)
(***************************************************************************)
EXTENDS PfsTask, TLAPS

-----------------------------------------------------------------------------
\* What the list primitives do to the members of a list without repetitions.

\* An empty list has no member.
LEMMA EmptyFacts == \A t : ~ On(<< >>, t)
<1>1. DOMAIN << >> = 1..0
  OBVIOUS
<1> QED BY <1>1 DEF On

\* list_del_init removes t and nothing else.
LEMMA ListDelFacts ==
    ASSUME NEW S, NEW s \in Seq(S), NEW t, Distinct(s)
    PROVE  /\ ListDel(s, t) \in Seq(S)
           /\ Distinct(ListDel(s, t))
           /\ \A x : On(ListDel(s, t), x) <=> On(s, x) /\ x # t
           /\ Len(ListDel(s, t)) = IF On(s, t) THEN Len(s) - 1 ELSE Len(s)
<1>1. CASE ~ On(s, t)
  BY <1>1 DEF ListDel, On
<1>2. CASE On(s, t)
  <2> DEFINE k == CHOOSE i \in DOMAIN s : s[i] = t
             d == [i \in 1..(Len(s) - 1) |-> IF i < k THEN s[i] ELSE s[i + 1]]
  <2>1. k \in 1..Len(s) /\ s[k] = t
    BY <1>2 DEF On
  <2>2. ListDel(s, t) = d
    BY <1>2 DEF ListDel
  <2> HIDE DEF k
  <2>3. d \in Seq(S) /\ Len(d) = Len(s) - 1 /\ DOMAIN d = 1..(Len(s) - 1)
    BY <2>1
  <2>4. \A i \in DOMAIN d : d[i] = IF i < k THEN s[i] ELSE s[i + 1]
    BY <2>1, <2>3
  <2>5. Distinct(d)
    BY <2>1, <2>3, <2>4 DEF Distinct
  <2>6. ASSUME NEW x PROVE On(d, x) <=> On(s, x) /\ x # t
    <3>1. ASSUME On(d, x) PROVE On(s, x) /\ x # t
      BY <2>1, <2>3, <2>4, <3>1 DEF On, Distinct
    <3>2. ASSUME On(s, x), x # t PROVE On(d, x)
      <4>1. PICK j \in 1..Len(s) : s[j] = x
        BY <3>2 DEF On
      <4>2. j # k
        BY <4>1, <2>1, <3>2
      <4>3. CASE j < k
        <5>1. j \in DOMAIN d /\ d[j] = x
          BY <4>1, <4>3, <2>1, <2>3, <2>4
        <5> QED BY <5>1 DEF On
      <4>4. CASE j > k
        <5>1. j - 1 \in DOMAIN d /\ d[j - 1] = x
          BY <4>1, <4>4, <2>1, <2>3, <2>4
        <5> QED BY <5>1 DEF On
      <4> QED BY <4>1, <4>2, <4>3, <4>4, <2>1
    <3> QED BY <3>1, <3>2
  <2> QED BY <2>2, <2>3, <2>5, <2>6, <1>2
<1> QED BY <1>1, <1>2

\* list_add_tail adds t.
LEMMA AppendFacts ==
    ASSUME NEW S, NEW s \in Seq(S), NEW t \in S, Distinct(s), ~ On(s, t)
    PROVE  /\ Append(s, t) \in Seq(S)
           /\ Distinct(Append(s, t))
           /\ \A x : On(Append(s, t), x) <=> On(s, x) \/ x = t
           /\ Len(Append(s, t)) = Len(s) + 1
<1>1. /\ Append(s, t) \in Seq(S) /\ Len(Append(s, t)) = Len(s) + 1
      /\ DOMAIN Append(s, t) = 1..(Len(s) + 1)
      /\ \A i \in 1..Len(s) : Append(s, t)[i] = s[i]
      /\ Append(s, t)[Len(s) + 1] = t
  OBVIOUS
<1>2. Distinct(Append(s, t))
  BY <1>1 DEF Distinct, On
<1>3. \A x : On(Append(s, t), x) <=> On(s, x) \/ x = t
  BY <1>1 DEF On
<1> QED BY <1>1, <1>2, <1>3

\* Popping the head removes it and nothing else.
LEMMA TailFacts ==
    ASSUME NEW S, NEW s \in Seq(S), Distinct(s), s # << >>
    PROVE  /\ Head(s) \in S /\ On(s, Head(s))
           /\ Tail(s) \in Seq(S)
           /\ Distinct(Tail(s))
           /\ \A x : On(Tail(s), x) <=> On(s, x) /\ x # Head(s)
           /\ Len(Tail(s)) = Len(s) - 1
<1>1. /\ Len(s) \in Nat \ {0} /\ Head(s) = s[1] /\ Tail(s) \in Seq(S)
      /\ Len(Tail(s)) = Len(s) - 1
      /\ DOMAIN Tail(s) = 1..(Len(s) - 1)
      /\ \A i \in 1..(Len(s) - 1) : Tail(s)[i] = s[i + 1]
  OBVIOUS
<1>2. Distinct(Tail(s))
  BY <1>1 DEF Distinct
<1>3. ASSUME NEW x PROVE On(Tail(s), x) <=> On(s, x) /\ x # Head(s)
  <2>1. ASSUME On(Tail(s), x) PROVE On(s, x) /\ x # Head(s)
    BY <1>1, <2>1 DEF On, Distinct
  <2>2. ASSUME On(s, x), x # Head(s) PROVE On(Tail(s), x)
    <3>1. PICK j \in 1..Len(s) : s[j] = x
      BY <2>2 DEF On
    <3>2. j - 1 \in 1..(Len(s) - 1) /\ Tail(s)[j - 1] = x
      BY <3>1, <2>2, <1>1
    <3> QED BY <3>2, <1>1, Zenon DEF On
  <2> QED BY <2>1, <2>2
<1>4. Head(s) \in S /\ On(s, Head(s))
  BY <1>1 DEF On
<1> QED BY <1>1, <1>2, <1>3, <1>4
-----------------------------------------------------------------------------
\* The inductive invariant.

USE DEF Stamp

\* init_task_info establishes the invariant.
LEMMA InitIInv == Init => IInv
<1> SUFFICES ASSUME Init PROVE IInv
  OBVIOUS
<1> USE PoolAssumption, ThreadAssumption, QueueAssumption DEF Init
<1>0. Pool \subseteq Task /\ NoCall \in Call /\ << >> \in Seq(Task)
  BY DEF Pool, Call, NoCall
<1>1. TypeOK
  BY <1>0 DEF TypeOK
<1>2. LockInv /\ CallInv
  BY DEF LockInv, CallInv, Inside
<1>3. \A q \in Queue : Distinct(pfstask[q])
  BY DEF Distinct
<1>4. \A q \in Queue, t \in Task : On(pfstask[q], t) <=> q = TASK_Q_HOME /\ t \in Pool
  <2>1. \A t \in Task : On(taskall, t) <=> t \in Pool
    BY Zenon DEF On, Pool
  <2> QED BY <2>1, EmptyFacts, Zenon
<1>5. ListInv
  BY <1>3, <1>4 DEF ListInv
<1>6. HandInv
  BY <1>4 DEF HandInv, Linked, Pool
<1>7. PoolInv
  BY <1>0, Zenon DEF PoolInv
<1>8. CountExact
  BY DEF CountExact
<1> QED BY <1>1, <1>2, <1>5, <1>6, <1>7, <1>8 DEF IInv

\* Entering a mutex changes no list.
LEMMA EnterIInv ==
    ASSUME IInv, NEW th \in Thread, NEW c \in Call, Enter(th, c),
           c.q \in Parking => th = Data /\ c.op = "set",
           c.op = "set" => c.t \in hand[th]
    PROVE  IInv'
<1> USE ThreadAssumption, QueueAssumption DEF IInv, Enter, shared
<1>1. TypeOK'
  BY ZenonT(30) DEF TypeOK, Lock, Call
<1>2. LockInv'
  <2>1. c.q \in Queue /\ mutex[c.q] = NoThread /\ pc[th] = "idle"
    BY DEF Lock, Call
  <2>2. \A o \in Thread \ {th} : pc'[o] = pc[o] /\ call'[o] = call[o]
    BY DEF TypeOK
  <2>3. pc'[th] = "in" /\ call'[th] = c
    BY DEF TypeOK
  <2>4. mutex'[c.q] = th /\ \A q \in Queue \ {c.q} : mutex'[q] = mutex[q]
    BY <2>1 DEF TypeOK, Lock
  <2>5. \A o \in Thread : call[o].q \in Queue
    BY DEF TypeOK, Call
  <2>6. \A q \in Queue : mutex[q] \in Thread \cup {NoThread}
    BY DEF TypeOK
  <2> QED BY <2>1, <2>2, <2>3, <2>4, <2>5, <2>6 DEF LockInv
<1>3. CallInv'
  BY DEF CallInv, TypeOK, Inside
<1>4. ListInv' /\ HandInv' /\ PoolInv' /\ CountExact'
  BY DEF ListInv, HandInv, PoolInv, CountExact, Linked
<1> QED BY <1>1, <1>2, <1>3, <1>4

\* Leaving a mutex keeps the lock invariant.
LEMMA LeaveLock ==
    ASSUME IInv, NEW th \in Thread, pc[th] = "in", Leave(th)
    PROVE  LockInv' /\ mutex' \in [Queue -> Thread \cup {NoThread}]
           /\ pc' \in [Thread -> {"idle", "in", "nest", "nestin"}]
           /\ call' \in [Thread -> Call]
<1> USE ThreadAssumption, QueueAssumption, PoolAssumption DEF IInv, Leave, Unlock
<1> DEFINE q0 == call[th].q
<1>1. q0 \in Queue /\ mutex[q0] = th
  BY DEF TypeOK, Call, LockInv
<1>2. /\ pc'[th] = "idle" /\ \A o \in Thread \ {th} : pc'[o] = pc[o] /\ call'[o] = call[o]
      /\ mutex'[q0] = NoThread /\ \A q \in Queue \ {q0} : mutex'[q] = mutex[q]
  BY <1>1 DEF TypeOK
<1>3. \A o \in Thread : call[o].q \in Queue
  BY DEF TypeOK, Call
<1>4. \A q \in Queue : mutex[q] \in Thread \cup {NoThread}
  BY DEF TypeOK
<1>5. LockInv'
  BY <1>1, <1>2, <1>3, <1>4 DEF LockInv
<1>6. NoCall \in Call
  BY DEF NoCall, Call
<1> QED BY <1>5, <1>6, Zenon DEF TypeOK
LEMMA SameDifference ==
    ASSUME NEW a \in Int, NEW b \in Int, NEW a1 \in Int, NEW b1 \in Int, NEW k \in Int
    PROVE  /\ a1 + b = a + b1 /\ a + k = b => a1 + k = b1
           /\ a1 + b = a + b1 /\ a = b => a1 = b1
           /\ a1 + b >= a + b1 /\ a >= b => a1 >= b1
OBVIOUS

\* The counters keep their relation to the lists when both change alike.
LEMMA CountKept ==
    ASSUME TypeOK, CountExact,
           pfstask' \in [Queue -> Seq(Task)], taskcount' \in [Queue -> Int],
           \A q \in Queue \ Parking :
               taskcount'[q] + Len(pfstask[q]) = taskcount[q] + Len(pfstask'[q]),
           \A q \in Parking :
               taskcount'[q] + Len(pfstask[q]) >= taskcount[q] + Len(pfstask'[q])
    PROVE  CountExact'
<1>1. /\ Len(taskall) \in Nat
      /\ \A q \in Queue : /\ Len(pfstask[q]) \in Nat /\ Len(pfstask'[q]) \in Nat
                          /\ taskcount[q] \in Int /\ taskcount'[q] \in Int
  BY PoolAssumption DEF TypeOK
<1>2. Parking \subseteq Queue /\ TASK_Q_HOME \in Queue \ Parking
  BY QueueAssumption
<1>3. ASSUME NEW q \in Queue \ (Parking \cup {TASK_Q_HOME})
      PROVE  taskcount'[q] = Len(pfstask'[q])
  <2>1. /\ taskcount[q] = Len(pfstask[q])
        /\ taskcount'[q] + Len(pfstask[q]) = taskcount[q] + Len(pfstask'[q])
        /\ q \in Queue
    BY DEF CountExact
  <2>2. /\ taskcount[q] \in Int /\ taskcount'[q] \in Int
        /\ Len(pfstask[q]) \in Int /\ Len(pfstask'[q]) \in Int /\ Len(taskall) \in Int
    BY <1>1, <2>1
  <2> QED BY <2>1, <2>2, SameDifference
<1>4. taskcount'[TASK_Q_HOME] + Len(taskall) = Len(pfstask'[TASK_Q_HOME])
  <2> DEFINE a == taskcount[TASK_Q_HOME]
             b == Len(pfstask[TASK_Q_HOME])
             a1 == taskcount'[TASK_Q_HOME]
             b1 == Len(pfstask'[TASK_Q_HOME])
             k == Len(taskall)
  <2>1. a + k = b /\ a1 + b = a + b1
    BY <1>2 DEF CountExact
  <2>2. a \in Int /\ b \in Int /\ a1 \in Int /\ b1 \in Int /\ k \in Int
    BY <1>1, <1>2
  <2> HIDE DEF a, b, a1, b1, k
  <2>3. a1 + k = b1
    BY <2>1, <2>2, SameDifference
  <2> QED BY <2>3 DEF a1, b1, k
<1>5. ASSUME NEW q \in Parking PROVE taskcount'[q] >= Len(pfstask'[q])
  <2>1. /\ taskcount[q] >= Len(pfstask[q])
        /\ taskcount'[q] + Len(pfstask[q]) >= taskcount[q] + Len(pfstask'[q])
        /\ q \in Queue
    BY <1>2 DEF CountExact
  <2>2. /\ taskcount[q] \in Int /\ taskcount'[q] \in Int
        /\ Len(pfstask[q]) \in Int /\ Len(pfstask'[q]) \in Int /\ Len(taskall) \in Int
    BY <1>1, <2>1
  <2> QED BY <2>1, <2>2, SameDifference
<1> QED BY <1>3, <1>4, <1>5 DEF CountExact

-----------------------------------------------------------------------------
\* pfs_get_task.

LEMMA GetHeadIInv == ASSUME IInv, NEW th \in Thread, GetHead(th) PROVE IInv'
<1> DEFINE q0 == call[th].q
           t0 == Head(pfstask[q0])
<1> USE ThreadAssumption, QueueAssumption
<1>0. /\ TypeOK /\ LockInv /\ CallInv /\ ListInv /\ HandInv /\ PoolInv /\ CountExact
      /\ q0 \in Queue /\ q0 \notin Parking /\ pc[th] = "in" /\ call[th].op = "get"
  BY Zenon DEF IInv, GetHead, Inside, TypeOK, Call, CallInv
<1>1. /\ t0 \in Task /\ On(pfstask[q0], t0)
      /\ Tail(pfstask[q0]) \in Seq(Task) /\ Distinct(Tail(pfstask[q0]))
      /\ \A x : On(Tail(pfstask[q0]), x) <=> On(pfstask[q0], x) /\ x # t0
      /\ Len(Tail(pfstask[q0])) = Len(pfstask[q0]) - 1
  <2>1. pfstask[q0] \in Seq(Task) /\ Distinct(pfstask[q0]) /\ pfstask[q0] # << >>
    BY <1>0 DEF TypeOK, ListInv, GetHead
  <2> QED BY <2>1, TailFacts
<1>2. /\ pfstask' = [pfstask EXCEPT ![q0] = Tail(pfstask[q0])]
      /\ taskcount' = [taskcount EXCEPT ![q0] = taskcount[q0] - 1]
      /\ status' = [status EXCEPT ![t0] = TASK_Q_UNKNOWN]
      /\ hand' = [hand EXCEPT ![th] = hand[th] \cup {t0}]
      /\ last' = last /\ heap' = heap /\ lost' = lost /\ Leave(th)
  BY DEF GetHead
<1> HIDE DEF q0, t0
<1>3. LockInv' /\ TypeOK'
  BY <1>0, <1>1, <1>2, LeaveLock DEF TypeOK, IInv
<1>4. \A p \in Queue, x \in Task : On(pfstask'[p], x) <=> On(pfstask[p], x) /\ x # t0
  BY <1>0, <1>1, <1>2 DEF TypeOK, ListInv
<1>5. /\ t0 \in heap \ lost /\ \A o \in Thread : t0 \notin hand[o]
      /\ status[t0] = q0 /\ \A p \in Queue : On(pfstask[p], t0) => p = q0
  BY <1>0, <1>1 DEF ListInv
<1>6. CallInv'
  <2>1. \A o \in Thread \ {th} : pc'[o] = pc[o] /\ call'[o] = call[o] /\ hand'[o] = hand[o]
    BY <1>0, <1>2 DEF TypeOK, Leave
  <2>2. pc'[th] = "idle"
    BY <1>0, <1>2 DEF TypeOK, Leave
  <2>3. \A x \in Task \ {t0} : status'[x] = status[x]
    BY <1>0, <1>2 DEF TypeOK
  <2>4. \A o \in Thread : hand[o] \subseteq Task
    BY <1>0 DEF TypeOK
  <2> QED BY <1>0, <1>5, <2>1, <2>2, <2>3, <2>4 DEF CallInv, Inside
<1>7. ListInv'
  <2>1. \A p \in Queue : Distinct(pfstask'[p])
    BY <1>0, <1>1, <1>2 DEF TypeOK, ListInv
  <2>2. \A x \in Task \ {t0} : status'[x] = status[x] /\ \A o \in Thread : x \in hand'[o] <=> x \in hand[o]
    BY <1>0, <1>2 DEF TypeOK
  <2> QED BY <1>0, <1>2, <1>4, <2>1, <2>2 DEF ListInv
<1>8. HandInv'
  <2>1. hand'[th] = hand[th] \cup {t0} /\ \A o \in Thread \ {th} : hand'[o] = hand[o]
    BY <1>0, <1>2 DEF TypeOK
  <2>2. heap \subseteq Task
    BY <1>0 DEF TypeOK
  <2> QED BY <1>0, <1>2, <1>4, <1>5, <2>1, <2>2 DEF HandInv, Linked
<1>9. PoolInv'
  BY <1>0, <1>2 DEF PoolInv
<1>10. CountExact'
  <2>0. pfstask' \in [Queue -> Seq(Task)] /\ taskcount' \in [Queue -> Int]
    BY <1>3 DEF TypeOK
  <2>1. /\ Len(pfstask'[q0]) = Len(pfstask[q0]) - 1 /\ taskcount'[q0] = taskcount[q0] - 1
        /\ \A p \in Queue \ {q0} : pfstask'[p] = pfstask[p] /\ taskcount'[p] = taskcount[p]
    BY <1>0, <1>1, <1>2 DEF TypeOK
  <2>2. \A p \in Queue : Len(pfstask[p]) \in Nat /\ taskcount[p] \in Int
    BY <1>0 DEF TypeOK
  <2>3. ASSUME NEW p \in Queue
        PROVE  /\ taskcount'[p] + Len(pfstask[p]) = taskcount[p] + Len(pfstask'[p])
               /\ taskcount'[p] + Len(pfstask[p]) >= taskcount[p] + Len(pfstask'[p])
    <3>1. CASE p = q0
      <4>1. /\ Len(pfstask[q0]) \in Nat /\ taskcount[q0] \in Int
            /\ Len(pfstask'[q0]) = Len(pfstask[q0]) - 1 /\ taskcount'[q0] = taskcount[q0] - 1
        BY <1>0, <2>1, <2>2
      <4> QED BY <3>1, <4>1
    <3>2. CASE p # q0
      BY <3>2, <2>1, <2>2
    <3> QED BY <3>1, <3>2
  <2> QED BY <1>0, <2>0, <2>3, CountKept
<1> QED BY <1>3, <1>6, <1>7, <1>8, <1>9, <1>10 DEF IInv

LEMMA GetMallocIInv == ASSUME IInv, NEW th \in Thread, GetMalloc(th) PROVE IInv'
<1> USE ThreadAssumption, QueueAssumption
<1>0. /\ TypeOK /\ LockInv /\ CallInv /\ ListInv /\ HandInv /\ PoolInv /\ CountExact
      /\ pc[th] = "in" /\ Leave(th)
  BY DEF IInv, GetMalloc, Inside
<1>1. PICK t0 \in Task \ heap :
        /\ heap' = heap \cup {t0}
        /\ status' = [status EXCEPT ![t0] = TASK_Q_UNKNOWN]
        /\ last' = [last EXCEPT ![t0] = Stamp]
        /\ hand' = [hand EXCEPT ![th] = hand[th] \cup {t0}]
  BY Zenon DEF GetMalloc
<1>2. pfstask' = pfstask /\ taskcount' = taskcount /\ lost' = lost
  BY DEF GetMalloc
<1>3. LockInv' /\ TypeOK'
  BY <1>0, <1>1, <1>2, LeaveLock DEF TypeOK, IInv
<1>4. /\ \A o \in Thread : t0 \notin hand[o]
      /\ \A p \in Queue : ~ On(pfstask[p], t0)
      /\ t0 \notin lost /\ heap \subseteq Task
  BY <1>0, <1>1 DEF ListInv, HandInv, TypeOK
<1>5. /\ hand'[th] = hand[th] \cup {t0}
      /\ \A o \in Thread \ {th} : pc'[o] = pc[o] /\ call'[o] = call[o] /\ hand'[o] = hand[o]
      /\ pc'[th] = "idle"
      /\ \A x \in Task \ {t0} : status'[x] = status[x] /\ last'[x] = last[x]
  BY <1>0, <1>1 DEF TypeOK, Leave
<1>6. CallInv'
  <2>1. \A o \in Thread : hand[o] \subseteq Task
    BY <1>0 DEF TypeOK
  <2> QED BY <1>0, <1>4, <1>5, <2>1 DEF CallInv, Inside
<1>7. ListInv'
  BY <1>0, <1>1, <1>2, <1>4, <1>5 DEF ListInv
<1>8. HandInv'
  BY <1>0, <1>1, <1>2, <1>4, <1>5 DEF HandInv, Linked
<1>9. PoolInv' /\ CountExact'
  BY <1>0, <1>1, <1>2, <1>5 DEF PoolInv, CountExact, TypeOK
<1> QED BY <1>3, <1>6, <1>7, <1>8, <1>9 DEF IInv

\* An operation that only leaves the mutex.
LEMMA LeaveIInv ==
    ASSUME IInv, NEW th \in Thread, pc[th] = "in", Leave(th), UNCHANGED <<shared, hand, lost>>
    PROVE  IInv'
<1> USE ThreadAssumption, QueueAssumption
<1>0. TypeOK /\ LockInv /\ CallInv /\ ListInv /\ HandInv /\ PoolInv /\ CountExact
  BY DEF IInv
<1>1. LockInv' /\ TypeOK'
  BY <1>0, LeaveLock DEF TypeOK, IInv, shared
<1>2. CallInv'
  BY <1>0, ZenonT(30) DEF CallInv, Inside, Leave, TypeOK, shared
<1>3. ListInv' /\ HandInv' /\ PoolInv' /\ CountExact'
  BY <1>0 DEF ListInv, HandInv, PoolInv, CountExact, Linked, shared
<1> QED BY <1>1, <1>2, <1>3 DEF IInv
-----------------------------------------------------------------------------
\* pfs_set_task.

\* The body moves t, which its caller has, to the end of queue q: no shared
\* list loses a record, and the counters stay right.
LEMMA SetBodyFacts ==
    ASSUME IInv, NEW th \in Thread, NEW t \in hand[th], NEW q \in Queue, SetBody(t, q)
    PROVE  /\ t \in Task
           /\ pfstask' \in [Queue -> Seq(Task)] /\ taskcount' \in [Queue -> Int]
           /\ status' \in [Task -> Queue \cup {TASK_Q_UNKNOWN}] /\ last' \in [Task -> {-1, Stamp}]
           /\ heap' = heap
           /\ \A p \in Queue : Distinct(pfstask'[p])
           /\ \A p \in Queue, x \in Task :
                On(pfstask'[p], x) <=> IF x = t THEN p = q ELSE On(pfstask[p], x)
           /\ \A p \in Queue \ Parking :
                taskcount'[p] + Len(pfstask[p]) = taskcount[p] + Len(pfstask'[p])
           /\ \A p \in Parking :
                taskcount'[p] + Len(pfstask[p]) >= taskcount[p] + Len(pfstask'[p])
           /\ status'[t] = q /\ \A x \in Task \ {t} : status'[x] = status[x]
           /\ last' = last
<1> USE QueueAssumption, ThreadAssumption
<1>0. TypeOK /\ ListInv /\ HandInv /\ t \in Task
  BY DEF IInv, TypeOK
<1>1. \A p \in Queue : pfstask[p] \in Seq(Task) /\ Distinct(pfstask[p])
  BY <1>0 DEF TypeOK, ListInv
<1>2. ASSUME NEW p \in Queue
      PROVE  /\ ListDel(pfstask[p], t) \in Seq(Task) /\ Distinct(ListDel(pfstask[p], t))
             /\ \A x : On(ListDel(pfstask[p], t), x) <=> On(pfstask[p], x) /\ x # t
             /\ Len(ListDel(pfstask[p], t)) =
                    IF On(pfstask[p], t) THEN Len(pfstask[p]) - 1 ELSE Len(pfstask[p])
  BY <1>1, ListDelFacts
<1>3. /\ Append(ListDel(pfstask[q], t), t) \in Seq(Task)
      /\ Distinct(Append(ListDel(pfstask[q], t), t))
      /\ \A x : On(Append(ListDel(pfstask[q], t), t), x) <=> On(ListDel(pfstask[q], t), x) \/ x = t
      /\ Len(Append(ListDel(pfstask[q], t), t)) = Len(ListDel(pfstask[q], t)) + 1
  <2> DEFINE s == ListDel(pfstask[q], t)
  <2>1. s \in Seq(Task) /\ Distinct(s) /\ ~ On(s, t)
    BY <1>2, ZenonT(30)
  <2> HIDE DEF s
  <2>2. /\ Append(s, t) \in Seq(Task) /\ Distinct(Append(s, t))
        /\ \A x : On(Append(s, t), x) <=> On(s, x) \/ x = t
        /\ Len(Append(s, t)) = Len(s) + 1
    BY <1>0, <2>1, AppendFacts
  <2> QED BY <2>2 DEF s
<1>4. /\ pfstask'[q] = Append(ListDel(pfstask[q], t), t)
      /\ \A p \in Queue \ {q} : pfstask'[p] = ListDel(pfstask[p], t)
      /\ pfstask' = [p \in Queue |-> pfstask'[p]]
  BY DEF SetBody
<1>5. \A p \in Queue : On(pfstask[p], t) => p \in Parking
  BY <1>0 DEF ListInv
<1>6. pfstask' \in [Queue -> Seq(Task)] /\ \A p \in Queue : Distinct(pfstask'[p])
  BY <1>2, <1>3, <1>4, ZenonT(60)
<1>7. \A p \in Queue, x \in Task :
        On(pfstask'[p], x) <=> IF x = t THEN p = q ELSE On(pfstask[p], x)
  BY <1>2, <1>3, <1>4, ZenonT(30)
<1>8. /\ taskcount' \in [Queue -> Int] /\ taskcount'[q] = taskcount[q] + 1
      /\ \A p \in Queue \ {q} : taskcount'[p] = taskcount[p]
  BY <1>0 DEF SetBody, TypeOK
<1>9. \A p \in Queue : Len(pfstask[p]) \in Nat /\ taskcount[p] \in Int
  BY <1>0, <1>1 DEF TypeOK
<1>10. ASSUME NEW p \in Queue \ Parking
       PROVE  taskcount'[p] + Len(pfstask[p]) = taskcount[p] + Len(pfstask'[p])
  <2>1. Len(ListDel(pfstask[p], t)) = Len(pfstask[p])
    BY <1>2, <1>5
  <2>2. CASE p = q
    <3>1. Len(pfstask'[p]) = Len(pfstask[p]) + 1 /\ taskcount'[p] = taskcount[p] + 1
      BY <2>1, <2>2, <1>3, <1>4, <1>8
    <3>2. Len(pfstask[p]) \in Int /\ taskcount[p] \in Int
      BY <1>9
    <3> HIDE QueueAssumption
    <3> QED BY <3>1, <3>2
  <2>3. CASE p # q
    BY <2>1, <2>3, <1>4, <1>8, <1>9
  <2> QED BY <2>2, <2>3
<1>11. ASSUME NEW p \in Parking
       PROVE  taskcount'[p] + Len(pfstask[p]) >= taskcount[p] + Len(pfstask'[p])
  <2>0. p \in Queue
    OBVIOUS
  <2>1. Len(ListDel(pfstask[p], t)) \in Nat /\ Len(ListDel(pfstask[p], t)) <= Len(pfstask[p])
    <3>1. /\ ListDel(pfstask[p], t) \in Seq(Task) /\ Len(pfstask[p]) \in Nat
          /\ \/ Len(ListDel(pfstask[p], t)) = Len(pfstask[p]) - 1
             \/ Len(ListDel(pfstask[p], t)) = Len(pfstask[p])
      BY <2>0, <1>2, <1>9, ZenonT(30)
    <3> HIDE QueueAssumption, ThreadAssumption
    <3> QED BY <3>1
  <2>2. CASE p = q
    <3>1. Len(pfstask'[p]) <= Len(pfstask[p]) + 1 /\ taskcount'[p] = taskcount[p] + 1
      BY <2>0, <2>1, <2>2, <1>3, <1>4, <1>8, <1>9
    <3>2. Len(pfstask'[p]) \in Nat
      BY <2>0, <1>6
    <3> QED BY <2>0, <3>1, <3>2, <1>9
  <2>3. CASE p # q
    BY <2>0, <2>1, <2>3, <1>4, <1>8, <1>9
  <2> QED BY <2>2, <2>3
<1>12. /\ status' \in [Task -> Queue \cup {TASK_Q_UNKNOWN}]
       /\ status'[t] = q /\ \A x \in Task \ {t} : status'[x] = status[x]
       /\ last' = last /\ heap' = heap
  BY <1>0 DEF SetBody, TypeOK
<1> QED BY <1>0, <1>6, <1>7, <1>8, <1>10, <1>11, <1>12, ZenonT(30) DEF TypeOK
\* Where the other threads are in their calls does not depend on th's step.
LEMMA CallOthers ==
    ASSUME CallInv, NEW th \in Thread,
           \A o \in Thread \ {th} : pc'[o] = pc[o] /\ call'[o] = call[o],
           \A o \in Thread \ {th} : \A x \in hand[o] : x \in hand'[o] /\ status'[x] = status[x],
           /\ pc'[th] # "idle" /\ call'[th].q \in Parking => th = Data /\ call'[th].op = "set"
           /\ Inside(th, "set")' => call'[th].t \in hand'[th]
           /\ pc'[th] \in {"nest", "nestin"} =>
                /\ call'[th].op = "scan" /\ call'[th].q # TASK_Q_HOME
                /\ call'[th].t \in hand'[th] /\ status'[call'[th].t] = call'[th].q
    PROVE  CallInv'
<1> SUFFICES ASSUME NEW o \in Thread
             PROVE /\ pc'[o] # "idle" /\ call'[o].q \in Parking => o = Data /\ call'[o].op = "set"
                   /\ Inside(o, "set")' => call'[o].t \in hand'[o]
                   /\ pc'[o] \in {"nest", "nestin"} =>
                        /\ call'[o].op = "scan" /\ call'[o].q # TASK_Q_HOME
                        /\ call'[o].t \in hand'[o] /\ status'[call'[o].t] = call'[o].q
  BY ZenonT(30) DEF CallInv
<1>1. CASE o = th
  BY <1>1
<1>2. CASE o # th
  BY <1>2 DEF CallInv, Inside
<1> QED BY <1>1, <1>2, ZenonT(30)

\* What the body of pfs_set_task and the caller's loss of the record keep.
LEMMA MoveIInv ==
    ASSUME IInv, NEW th \in Thread, NEW t \in hand[th], NEW q \in Queue,
           SetBody(t, q), lost' = lost, q \in Parking => th = Data,
           hand' = IF q \in Parking THEN hand ELSE [hand EXCEPT ![th] = hand[th] \ {t}]
    PROVE  /\ ListInv' /\ HandInv' /\ PoolInv' /\ CountExact'
           /\ pfstask' \in [Queue -> Seq(Task)] /\ taskcount' \in [Queue -> Int]
           /\ status' \in [Task -> Queue \cup {TASK_Q_UNKNOWN}] /\ last' \in [Task -> {-1, Stamp}]
           /\ heap' \in SUBSET Task /\ hand' \in [Thread -> SUBSET Task]
           /\ \A o \in Thread \ {th} : \A x \in hand[o] : x \in hand'[o] /\ status'[x] = status[x]
<1> USE ThreadAssumption, QueueAssumption
<1>0. TypeOK /\ ListInv /\ HandInv /\ PoolInv /\ CountExact
  BY DEF IInv
<1>1. /\ t \in Task
      /\ pfstask' \in [Queue -> Seq(Task)] /\ taskcount' \in [Queue -> Int]
      /\ status' \in [Task -> Queue \cup {TASK_Q_UNKNOWN}] /\ last' \in [Task -> {-1, Stamp}]
      /\ heap' = heap
      /\ \A p \in Queue : Distinct(pfstask'[p])
      /\ \A p \in Queue, x \in Task :
           On(pfstask'[p], x) <=> IF x = t THEN p = q ELSE On(pfstask[p], x)
      /\ \A p \in Queue \ Parking :
           taskcount'[p] + Len(pfstask[p]) = taskcount[p] + Len(pfstask'[p])
      /\ \A p \in Parking :
           taskcount'[p] + Len(pfstask[p]) >= taskcount[p] + Len(pfstask'[p])
      /\ status'[t] = q /\ \A x \in Task \ {t} : status'[x] = status[x]
      /\ last' = last
  BY SetBodyFacts
<1>2. hand' \in [Thread -> SUBSET Task] /\ heap' \in SUBSET Task
  BY <1>0, <1>1, ZenonT(30) DEF TypeOK
<1>3. /\ \A o \in Thread \ {th} : hand'[o] = hand[o] /\ t \notin hand[o]
      /\ \A x \in Task \ {t} : x \in hand'[th] <=> x \in hand[th]
      /\ t \in hand'[th] <=> q \in Parking
      /\ t \in heap \ lost /\ heap \subseteq Task
  BY <1>0, <1>1, Zenon DEF TypeOK, HandInv
<1>4. \A o \in Thread \ {th} : \A x \in hand[o] : x \in hand'[o] /\ status'[x] = status[x]
  BY <1>0, <1>1, <1>3 DEF TypeOK
<1>5. ListInv'
  <2>1. \A x \in Task \ {t} : \A o \in Thread : x \in hand'[o] <=> x \in hand[o]
    BY <1>3
  <2>2. q \in Parking => t \in hand'[Data]
    BY <1>3
  <2>3. q \notin Parking => \A o \in Thread : t \notin hand'[o]
    BY <1>3, ZenonT(30)
  <2> SUFFICES ASSUME NEW p \in Queue, NEW x \in Task, On(pfstask'[p], x)
               PROVE  /\ status'[x] = p /\ x \in heap'
                      /\ p \in Parking => x \in hand'[Data] \cup lost'
                      /\ p \notin Parking => x \notin lost' /\ \A o \in Thread : x \notin hand'[o]
    BY <1>1, ZenonT(30) DEF ListInv
  <2>4. CASE x = t
    <3>1. p = q
      BY <1>1, <2>4, ZenonT(30)
    <3> QED BY <1>1, <1>3, <2>2, <2>3, <2>4, <3>1, ZenonT(30)
  <2>5. CASE x # t
    <3>1. On(pfstask[p], x)
      BY <1>1, <2>5, Zenon
    <3> QED BY <1>0, <1>1, <2>1, <2>5, <3>1, ZenonT(30) DEF ListInv
  <2> QED BY <2>4, <2>5
<1>6. HandInv'
  <2>1. \A o \in Thread : hand'[o] \subseteq hand[o]
    BY <1>0, ZenonT(30) DEF TypeOK
  <2>2. \A x \in heap' : Linked(x)' \/ x \in lost' \/ \E o \in Thread : x \in hand'[o]
    <3>1. ASSUME NEW x \in heap, x # t
          PROVE  Linked(x)' \/ x \in lost \/ \E o \in Thread : x \in hand'[o]
      <4>1. Linked(x) \/ x \in lost \/ \E o \in Thread : x \in hand[o]
        BY <1>0 DEF HandInv
      <4>2. x \in Task
        BY <1>3, ZenonT(30)
      <4> QED BY <1>1, <1>3, <3>1, <4>1, <4>2 DEF Linked
    <3>2. Linked(t)'
      BY <1>1, ZenonT(30) DEF Linked
    <3> QED BY <1>1, <3>1, <3>2, ZenonT(30)
  <2> QED BY <1>0, <1>1, <2>1, <2>2 DEF HandInv
<1>7. PoolInv'
  BY <1>0, <1>1, ZenonT(30) DEF PoolInv
<1>8. CountExact'
  BY <1>0, <1>1, CountKept
<1> QED BY <1>1, <1>2, <1>4, <1>5, <1>6, <1>7, <1>8

LEMMA SetIInv == ASSUME IInv, NEW th \in Thread, Set(th) PROVE IInv'
<1> USE ThreadAssumption, QueueAssumption
<1>0. PICK q0 \in Queue, t0 \in hand[th] : q0 = call[th].q /\ t0 = call[th].t
  BY ZenonT(30) DEF IInv, Set, Inside, TypeOK, Call, CallInv
<1>1. /\ TypeOK /\ CallInv /\ pc[th] = "in" /\ Leave(th) /\ lost' = lost /\ SetBody(t0, q0)
      /\ q0 \in Parking => th = Data
      /\ hand' = IF q0 \in Parking THEN hand ELSE [hand EXCEPT ![th] = hand[th] \ {t0}]
  BY <1>0 DEF IInv, Set, Inside, CallInv
<1>2. /\ ListInv' /\ HandInv' /\ PoolInv' /\ CountExact'
      /\ pfstask' \in [Queue -> Seq(Task)] /\ taskcount' \in [Queue -> Int]
      /\ status' \in [Task -> Queue \cup {TASK_Q_UNKNOWN}] /\ last' \in [Task -> {-1, Stamp}]
      /\ heap' \in SUBSET Task /\ hand' \in [Thread -> SUBSET Task]
      /\ \A o \in Thread \ {th} : \A x \in hand[o] : x \in hand'[o] /\ status'[x] = status[x]
  BY <1>1, MoveIInv
<1>3. LockInv' /\ TypeOK'
  BY <1>1, <1>2, LeaveLock, ZenonT(30) DEF TypeOK
<1>4. CallInv'
  <2>1. /\ \A o \in Thread \ {th} : pc'[o] = pc[o] /\ call'[o] = call[o]
        /\ pc'[th] = "idle"
    BY <1>1 DEF TypeOK, Leave
  <2>2. ~ Inside(th, "set")' /\ pc'[th] \notin {"nest", "nestin"}
    BY <2>1 DEF Inside
  <2> QED BY <1>1, <1>2, <2>1, <2>2, CallOthers, Zenon
<1> QED BY <1>2, <1>3, <1>4 DEF IInv

\* A record dropped after a lock timeout is lost, and still nobody else's.
LEMMA DropIInv ==
    ASSUME IInv, NEW th \in Thread, NEW t \in hand[th],
           hand' = [hand EXCEPT ![th] = hand[th] \ {t}], lost' = lost \cup {t},
           UNCHANGED shared
    PROVE  /\ ListInv' /\ HandInv' /\ PoolInv' /\ CountExact'
           /\ hand' \in [Thread -> SUBSET Task] /\ lost' \in SUBSET Task
           /\ \A o \in Thread \ {th} : hand'[o] = hand[o]
<1> USE ThreadAssumption, QueueAssumption
<1>0. TypeOK /\ ListInv /\ HandInv /\ PoolInv /\ CountExact /\ t \in Task
  BY DEF IInv, TypeOK
<1>1. /\ hand'[th] = hand[th] \ {t} /\ \A o \in Thread \ {th} : hand'[o] = hand[o] /\ t \notin hand[o]
      /\ t \in heap \ lost
  BY <1>0 DEF TypeOK, HandInv
<1>2. \A q \in Queue : On(pfstask[q], t) => q \in Parking
  BY <1>0, ZenonT(30) DEF ListInv
<1>3. ListInv'
  <2>1. pfstask' = pfstask /\ status' = status /\ heap' = heap
    BY DEF shared
  <2>2. \A x \in Task : x \in lost' <=> x \in lost \/ x = t
    OBVIOUS
  <2>3. ASSUME NEW q \in Queue, NEW x \in Task, On(pfstask[q], x)
        PROVE  /\ status[x] = q /\ x \in heap
               /\ q \in Parking => x \in hand'[Data] \cup lost'
               /\ q \notin Parking => x \notin lost' /\ \A o \in Thread : x \notin hand'[o]
    <3>1. /\ status[x] = q /\ x \in heap
          /\ q \in Parking => x \in hand[Data] \cup lost
          /\ q \notin Parking => x \notin lost /\ \A o \in Thread : x \notin hand[o]
      BY <1>0, <2>3 DEF ListInv
    <3>2. q \in Parking => x \in hand'[Data] \cup lost'
      BY <3>1, <1>1, <2>2
    <3>3. q \notin Parking => x \notin lost' /\ \A o \in Thread : x \notin hand'[o]
      BY <3>1, <1>1, <1>2, <2>2, <2>3
    <3> QED BY <3>1, <3>2, <3>3
  <2>4. \A q \in Queue : Distinct(pfstask[q])
    BY <1>0 DEF ListInv
  <2> QED BY <2>1, <2>3, <2>4 DEF ListInv
<1>4. HandInv'
  BY <1>0, <1>1 DEF HandInv, shared, Linked
<1>5. PoolInv' /\ CountExact'
  BY <1>0 DEF PoolInv, CountExact, shared
<1> QED BY <1>0, <1>1, <1>3, <1>4, <1>5 DEF TypeOK

LEMMA SetTimeoutIInv ==
    ASSUME IInv, NEW th \in Thread, NEW t \in hand[th], NEW q \in Queue, SetTimeout(th, t, q)
    PROVE  IInv'
<1>1. /\ ListInv' /\ HandInv' /\ PoolInv' /\ CountExact'
      /\ hand' \in [Thread -> SUBSET Task] /\ lost' \in SUBSET Task
      /\ \A o \in Thread \ {th} : hand'[o] = hand[o]
  BY DropIInv, Zenon DEF SetTimeout
<1>2. TypeOK' /\ LockInv'
  BY <1>1 DEF IInv, TypeOK, LockInv, SetTimeout, shared
<1>3. CallInv'
  BY <1>1 DEF IInv, CallInv, Inside, SetTimeout, shared
<1> QED BY <1>1, <1>2, <1>3 DEF IInv

-----------------------------------------------------------------------------
\* scan_some_status_task.

LEMMA CallField ==
    ASSUME NEW c \in Call
    PROVE  /\ \A t \in Task \cup {NoTask} : [c EXCEPT !.t = t] \in Call
           /\ \A n \in Nat \ {0} : [c EXCEPT !.pos = n] \in Call
BY DEF Call

LEMMA CallNew ==
    ASSUME NEW op \in {"get", "set", "scan"}, NEW q \in Queue, NEW t \in Task \cup {NoTask}
    PROVE  [op |-> op, q |-> q, t |-> t, pos |-> 1] \in Call
BY DEF Call

LEMMA ScanKeepIInv == ASSUME IInv, NEW th \in Thread, ScanKeep(th) PROVE IInv'
<1> USE ThreadAssumption, QueueAssumption
<1>0. /\ TypeOK /\ LockInv /\ CallInv /\ ListInv /\ HandInv /\ PoolInv /\ CountExact
      /\ call' = [call EXCEPT ![th].pos = call[th].pos + 1]
      /\ UNCHANGED <<shared, mutex, pc, hand, lost>>
  BY Zenon DEF IInv, ScanKeep
<1>1. call' \in [Thread -> Call]
  <2>0. call[th] \in Call
    BY <1>0, Zenon DEF TypeOK
  <2>1. call[th] \in Call /\ call[th].pos + 1 \in Nat \ {0}
    BY <2>0 DEF Call
  <2>2. [call[th] EXCEPT !.pos = call[th].pos + 1] \in Call
    BY <2>1, CallField
  <2> QED BY <1>0, <2>2 DEF TypeOK
<1>2. \A o \in Thread : call'[o].q = call[o].q /\ call'[o].op = call[o].op /\ call'[o].t = call[o].t
  BY <1>0 DEF TypeOK, Call
<1>3. TypeOK'
  BY <1>0, <1>1 DEF TypeOK, shared
<1>4. LockInv' /\ CallInv'
  BY <1>0, <1>2 DEF LockInv, CallInv, Inside, shared
<1>5. ListInv' /\ HandInv' /\ PoolInv' /\ CountExact'
  BY <1>0 DEF ListInv, HandInv, PoolInv, CountExact, Linked, shared
<1> QED BY <1>3, <1>4, <1>5 DEF IInv

LEMMA NestLockIInv == ASSUME IInv, NEW th \in Thread, NestLock(th) PROVE IInv'
<1> USE ThreadAssumption, QueueAssumption
<1>0. /\ TypeOK /\ LockInv /\ CallInv /\ ListInv /\ HandInv /\ PoolInv /\ CountExact
      /\ pc[th] = "nest" /\ mutex[TASK_Q_HOME] = NoThread
      /\ mutex' = [mutex EXCEPT ![TASK_Q_HOME] = th]
      /\ pc' = [pc EXCEPT ![th] = "nestin"]
      /\ UNCHANGED <<shared, call, hand, lost>>
  BY DEF IInv, NestLock, Lock
<1>1. TypeOK'
  BY <1>0 DEF TypeOK, shared
<1>2. /\ pc'[th] = "nestin" /\ \A o \in Thread \ {th} : pc'[o] = pc[o]
      /\ mutex'[TASK_Q_HOME] = th /\ \A q \in Queue \ {TASK_Q_HOME} : mutex'[q] = mutex[q]
  BY <1>0 DEF TypeOK
<1>3. \A o \in Thread : call[o].q \in Queue
  BY <1>0 DEF TypeOK, Call
<1>4. LockInv'
  <2>1. call[th].q # TASK_Q_HOME
    BY <1>0 DEF CallInv
  <2>2. \A o \in Thread : pc[o] # "idle" => mutex[call[o].q] = o
    BY <1>0 DEF LockInv
  <2>3. \A o \in Thread : call[o].q = TASK_Q_HOME => pc'[o] = "idle"
    BY <1>0, <1>2, <2>1, <2>2, ThreadAssumption
  <2>4. \A o \in Thread : pc'[o] # "idle" => mutex'[call[o].q] = o
    BY <1>0, <1>2, <1>3, <2>2, <2>3
  <2>5. \A o \in Thread : pc'[o] = "nestin" => mutex'[TASK_Q_HOME] = o
    BY <1>0, <1>2 DEF LockInv
  <2>6. ASSUME NEW q \in Queue, mutex'[q] # NoThread
        PROVE  LET o == mutex'[q]
               IN  pc'[o] # "idle" /\ (call[o].q = q \/ (pc'[o] = "nestin" /\ q = TASK_Q_HOME))
    <3>1. CASE q = TASK_Q_HOME
      BY <3>1, <1>2
    <3>2. CASE q # TASK_Q_HOME
      <4>1. mutex'[q] = mutex[q] /\ mutex[q] \in Thread
        BY <3>2, <2>6, <1>0, <1>2 DEF TypeOK
      <4>2. pc[mutex[q]] # "idle" /\ call[mutex[q]].q = q
        BY <3>2, <2>6, <4>1, <1>0 DEF LockInv
      <4> QED BY <4>1, <4>2, <1>2
    <3> QED BY <3>1, <3>2
  <2>7. call' = call
    BY <1>0
  <2> QED BY <2>4, <2>5, <2>6, <2>7 DEF LockInv
<1>5. CallInv'
  BY <1>0, <1>2, ZenonT(60) DEF CallInv, Inside, shared
<1>6. ListInv' /\ HandInv' /\ PoolInv' /\ CountExact'
  BY <1>0 DEF ListInv, HandInv, PoolInv, CountExact, Linked, shared
<1> QED BY <1>1, <1>4, <1>5, <1>6 DEF IInv

LEMMA NestSetIInv == ASSUME IInv, NEW th \in Thread, NestSet(th) PROVE IInv'
<1> USE ThreadAssumption, QueueAssumption, PoolAssumption
<1>0. PICK t0 \in hand[th] : t0 = call[th].t
  BY DEF IInv, NestSet, CallInv
<1>1. /\ TypeOK /\ LockInv /\ CallInv /\ pc[th] = "nestin" /\ lost' = lost
      /\ SetBody(t0, TASK_Q_HOME)
      /\ hand' = [hand EXCEPT ![th] = hand[th] \ {t0}]
      /\ mutex' = [mutex EXCEPT ![TASK_Q_HOME] = NoThread]
      /\ pc' = [pc EXCEPT ![th] = "in"]
      /\ call' = [call EXCEPT ![th].t = NoTask]
      /\ call[th].op = "scan" /\ call[th].q # TASK_Q_HOME
  BY <1>0 DEF IInv, NestSet, CallInv, Unlock
<1>2. /\ ListInv' /\ HandInv' /\ PoolInv' /\ CountExact'
      /\ pfstask' \in [Queue -> Seq(Task)] /\ taskcount' \in [Queue -> Int]
      /\ status' \in [Task -> Queue \cup {TASK_Q_UNKNOWN}] /\ last' \in [Task -> {-1, Stamp}]
      /\ heap' \in SUBSET Task /\ hand' \in [Thread -> SUBSET Task]
      /\ \A o \in Thread \ {th} : \A x \in hand[o] : x \in hand'[o] /\ status'[x] = status[x]
  BY <1>1, MoveIInv, Zenon
<1>3. TypeOK'
  <2>1. call' \in [Thread -> Call]
    <3>1. call[th] \in Call
      BY <1>1 DEF TypeOK
    <3>2. [call[th] EXCEPT !.t = NoTask] \in Call
      BY <3>1, CallField
    <3> QED BY <1>1, <3>2 DEF TypeOK
  <2>2. mutex' \in [Queue -> Thread \cup {NoThread}]
        /\ pc' \in [Thread -> {"idle", "in", "nest", "nestin"}] /\ lost' \in SUBSET Task
    BY <1>1 DEF TypeOK
  <2> QED BY <1>2, <2>1, <2>2 DEF TypeOK
<1>4. /\ pc'[th] = "in" /\ \A o \in Thread \ {th} : pc'[o] = pc[o] /\ call'[o] = call[o]
      /\ mutex'[TASK_Q_HOME] = NoThread /\ \A q \in Queue \ {TASK_Q_HOME} : mutex'[q] = mutex[q]
      /\ call'[th].q = call[th].q /\ call'[th].op = "scan"
  BY <1>1 DEF TypeOK, Call
<1>5. LockInv'
  <2>1. \A o \in Thread : call[o].q \in Queue
    BY <1>1 DEF TypeOK, Call
  <2>2. mutex[TASK_Q_HOME] = th /\ mutex[call[th].q] = th
    BY <1>1 DEF LockInv
  <2> QED BY <1>1, <1>4, <2>1, <2>2 DEF LockInv
<1>6. CallInv'
  <2>1. call[th].q \notin Parking
    BY <1>1 DEF CallInv
  <2>2. ~ Inside(th, "set")' /\ pc'[th] \notin {"nest", "nestin"}
    BY <1>4 DEF Inside
  <2> QED BY <1>1, <1>2, <1>4, <2>1, <2>2, CallOthers, Zenon
<1> QED BY <1>2, <1>3, <1>5, <1>6 DEF IInv

LEMMA NestTimeoutIInv == ASSUME IInv, NEW th \in Thread, NestTimeout(th) PROVE IInv'
<1> USE ThreadAssumption, QueueAssumption, PoolAssumption
<1>0. PICK t0 \in hand[th] : t0 = call[th].t
  BY DEF IInv, NestTimeout, CallInv
<1>1. /\ TypeOK /\ LockInv /\ CallInv /\ pc[th] = "nest"
      /\ hand' = [hand EXCEPT ![th] = hand[th] \ {t0}] /\ lost' = lost \cup {t0}
      /\ pc' = [pc EXCEPT ![th] = "in"]
      /\ call' = [call EXCEPT ![th].t = NoTask]
      /\ UNCHANGED <<shared, mutex>>
      /\ call[th].op = "scan" /\ call[th].q # TASK_Q_HOME
  BY <1>0 DEF IInv, NestTimeout, CallInv
<1>2. /\ ListInv' /\ HandInv' /\ PoolInv' /\ CountExact'
      /\ hand' \in [Thread -> SUBSET Task] /\ lost' \in SUBSET Task
      /\ \A o \in Thread \ {th} : hand'[o] = hand[o]
  BY <1>1, DropIInv, ZenonT(30)
<1>3. TypeOK'
  <2>1. call' \in [Thread -> Call]
    <3>1. call[th] \in Call
      BY <1>1 DEF TypeOK
    <3>2. [call[th] EXCEPT !.t = NoTask] \in Call
      BY <3>1, CallField
    <3> QED BY <1>1, <3>2 DEF TypeOK
  <2>2. pc' \in [Thread -> {"idle", "in", "nest", "nestin"}]
    BY <1>1 DEF TypeOK
  <2> QED BY <1>1, <1>2, <2>1, <2>2 DEF TypeOK, shared
<1>4. /\ pc'[th] = "in" /\ \A o \in Thread \ {th} : pc'[o] = pc[o] /\ call'[o] = call[o]
      /\ call'[th].q = call[th].q /\ call'[th].op = "scan"
  BY <1>1 DEF TypeOK, Call
<1>5. LockInv'
  BY <1>1, <1>4 DEF LockInv
<1>6. CallInv'
  <2>1. call[th].q \notin Parking
    BY <1>1 DEF CallInv
  <2>2. ~ Inside(th, "set")' /\ pc'[th] \notin {"nest", "nestin"}
    BY <1>4 DEF Inside
  <2>3. \A x : status'[x] = status[x]
    BY <1>1 DEF shared
  <2> QED BY <1>1, <1>2, <1>4, <2>1, <2>2, <2>3, CallOthers
<1> QED BY <1>2, <1>3, <1>5, <1>6 DEF IInv
\* What a callback that unlinks the record it visits and counts down its queue
\* does to the lists and counters.
LEMMA UnlinkFacts ==
    ASSUME IInv, NEW q \in Queue, NEW t \in Task, On(pfstask[q], t), q \notin Parking,
           pfstask' = [pfstask EXCEPT ![q] = ListDel(pfstask[q], t)],
           taskcount' = [taskcount EXCEPT ![q] = taskcount[q] - 1]
    PROVE  /\ pfstask' \in [Queue -> Seq(Task)] /\ taskcount' \in [Queue -> Int]
           /\ \A p \in Queue : Distinct(pfstask'[p])
           /\ \A p \in Queue, x \in Task : On(pfstask'[p], x) <=> On(pfstask[p], x) /\ x # t
           /\ t \in heap \ lost /\ \A o \in Thread : t \notin hand[o]
           /\ CountExact'
<1>0. TypeOK /\ ListInv /\ CountExact
  BY DEF IInv
<1>1. /\ ListDel(pfstask[q], t) \in Seq(Task) /\ Distinct(ListDel(pfstask[q], t))
      /\ \A x : On(ListDel(pfstask[q], t), x) <=> On(pfstask[q], x) /\ x # t
      /\ Len(ListDel(pfstask[q], t)) = Len(pfstask[q]) - 1
  <2>1. pfstask[q] \in Seq(Task) /\ Distinct(pfstask[q])
    BY <1>0 DEF TypeOK, ListInv
  <2> QED BY <2>1, ListDelFacts
<1>2. pfstask' \in [Queue -> Seq(Task)] /\ taskcount' \in [Queue -> Int]
  BY <1>0, <1>1 DEF TypeOK
<1>3. /\ t \in heap \ lost /\ \A o \in Thread : t \notin hand[o]
      /\ \A p \in Queue : On(pfstask[p], t) => p = q
  BY <1>0 DEF ListInv
<1>4. /\ \A p \in Queue : Distinct(pfstask'[p])
      /\ \A p \in Queue, x \in Task : On(pfstask'[p], x) <=> On(pfstask[p], x) /\ x # t
  BY <1>0, <1>1, <1>3 DEF TypeOK, ListInv
<1>5. CountExact'
  <2>1. /\ Len(pfstask'[q]) = Len(pfstask[q]) - 1 /\ taskcount'[q] = taskcount[q] - 1
        /\ \A p \in Queue \ {q} : pfstask'[p] = pfstask[p] /\ taskcount'[p] = taskcount[p]
    BY <1>0, <1>1 DEF TypeOK
  <2>2. \A p \in Queue : Len(pfstask[p]) \in Nat /\ taskcount[p] \in Int
    BY <1>0 DEF TypeOK
  <2>3. ASSUME NEW p \in Queue
        PROVE  /\ taskcount'[p] + Len(pfstask[p]) = taskcount[p] + Len(pfstask'[p])
               /\ taskcount'[p] + Len(pfstask[p]) >= taskcount[p] + Len(pfstask'[p])
    <3>1. CASE p = q
      <4>1. /\ Len(pfstask[q]) \in Nat /\ taskcount[q] \in Int
            /\ Len(pfstask'[q]) = Len(pfstask[q]) - 1 /\ taskcount'[q] = taskcount[q] - 1
        BY <2>1, <2>2
      <4> QED BY <3>1, <4>1
    <3>2. CASE p # q
      BY <3>2, <2>1, <2>2
    <3> QED BY <3>1, <3>2
  <2>4. Parking \subseteq Queue
    BY QueueAssumption, ZenonT(30)
  <2> QED BY <1>0, <1>2, <2>3, <2>4, CountKept
<1> QED BY <1>2, <1>3, <1>4, <1>5

\* The record a scan visits is on the list the scan holds the mutex of.
LEMMA VisitedFacts ==
    ASSUME IInv, NEW th \in Thread, Visiting(th)
    PROVE  /\ call[th].q \in Queue \ Parking /\ Visited(th) \in Task
           /\ On(pfstask[call[th].q], Visited(th)) /\ status[Visited(th)] = call[th].q
           /\ pc[th] = "in" /\ call[th].op = "scan"
<1>1. /\ TypeOK /\ CallInv /\ ListInv /\ pc[th] = "in" /\ call[th].op = "scan"
      /\ call[th].q \in Queue /\ call[th].pos \in Nat \ {0}
      /\ pfstask[call[th].q] \in Seq(Task) /\ call[th].pos <= Len(pfstask[call[th].q])
  BY ZenonT(30) DEF IInv, Visiting, Inside, TypeOK, Call
<1>2. Visited(th) \in Task /\ On(pfstask[call[th].q], Visited(th))
  <2> DEFINE s == pfstask[call[th].q]
             k == call[th].pos
  <2>1. s \in Seq(Task) /\ k \in Nat \ {0} /\ k <= Len(s)
    BY <1>1
  <2> HIDE DEF s, k
  <2>2. k \in DOMAIN s /\ s[k] \in Task
    BY <2>1
  <2>3. On(s, s[k])
    BY <2>2, ZenonT(30) DEF On
  <2> QED BY <2>2, <2>3, Zenon DEF Visited, s, k
<1> QED BY <1>1, <1>2 DEF CallInv, ListInv

LEMMA ScanTakeIInv == ASSUME IInv, NEW th \in Thread, ScanTake(th) PROVE IInv'
<1> USE ThreadAssumption, QueueAssumption
<1>0. /\ TypeOK /\ LockInv /\ CallInv /\ ListInv /\ HandInv /\ PoolInv
  BY DEF IInv
<1>1. PICK q0 \in Queue \ Parking, t0 \in Task :
        q0 = call[th].q /\ t0 = Visited(th) /\ On(pfstask[q0], t0) /\ status[t0] = q0
        /\ pc[th] = "in" /\ call[th].op = "scan"
  BY VisitedFacts DEF ScanTake
<1>2. /\ q0 # TASK_Q_HOME
      /\ pfstask' = [pfstask EXCEPT ![q0] = ListDel(pfstask[q0], t0)]
      /\ taskcount' = [taskcount EXCEPT ![q0] = taskcount[q0] - 1]
      /\ hand' = [hand EXCEPT ![th] = hand[th] \cup {t0}]
      /\ call' = [call EXCEPT ![th].t = t0]
      /\ pc' = [pc EXCEPT ![th] = "nest"]
      /\ status' = status /\ last' = last /\ heap' = heap /\ mutex' = mutex /\ lost' = lost
  BY <1>1 DEF ScanTake
<1>3. /\ pfstask' \in [Queue -> Seq(Task)] /\ taskcount' \in [Queue -> Int]
      /\ \A p \in Queue : Distinct(pfstask'[p])
      /\ \A p \in Queue, x \in Task : On(pfstask'[p], x) <=> On(pfstask[p], x) /\ x # t0
      /\ t0 \in heap \ lost /\ \A o \in Thread : t0 \notin hand[o]
      /\ CountExact'
  BY <1>1, <1>2, UnlinkFacts, ZenonT(30)
<1>4. TypeOK'
  <2>1. call' \in [Thread -> Call]
    <3>1. call[th] \in Call
      BY <1>0 DEF TypeOK
    <3>2. [call[th] EXCEPT !.t = t0] \in Call
      BY <3>1, CallField
    <3> QED BY <1>0, <1>2, <3>2 DEF TypeOK
  <2>2. hand' \in [Thread -> SUBSET Task] /\ pc' \in [Thread -> {"idle", "in", "nest", "nestin"}]
    BY <1>0, <1>2 DEF TypeOK
  <2> QED BY <1>0, <1>2, <1>3, <2>1, <2>2 DEF TypeOK
<1>5. /\ pc'[th] = "nest" /\ \A o \in Thread \ {th} : pc'[o] = pc[o] /\ call'[o] = call[o]
      /\ call'[th].q = q0 /\ call'[th].op = "scan" /\ call'[th].t = t0
      /\ hand'[th] = hand[th] \cup {t0} /\ \A o \in Thread \ {th} : hand'[o] = hand[o]
  BY <1>0, <1>1, <1>2 DEF TypeOK, Call
<1>6. LockInv'
  BY <1>0, <1>1, <1>2, <1>5 DEF LockInv
<1>7. CallInv'
  <2>1. ~ Inside(th, "set")'
    BY <1>5 DEF Inside
  <2>2. \A o \in Thread \ {th} : \A x \in hand[o] : x \in hand'[o] /\ status'[x] = status[x]
    BY <1>2, <1>5
  <2>3. t0 \in hand'[th] /\ status'[t0] = q0
    BY <1>1, <1>2, <1>5
  <2> QED BY <1>0, <1>1, <1>2, <1>5, <2>1, <2>2, <2>3, CallOthers
<1>8. ListInv'
  <2>1. \A x \in Task \ {t0} : \A o \in Thread : x \in hand'[o] <=> x \in hand[o]
    BY <1>5
  <2> QED BY <1>0, <1>2, <1>3, <2>1 DEF ListInv
<1>9. HandInv'
  <2>1. heap \subseteq Task
    BY <1>0 DEF TypeOK
  <2> QED BY <1>0, <1>2, <1>3, <1>5, <2>1 DEF HandInv, Linked
<1>10. PoolInv'
  BY <1>0, <1>2 DEF PoolInv
<1> QED BY <1>3, <1>4, <1>6, <1>7, <1>8, <1>9, <1>10 DEF IInv

LEMMA ScanFreeIInv == ASSUME IInv, NEW th \in Thread, ScanFree(th) PROVE IInv'
<1> USE ThreadAssumption, QueueAssumption
<1>0. /\ TypeOK /\ LockInv /\ CallInv /\ ListInv /\ HandInv /\ PoolInv
  BY DEF IInv
<1>1. PICK t0 \in Task : t0 = Visited(th) /\ On(pfstask[TASK_Q_HOME], t0)
  BY VisitedFacts DEF ScanFree
<1>2. /\ last[t0] >= 0
      /\ pfstask' = [pfstask EXCEPT ![TASK_Q_HOME] = ListDel(pfstask[TASK_Q_HOME], t0)]
      /\ taskcount' = [taskcount EXCEPT ![TASK_Q_HOME] = taskcount[TASK_Q_HOME] - 1]
      /\ heap' = heap \ {t0}
      /\ UNCHANGED <<status, last, mutex, pc, call, hand, lost>>
  BY <1>1, ZenonT(30) DEF ScanFree
<1>3. /\ pfstask' \in [Queue -> Seq(Task)] /\ taskcount' \in [Queue -> Int]
      /\ \A p \in Queue : Distinct(pfstask'[p])
      /\ \A p \in Queue, x \in Task : On(pfstask'[p], x) <=> On(pfstask[p], x) /\ x # t0
      /\ t0 \in heap \ lost /\ \A o \in Thread : t0 \notin hand[o]
      /\ CountExact'
  BY <1>1, <1>2, UnlinkFacts, Zenon
<1>4. TypeOK'
  BY <1>0, <1>2, <1>3, ZenonT(30) DEF TypeOK
<1>5. LockInv' /\ CallInv'
  BY <1>0, <1>2, ZenonT(30) DEF LockInv, CallInv, Inside
<1>6. ListInv'
  BY <1>0, <1>2, <1>3, Zenon DEF ListInv
<1>7. HandInv'
  <2>1. heap \subseteq Task
    BY <1>0, ZenonT(30) DEF TypeOK
  <2>2. lost' \subseteq heap' /\ \A o \in Thread : hand'[o] \subseteq heap' \ lost'
    <3>1. lost \subseteq heap /\ \A o \in Thread : hand[o] \subseteq heap \ lost
      BY <1>0, Zenon DEF HandInv
    <3>2. t0 \notin lost /\ \A o \in Thread : t0 \notin hand[o]
      BY <1>3, Zenon
    <3>3. heap' = heap \ {t0} /\ lost' = lost /\ hand' = hand
      BY <1>2, Zenon
    <3> QED BY <3>1, <3>2, <3>3, Zenon
  <2>3. \A a, b \in Thread : a # b => hand'[a] \cap hand'[b] = {}
    BY <1>0, <1>2, ZenonT(30) DEF HandInv
  <2>4. ASSUME NEW x \in heap'
        PROVE  Linked(x)' \/ x \in lost' \/ \E o \in Thread : x \in hand'[o]
    <3>1. x \in heap /\ x \in Task /\ x # t0
      BY <1>2, <2>1
    <3>2. Linked(x) \/ x \in lost \/ \E o \in Thread : x \in hand[o]
      BY <1>0, <3>1 DEF HandInv
    <3>3. Linked(x) => Linked(x)'
      BY <1>3, <3>1 DEF Linked
    <3> QED BY <3>2, <3>3, <1>2
  <2> QED BY <2>2, <2>3, <2>4 DEF HandInv
<1>8. PoolInv'
  BY <1>0, <1>2, <1>3 DEF PoolInv, TypeOK
<1> QED BY <1>3, <1>4, <1>5, <1>6, <1>7, <1>8, ZenonT(30) DEF IInv
-----------------------------------------------------------------------------
\* Every step of every thread keeps the invariant.
LEMMA NextIInv == IInv /\ [Next]_vars => IInv'
<1> SUFFICES ASSUME IInv, [Next]_vars PROVE IInv'
  BY Zenon
<1>1. CASE UNCHANGED vars
  BY <1>1 DEF vars, IInv, TypeOK, LockInv, CallInv, ListInv, HandInv, PoolInv, CountExact,
              Linked, Inside
<1>2. ASSUME NEW th \in Thread, Step(th) PROVE IInv'
  <2>1. CASE GetHead(th)      BY <2>1, GetHeadIInv
  <2>2. CASE GetMalloc(th)    BY <2>2, GetMallocIInv
  <2>3. CASE GetNothing(th)   BY <2>3, LeaveIInv DEF GetNothing, Inside
  <2>4. CASE Set(th)          BY <2>4, SetIInv
  <2>5. CASE ScanKeep(th)     BY <2>5, ScanKeepIInv
  <2>6. CASE ScanTake(th)     BY <2>6, ScanTakeIInv
  <2>7. CASE ScanFree(th)     BY <2>7, ScanFreeIInv
  <2>8. CASE ScanEnd(th)      BY <2>8, LeaveIInv, ZenonT(30) DEF ScanEnd, Inside
  <2>9. CASE NestLock(th)     BY <2>9, NestLockIInv
  <2>10. CASE NestSet(th)     BY <2>10, NestSetIInv
  <2>11. CASE NestTimeout(th) BY <2>11, NestTimeoutIInv
  <2> QED BY <1>2, <2>1, <2>2, <2>3, <2>4, <2>5, <2>6, <2>7, <2>8, <2>9, <2>10, <2>11 DEF Step
<1>3. ASSUME NEW th \in Thread, Begin(th) PROVE IInv'
  <2> USE QueueAssumption
  <2>1. PICK q \in Queue : \/ GetBegin(th, q) \/ ScanBegin(th, q)
                           \/ \E t \in hand[th] : SetBegin(th, t, q) \/ SetTimeout(th, t, q)
    BY <1>3, ZenonT(30) DEF Begin
  <2>2. CASE GetBegin(th, q)
    <3>1. [op |-> "get", q |-> q, t |-> NoTask, pos |-> 1] \in Call
      BY CallNew, Zenon
    <3> QED BY <2>2, <3>1, EnterIInv DEF GetBegin
  <2>3. CASE ScanBegin(th, q)
    <3>1. [op |-> "scan", q |-> q, t |-> NoTask, pos |-> 1] \in Call /\ q \notin Parking
      BY <2>3, CallNew, Zenon DEF ScanBegin
    <3> QED BY <2>3, <3>1, EnterIInv DEF ScanBegin
  <2>4. ASSUME NEW t \in hand[th], SetBegin(th, t, q) PROVE IInv'
    <3>1. [op |-> "set", q |-> q, t |-> t, pos |-> 1] \in Call
      <4>1. t \in Task
        BY ZenonT(30) DEF IInv, TypeOK
      <4> QED BY <4>1, CallNew, Zenon
    <3> QED BY <2>4, <3>1, EnterIInv DEF SetBegin
  <2>5. ASSUME NEW t \in hand[th], SetTimeout(th, t, q) PROVE IInv'
    BY <2>5, SetTimeoutIInv
  <2> QED BY <2>1, <2>2, <2>3, <2>4, <2>5, ZenonT(30)
<1> QED BY <1>1, <1>2, <1>3 DEF Next

\* The inductive invariant holds in every reachable state.
THEOREM Invariance == Spec => []IInv
BY InitIInv, NextIInv, PTL DEF Spec

-----------------------------------------------------------------------------
\* The safety properties.

\* pfs_task.c keeps every list, counter and field within its type.
THEOREM TypeCorrect == Spec => []TypeOK
<1>1. IInv => TypeOK
  BY ZenonT(30) DEF IInv
<1> QED BY <1>1, Invariance, PTL

\* Between pfs_get_task and pfs_set_task a record belongs to one thread, and
\* the lists never share a record or hold one twice.
THEOREM CustodyHolds == Spec => []Custody
<1>1. IInv => Custody
  <2> SUFFICES ASSUME IInv PROVE Custody
    OBVIOUS
  <2>0. TypeOK /\ ListInv /\ HandInv
    BY DEF IInv
  <2>1. /\ \A q \in Queue : Distinct(pfstask[q])
        /\ \A p, q \in Queue : \A t \in Task : On(pfstask[p], t) /\ On(pfstask[q], t) => p = q
    BY <2>0, ZenonT(30) DEF ListInv
  <2>2. ASSUME NEW th \in Thread, NEW t \in hand[th]
        PROVE  /\ \A other \in Thread \ {th} : t \notin hand[other]
               /\ \A q \in Queue : On(pfstask[q], t) => q \in Parking /\ th = Data
    <3>1. t \in Task /\ t \notin lost /\ \A other \in Thread \ {th} : t \notin hand[other]
      BY <2>0, ZenonT(30) DEF TypeOK, HandInv
    <3> QED BY <2>0, <3>1, ThreadAssumption DEF ListInv
  <2> QED BY <2>1, <2>2 DEF Custody
<1> QED BY <1>1, Invariance, PTL

\* No record is leaked except by a timed out pfs_set_task, and a freed record
\* is on no list and in no thread's hands.
THEOREM AccountedHolds == Spec => []Accounted
<1>1. IInv => Accounted
  BY Zenon DEF IInv, HandInv, ListInv, Accounted, Linked
<1> QED BY <1>1, Invariance, PTL

\* clean_unused_task_mem never frees a part of the block init_task_info
\* allocated.
THEOREM PoolKeptHolds == Spec => []PoolKept
<1>1. IInv => PoolKept
  BY DEF IInv, PoolInv, PoolKept
<1> QED BY <1>1, Invariance, PTL

\* The counters get_task_count returns agree with the lists.
THEOREM CountExactHolds == Spec => []CountExact
<1>1. IInv => CountExact
  BY DEF IInv
<1> QED BY <1>1, Invariance, PTL

\* The unlocked unlinking in pfs_set_task races with nothing: only the data
\* thread touches the lists it can happen on.
THEOREM RaceFreeHolds == Spec => []RaceFree
<1>1. IInv => RaceFree
  <2> SUFFICES ASSUME IInv, NEW a \in Thread, NEW b \in Thread, a # b, NEW q \in Queue,
                      q \in Touches(a), q \in Touches(b)
               PROVE  FALSE
    BY DEF RaceFree, Touches
  <2> USE QueueAssumption
  <2>0. TypeOK /\ LockInv /\ CallInv /\ ListInv /\ HandInv
    BY ZenonT(30) DEF IInv
  <2>1. ASSUME NEW th \in Thread, q \in Touches(th)
        PROVE  /\ mutex[q] = th \/ (q \in Parking /\ th = Data)
               /\ q \in Parking => th = Data
    <3>1. CASE pc[th] # "idle" /\ q = call[th].q
      BY <2>0, <3>1, ZenonT(30) DEF LockInv, CallInv
    <3>2. CASE pc[th] = "nestin" /\ q = TASK_Q_HOME
      BY <2>0, <3>2, ZenonT(30) DEF LockInv
    <3>3. CASE Inside(th, "set") /\ On(pfstask[q], call[th].t)
      <4>1. call[th].t \in hand[th] /\ call[th].t \in Task /\ call[th].t \notin lost
        BY <2>0, <3>3, ZenonT(30) DEF CallInv, TypeOK, HandInv
      <4>2. q \in Parking /\ call[th].t \in hand[Data]
        BY <2>0, <3>3, <4>1, ZenonT(30) DEF ListInv
      <4>3. th = Data
        BY <2>0, <4>1, <4>2, ThreadAssumption, ZenonT(30) DEF HandInv
      <4> QED BY <4>2, <4>3, ZenonT(30)
    <3> QED BY <2>1, <3>1, <3>2, <3>3, ZenonT(30) DEF Touches
  <2> QED BY <2>1, ZenonT(30)
<1> QED BY <1>1, Invariance, PTL

\* The nested locks are always taken in the order status queue, TASK_Q_HOME.
THEOREM HomeHolderNeverWaitsHolds == Spec => []HomeHolderNeverWaits
<1>1. IInv => HomeHolderNeverWaits
  <2> SUFFICES ASSUME IInv, mutex[TASK_Q_HOME] # NoThread, pc[mutex[TASK_Q_HOME]] = "nest"
               PROVE  FALSE
    BY DEF HomeHolderNeverWaits
  <2>1. PICK th \in Thread : th = mutex[TASK_Q_HOME]
    BY QueueAssumption, ZenonT(30) DEF IInv, TypeOK
  <2>2. call[th].q # TASK_Q_HOME
    BY <2>1, ZenonT(30) DEF IInv, CallInv
  <2>3. call[th].q = TASK_Q_HOME \/ pc[th] = "nestin"
    BY <2>1, QueueAssumption DEF IInv, LockInv
  <2> QED BY <2>1, <2>2, <2>3
<1> QED BY <1>1, Invariance, PTL
-----------------------------------------------------------------------------
\* The refinement of TaskPool.

\* The place the mapping gives a record.
WhereIs ==
    /\ where = [t \in Task |-> where[t]]
    /\ \A t \in Task :
        /\ t \notin heap => where[t] = "free"
        /\ t \in lost => where[t] = "lost"
        /\ \A th \in Thread : t \in hand[th] => where[t] = th
        /\ t \in heap \ lost /\ (\A th \in Thread : t \notin hand[th]) => where[t] = status[t]

LEMMA WhereFacts == IInv => WhereIs
<1> SUFFICES ASSUME IInv PROVE WhereIs
  OBVIOUS
<1>0. HandInv
  BY DEF IInv
<1>1. where = [t \in Task |-> where[t]]
  BY DEF where
<1>2. ASSUME NEW t \in Task, NEW th \in Thread, t \in hand[th] PROVE where[t] = th
  <2>1. t \in heap /\ t \notin lost /\ \A o \in Thread : t \in hand[o] => o = th
    BY <1>0, <1>2 DEF HandInv
  <2>2. (CHOOSE o \in Thread : t \in hand[o]) = th
    BY <1>2, <2>1
  <2> QED BY <1>2, <2>1, <2>2 DEF where
<1>3. ASSUME NEW t \in Task PROVE t \notin heap => where[t] = "free"
  BY DEF where
<1>4. ASSUME NEW t \in Task PROVE t \in lost => where[t] = "lost"
  BY <1>0 DEF where, HandInv
<1>5. ASSUME NEW t \in Task, t \in heap \ lost, \A th \in Thread : t \notin hand[th]
      PROVE  where[t] = status[t]
  BY <1>5, ZenonT(30) DEF where
<1> QED BY <1>1, <1>2, <1>3, <1>4, <1>5 DEF WhereIs

\* A record no list, hand or allocator operation touched stays where it is.
LEMMA SamePlace ==
    ASSUME IInv, WhereIs, WhereIs', NEW t \in Task, t \in heap' <=> t \in heap,
           t \in lost' <=> t \in lost, status'[t] = status[t],
           \A th \in Thread : t \in hand'[th] <=> t \in hand[th]
    PROVE  where'[t] = where[t]
<1>1. CASE t \notin heap          BY <1>1 DEF WhereIs
<1>2. CASE t \in lost             BY <1>2 DEF WhereIs
<1>3. ASSUME NEW th \in Thread, t \in hand[th] PROVE where'[t] = where[t]
  BY <1>3 DEF WhereIs
<1>4. CASE t \in heap \ lost /\ \A th \in Thread : t \notin hand[th]
  BY <1>4 DEF WhereIs
<1> QED BY <1>1, <1>2, <1>3, <1>4, ZenonT(30)

\* One record moved.
LEMMA OneMoved ==
    ASSUME WhereIs, WhereIs', NEW t0 \in Task, \A t \in Task \ {t0} : where'[t] = where[t]
    PROVE  where' = [where EXCEPT ![t0] = where'[t0]]
BY DEF WhereIs

\* Nothing moved.
LEMMA NoneMoved ==
    ASSUME IInv, WhereIs, WhereIs', UNCHANGED <<shared, hand, lost>>
    PROVE  where' = where
BY ZenonT(30) DEF where, shared
\* Taking the head of a queue, or the record a scan visits, is one Take.
LEMMA TakeRefines ==
    ASSUME IInv, WhereIs, WhereIs', NEW th \in Thread, NEW q \in Queue \ Parking, NEW t \in Task,
           On(pfstask[q], t), hand' = [hand EXCEPT ![th] = hand[th] \cup {t}],
           heap' = heap, lost' = lost, \A x \in Task \ {t} : status'[x] = status[x]
    PROVE  P!Next
<1>0. TypeOK /\ ListInv
  BY DEF IInv
<1>1. /\ where[t] = q
  BY <1>0 DEF ListInv, WhereIs
<1>2. where'[t] = th
  BY <1>0, ZenonT(30) DEF TypeOK, WhereIs
<1>3. \A x \in Task \ {t} : where'[x] = where[x]
  <2> SUFFICES ASSUME NEW x \in Task \ {t} PROVE where'[x] = where[x]
    OBVIOUS
  <2>1. \A o \in Thread : x \in hand'[o] <=> x \in hand[o]
    BY <1>0, ZenonT(30) DEF TypeOK
  <2> QED BY <2>1, SamePlace, ZenonT(30)
<1>4. P!Take(th, q, t)
  BY <1>1, <1>2, <1>3, OneMoved DEF P!Take
<1> QED BY <1>4, ZenonT(30) DEF P!Next

\* pfs_set_task, nested or not, is one Put.
LEMMA PutRefines ==
    ASSUME IInv, WhereIs, WhereIs', NEW th \in Thread, NEW q \in Queue, NEW t \in hand[th],
           hand' = [hand EXCEPT ![th] = hand[th] \ {t}],
           heap' = heap, lost' = lost, status' = [status EXCEPT ![t] = q]
    PROVE  P!Next
<1>0. TypeOK /\ HandInv /\ t \in Task
  BY DEF IInv, TypeOK
<1>1. /\ where[t] = th
  BY <1>0 DEF WhereIs
<1>2. where'[t] = q
  <2>1. t \in heap \ lost /\ \A o \in Thread : t \notin hand'[o]
    BY <1>0 DEF TypeOK, HandInv
  <2>2. status'[t] = q
    BY <1>0 DEF TypeOK
  <2> QED BY <1>0, <2>1, <2>2 DEF WhereIs
<1>3. \A x \in Task \ {t} : where'[x] = where[x]
  <2> SUFFICES ASSUME NEW x \in Task \ {t} PROVE where'[x] = where[x]
    OBVIOUS
  <2>1. status'[x] = status[x] /\ \A o \in Thread : x \in hand'[o] <=> x \in hand[o]
    BY <1>0 DEF TypeOK
  <2> QED BY <2>1, SamePlace, ZenonT(30)
<1>4. P!Put(th, q, t)
  BY <1>0, <1>1, <1>2, <1>3, OneMoved DEF P!Put
<1> QED BY <1>0, <1>4 DEF P!Next

\* A timed out pfs_set_task is one Lose.
LEMMA LoseRefines ==
    ASSUME IInv, WhereIs, WhereIs', NEW th \in Thread, NEW t \in hand[th],
           hand' = [hand EXCEPT ![th] = hand[th] \ {t}], lost' = lost \cup {t},
           UNCHANGED shared
    PROVE  P!Next
<1>0. TypeOK /\ HandInv /\ t \in Task /\ heap' = heap /\ status' = status
  BY DEF IInv, TypeOK, shared
<1>1. /\ where[t] = th /\ where'[t] = "lost"
  BY <1>0 DEF WhereIs
<1>2. \A x \in Task \ {t} : where'[x] = where[x]
  <2> SUFFICES ASSUME NEW x \in Task \ {t} PROVE where'[x] = where[x]
    OBVIOUS
  <2>1. \A o \in Thread : x \in hand'[o] <=> x \in hand[o]
    BY <1>0 DEF TypeOK
  <2> QED BY <1>0, <2>1, SamePlace, ZenonT(30)
<1>3. P!Lose(th, t)
  BY <1>0, <1>1, <1>2, OneMoved DEF P!Lose
<1> QED BY <1>0, <1>3 DEF P!Next

LEMMA MallocRefines ==
    ASSUME IInv, WhereIs, WhereIs', NEW th \in Thread, GetMalloc(th)
    PROVE  P!Next
<1>0. TypeOK /\ HandInv
  BY ZenonT(30) DEF IInv
<1>1. PICK t \in Task \ heap : /\ heap' = heap \cup {t}
                               /\ status' = [status EXCEPT ![t] = TASK_Q_UNKNOWN]
                               /\ hand' = [hand EXCEPT ![th] = hand[th] \cup {t}]
                               /\ lost' = lost
  BY ZenonT(30) DEF GetMalloc
<1>2. where[t] = "free"
  BY <1>1 DEF WhereIs
<1>3. where'[t] = th
  BY <1>0, <1>1 DEF WhereIs, TypeOK
<1>4. \A x \in Task \ {t} : where'[x] = where[x]
  <2> SUFFICES ASSUME NEW x \in Task \ {t} PROVE where'[x] = where[x]
    OBVIOUS
  <2>1. /\ \A o \in Thread : x \in hand'[o] <=> x \in hand[o]
        /\ status'[x] = status[x] /\ (x \in heap' <=> x \in heap)
    BY <1>0, <1>1 DEF TypeOK
  <2> QED BY <1>1, <2>1, SamePlace, Zenon
<1>5. P!Malloc(th, t)
  BY <1>2, <1>3, <1>4, OneMoved DEF P!Malloc
<1> QED BY <1>5 DEF P!Next

LEMMA FreeRefines ==
    ASSUME IInv, WhereIs, WhereIs', NEW th \in Thread, ScanFree(th)
    PROVE  P!Next
<1> USE QueueAssumption
<1>0. TypeOK /\ HandInv /\ ListInv /\ PoolInv
  BY ZenonT(30) DEF IInv
<1>1. PICK t \in Task : t = Visited(th) /\ On(pfstask[TASK_Q_HOME], t)
  BY VisitedFacts DEF ScanFree
<1>2. last[t] >= 0 /\ heap' = heap \ {t} /\ UNCHANGED <<status, hand, lost>>
  BY <1>1 DEF ScanFree
<1>3. where[t] = TASK_Q_HOME
  BY <1>0, <1>1 DEF ListInv, WhereIs
<1>4. where'[t] = "free" /\ t \notin Pool
  BY <1>0, <1>2 DEF WhereIs, PoolInv
<1>5. \A x \in Task \ {t} : where'[x] = where[x]
  BY <1>2, SamePlace
<1>6. P!Release(t)
  BY <1>3, <1>4, <1>5, OneMoved DEF P!Release
<1> QED BY <1>6 DEF P!Next

\* Every step of the lists, counters and mutexes is a step of the pool or
\* moves no record.
LEMMA StepRefines ==
    ASSUME IInv, WhereIs, WhereIs', [Next]_vars
    PROVE  P!Next \/ where' = where
<1> USE ThreadAssumption, QueueAssumption
<1>1. CASE UNCHANGED vars
  BY <1>1, NoneMoved, ZenonT(30) DEF vars, shared
<1>2. ASSUME NEW th \in Thread, Begin(th) PROVE P!Next \/ where' = where
  <2>1. ASSUME NEW c, Enter(th, c) PROVE where' = where
    BY <2>1, NoneMoved DEF Enter
  <2>2. ASSUME NEW t \in hand[th], NEW q, SetTimeout(th, t, q) PROVE P!Next
    BY <2>2, LoseRefines, Zenon DEF SetTimeout
  <2> QED BY <1>2, <2>1, <2>2, Zenon DEF Begin, GetBegin, ScanBegin, SetBegin
<1>3. ASSUME NEW th \in Thread, Step(th) PROVE P!Next \/ where' = where
  <2>1. CASE GetHead(th)
    <3>1. PICK q \in Queue \ Parking : q = call[th].q
      BY <2>1, ZenonT(30) DEF IInv, GetHead, Inside, TypeOK, Call, CallInv
    <3>2. Head(pfstask[q]) \in Task /\ On(pfstask[q], Head(pfstask[q]))
      <4>1. pfstask[q] \in Seq(Task) /\ Distinct(pfstask[q]) /\ pfstask[q] # << >>
        BY <2>1, <3>1, Zenon DEF IInv, TypeOK, ListInv, GetHead
      <4> QED BY <4>1, TailFacts, Zenon
    <3>3. PICK t \in Task : t = Head(pfstask[q])
      BY <3>2, ZenonT(30)
    <3>4. /\ hand' = [hand EXCEPT ![th] = hand[th] \cup {t}] /\ heap' = heap /\ lost' = lost
          /\ status' = [status EXCEPT ![t] = TASK_Q_UNKNOWN]
      BY <2>1, <3>1, <3>3 DEF GetHead
    <3>5. \A x \in Task \ {t} : status'[x] = status[x]
      BY <3>4 DEF IInv, TypeOK
    <3> QED BY <3>2, <3>3, <3>4, <3>5, TakeRefines, Zenon
  <2>2. CASE GetMalloc(th)
    BY <2>2, MallocRefines
  <2>3. CASE GetNothing(th) \/ ScanKeep(th) \/ ScanEnd(th) \/ NestLock(th)
    BY <2>3, NoneMoved DEF GetNothing, ScanKeep, ScanEnd, NestLock
  <2>4. CASE Set(th)
    <3>1. PICK q \in Queue, t \in hand[th] : q = call[th].q /\ t = call[th].t
      BY <2>4, ZenonT(30) DEF IInv, Set, Inside, TypeOK, Call, CallInv
    <3>2. /\ hand' = IF q \in Parking THEN hand ELSE [hand EXCEPT ![th] = hand[th] \ {t}]
          /\ heap' = heap /\ lost' = lost /\ status' = [status EXCEPT ![t] = q]
      BY <2>4, <3>1 DEF Set, SetBody
    <3>3. CASE q \notin Parking
      BY <3>2, <3>3, PutRefines, Zenon
    <3>4. CASE q \in Parking
      <4>1. hand' = hand
        BY <3>2, <3>4
      <4>2. t \in Task /\ \A x \in Task \ {t} : status'[x] = status[x]
        BY <3>2 DEF IInv, TypeOK
      <4>3. where[t] = th
        BY <4>2 DEF WhereIs
      <4>4. where'[t] = th
        BY <4>1, <4>2, ZenonT(30) DEF WhereIs
      <4>5. \A x \in Task : where'[x] = where[x]
        BY <3>2, <4>1, <4>2, <4>3, <4>4, SamePlace, ZenonT(30)
      <4> QED BY <4>5 DEF WhereIs
    <3> QED BY <3>3, <3>4, ZenonT(30)
  <2>5. CASE ScanTake(th)
    <3>1. PICK q \in Queue \ Parking, t \in Task : q = call[th].q /\ t = Visited(th) /\ On(pfstask[q], t)
      BY <2>5, VisitedFacts DEF ScanTake
    <3>2. /\ hand' = [hand EXCEPT ![th] = hand[th] \cup {t}]
          /\ heap' = heap /\ lost' = lost /\ status' = status
      BY <2>5, <3>1 DEF ScanTake
    <3> QED BY <3>1, <3>2, TakeRefines, Zenon
  <2>6. CASE ScanFree(th)
    BY <2>6, FreeRefines
  <2>7. CASE NestSet(th)
    <3>1. PICK t \in hand[th] : t = call[th].t
      BY <2>7 DEF IInv, NestSet, CallInv
    <3> QED BY <2>7, <3>1, PutRefines, Zenon DEF NestSet, SetBody
  <2>8. CASE NestTimeout(th)
    <3>1. PICK t \in hand[th] : t = call[th].t
      BY <2>8 DEF IInv, NestTimeout, CallInv
    <3> QED BY <2>8, <3>1, LoseRefines, Zenon DEF NestTimeout
  <2> QED BY <1>3, <2>1, <2>2, <2>3, <2>4, <2>5, <2>6, <2>7, <2>8 DEF Step
<1> QED BY <1>1, <1>2, <1>3 DEF Next

LEMMA InitRefines == Init => P!Init
<1> SUFFICES ASSUME Init PROVE P!Init
  OBVIOUS
<1>1. WhereIs
  BY InitIInv, WhereFacts
<1>2. ASSUME NEW t \in Task PROVE where[t] = IF t \in Pool THEN TASK_Q_HOME ELSE "free"
  BY <1>1 DEF Init, WhereIs
<1>3. where = [t \in Task |-> where[t]]
  BY <1>1 DEF WhereIs
<1> QED BY <1>2, <1>3 DEF P!Init

\* pfs_get_task, pfs_set_task and the scans, with their lists, counters and
\* mutexes, implement a pool in which every record is in one place and changes
\* place in one step.
THEOREM Refinement == Spec => ImplementsTaskPool
<1>1. IInv => WhereIs
  BY WhereFacts
<1>2. IInv /\ WhereIs /\ WhereIs' /\ [Next]_vars => [P!Next]_where
  BY StepRefines
<1> QED BY <1>1, <1>2, InitRefines, Invariance, PTL DEF Spec, ImplementsTaskPool, P!Spec
=============================================================================
