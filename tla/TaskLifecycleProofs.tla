------------------------ MODULE TaskLifecycleProofs ------------------------
(***************************************************************************)
(* Proofs about the PID ring, for every number of PIDs, and then about     *)
(* Zeus and Hades, for any number of tasks and PIDs, queues of any length, *)
(* and any number of failures and kills.                                   *)
(***************************************************************************)
EXTENDS TaskLifecycle, FiniteSetTheorems, TLAPS

(* The wrapped successor of an index, without the remainder.               *)
LEMMA NextSlotWraps ==
    ASSUME NEW i \in Pid
    PROVE  /\ NextSlot(i) \in Pid
           /\ NextSlot(i) = IF i = MaxPid THEN 0 ELSE i + 1
<1>1. CASE i = MaxPid
  <2>1. i + 1 = NumPids
    BY <1>1, NumPidsAssumption DEF MaxPid
  <2>2. NumPids % NumPids = 0
    BY NumPidsAssumption, SMT
  <2> QED
    BY <1>1, <2>1, <2>2, NumPidsAssumption DEF NextSlot, Pid, MaxPid
<1>2. CASE i # MaxPid
  <2>1. i + 1 \in 0..(NumPids - 1)
    BY <1>2, NumPidsAssumption DEF Pid, MaxPid
  <2>2. (i + 1) % NumPids = i + 1
    BY <2>1, NumPidsAssumption, SMT
  <2> QED
    BY <1>2, <2>1, <2>2 DEF NextSlot, Pid, MaxPid
<1> QED
  BY <1>1, <1>2
-----------------------------------------------------------------------------
(* With PID p out besides the kernel's, the distinct free PIDs cannot fill *)
(* all the slots but one: at most NumPids - 2 of them exist.               *)
LEMMA AnotherEmptySlot ==
    ASSUME PidTypeOK, Kernel \in used, FreePidsAreUnused,
           NEW p \in used \ {Kernel}, NEW k \in Pid
    PROVE  \E i \in Pid \ {k} : ~Filled(i)
<1> DEFINE S == Pid \ {k}
           T == (Pid \ {Kernel}) \ {p}
           f == [i \in S |-> pid_table[i]]
<1>1. SUFFICES ASSUME \A i \in S : Filled(i)
               PROVE  FALSE
  OBVIOUS
<1>2. f \in [S -> T]
  BY <1>1 DEF PidTypeOK, FreePidsAreUnused, Filled
<1>3. /\ IsFiniteSet(Pid)
      /\ Cardinality(Pid) = NumPids
  <2>1. 0 \in Int /\ MaxPid \in Int /\ ~(0 > MaxPid) /\ MaxPid - 0 + 1 = NumPids
    BY NumPidsAssumption DEF MaxPid
  <2> QED
    BY <2>1, FS_Interval DEF Pid
<1>4. Kernel \in Pid /\ p \in Pid \ {Kernel}
  BY DEF PidTypeOK
<1>5. IsFiniteSet(S) /\ Cardinality(S) = NumPids - 1
  BY <1>3, FS_RemoveElement
<1>6. IsFiniteSet(Pid \ {Kernel}) /\ Cardinality(Pid \ {Kernel}) = NumPids - 1
  BY <1>3, <1>4, FS_RemoveElement
<1>7. IsFiniteSet(T) /\ Cardinality(T) = NumPids - 2
  BY <1>4, <1>6, FS_RemoveElement, NumPidsAssumption
<1>8. Cardinality(T) < Cardinality(S)
  BY <1>5, <1>7, NumPidsAssumption
<1>9. PICK x, y \in S : x # y /\ f[x] = f[y]
  <2> HIDE DEF S, T, f
  <2> QED BY <1>2, <1>5, <1>7, <1>8, FS_PigeonHole
<1> QED
  BY <1>1, <1>9 DEF FreePidsAreUnused, Filled
-----------------------------------------------------------------------------
(* What each operation does to the PIDs that are out of reach.             *)
LEMMA AllocateLosesNothing ==
    ASSUME PidTypeOK, FreePidsAreUnused, PidAllocate
    PROVE  /\ PidTypeOK' /\ FreePidsAreUnused'
           /\ Lost' = Lost
<1> USE DEF PidTypeOK, PidAllocate
<1>1. PidTypeOK'
  BY NextSlotWraps, NumPidsAssumption DEF Pid, MaxPid, None
<1>2. FreePidsAreUnused'
  BY DEF FreePidsAreUnused
<1>3. Lost' = Lost
  BY NumPidsAssumption DEF Lost, FreePidsAreUnused, None, Pid, MaxPid
<1> QED
  BY <1>1, <1>2, <1>3

LEMMA FreeLosesAtMostTheOverwritten ==
    ASSUME PidTypeOK, FreePidsAreUnused, NEW pid \in used \ {Kernel}, PidFree(pid)
    PROVE  /\ PidTypeOK' /\ FreePidsAreUnused'
           /\ Lost' \subseteq Lost \cup {pid_table[tail]}
           /\ ~Filled(tail) => Lost' = Lost
<1> USE DEF PidTypeOK, PidFree
<1>1. PidTypeOK'
  BY NextSlotWraps
<1>2. FreePidsAreUnused'
  BY DEF FreePidsAreUnused
<1>3. Lost' \subseteq Lost \cup {pid_table[tail]}
  BY DEF Lost
<1>4. ~Filled(tail) => Lost' = Lost
  BY NumPidsAssumption DEF Lost, Filled, None, Pid, MaxPid
<1> QED
  BY <1>1, <1>2, <1>3, <1>4
-----------------------------------------------------------------------------
LEMMA InitEstablishes == PidInit => PidInv
<1> SUFFICES ASSUME PidInit PROVE PidInv
  OBVIOUS
<1> USE NumPidsAssumption DEF PidInit, Pid, MaxPid, None, Kernel
<1>1. PidTypeOK
  <2>1. pid_table \in [Pid -> Pid \cup {None}]
    OBVIOUS
  <2>2. head \in Pid /\ tail \in Pid
    OBVIOUS
  <2>3. used \subseteq Pid
    OBVIOUS
  <2>4. refused \in BOOLEAN
    BY Zenon
  <2> QED
    BY <2>1, <2>2, <2>3, <2>4 DEF PidTypeOK
<1>2. FreePidsAreUnused
  BY DEF FreePidsAreUnused
<1>3. Behind
  BY DEF Behind, Filled, Lost
<1> QED
  BY <1>1, <1>2, <1>3 DEF PidInv

LEMMA AllocatePreserves == PidInv /\ PidAllocate => PidInv'
<1> SUFFICES ASSUME PidInv, PidAllocate PROVE PidInv'
  OBVIOUS
<1> USE DEF PidInv
<1>1. PidTypeOK' /\ FreePidsAreUnused' /\ Lost' = Lost
  BY AllocateLosesNothing
<1>2. Kernel \in used'
  BY DEF PidAllocate
<1>3. Filled(head) /\ head' = IF head = MaxPid THEN 0 ELSE head + 1
  BY NextSlotWraps DEF PidAllocate, Filled, PidTypeOK
<1>4. \A i \in Pid : Filled(i)' <=> Filled(i) /\ i # head
  BY DEF PidAllocate, Filled, PidTypeOK
<1>5. head \in Pid /\ tail \in Pid /\ tail' = tail
  BY DEF PidTypeOK, PidAllocate
<1> USE NumPidsAssumption DEF Pid, MaxPid
<1>6. CASE Behind
  <2>1. Lost' = {}
    BY <1>1, <1>6 DEF Behind
  <2>2. CASE head = MaxPid
    <3>1. Drained'
      BY <1>3, <1>4, <1>5, <1>6, <2>1, <2>2 DEF Behind, Drained
    <3> QED
      BY <1>1, <1>2, <3>1
  <2>3. CASE head # MaxPid
    <3>1. Behind'
      BY <1>3, <1>4, <1>5, <1>6, <2>1, <2>3 DEF Behind
    <3> QED
      BY <1>1, <1>2, <3>1
  <2> QED
    BY <2>2, <2>3
<1>7. CASE Drained
  BY <1>3, <1>5, <1>7 DEF Drained
<1>8. CASE InStep
  <2>1. AtMostOnePidLost'
    BY <1>1, <1>8 DEF InStep, AtMostOnePidLost
  <2>2. \A i \in Pid : Filled(i)' <=> IF head' <= tail'
                                      THEN head' <= i /\ i < tail'
                                      ELSE head' <= i \/ i < tail'
    BY <1>3, <1>4, <1>5, <1>8 DEF InStep
  <2> QED
    BY <1>1, <1>2, <2>1, <2>2 DEF InStep
<1> QED
  BY <1>6, <1>7, <1>8

LEMMA FreePreserves ==
    ASSUME PidInv, NEW pid \in used \ {Kernel}, PidFree(pid)
    PROVE  PidInv'
<1> USE DEF PidInv
<1>1. /\ PidTypeOK' /\ FreePidsAreUnused'
      /\ Lost' \subseteq Lost \cup {pid_table[tail]}
      /\ ~Filled(tail) => Lost' = Lost
  BY FreeLosesAtMostTheOverwritten
<1>2. Kernel \in used'
  BY DEF PidFree
<1>3. tail' = IF tail = MaxPid THEN 0 ELSE tail + 1
  BY NextSlotWraps DEF PidFree, PidTypeOK
<1>4. \A i \in Pid : Filled(i)' <=> Filled(i) \/ i = tail
  BY NumPidsAssumption DEF PidFree, Filled, PidTypeOK, Pid, MaxPid, None
<1>5. head \in Pid /\ tail \in Pid /\ head' = head
  BY DEF PidTypeOK, PidFree
<1>6. \A k \in Pid : \E i \in Pid \ {k} : ~Filled(i)
  BY AnotherEmptySlot
<1> USE NumPidsAssumption DEF Pid, MaxPid
<1>7. CASE Behind /\ tail # MaxPid
  <2>1. ~Filled(tail)
    BY <1>5, <1>7 DEF Behind
  <2>2. Behind'
    BY <1>1, <1>3, <1>4, <1>5, <1>7, <2>1 DEF Behind
  <2> QED
    BY <1>1, <1>2, <2>2
<1>8. CASE Behind /\ tail = MaxPid
  <2>1. head # 0
    BY <1>5, <1>6, <1>8 DEF Behind
  <2>2. AtMostOnePidLost'
    BY <1>1, <1>8 DEF Behind, AtMostOnePidLost
  <2>3. InStep'
    BY <1>3, <1>4, <1>5, <1>8, <2>1, <2>2 DEF Behind, InStep
  <2> QED
    BY <1>1, <1>2, <2>3
<1>9. CASE Drained
  <2>1. ~Filled(tail)
    BY <1>5, <1>9 DEF Drained
  <2>2. Behind'
    BY <1>1, <1>3, <1>4, <1>5, <1>9, <2>1 DEF Drained, Behind
  <2> QED
    BY <1>1, <1>2, <2>2
<1>10. CASE InStep
  <2>1. ~Filled(tail)
    BY <1>5, <1>10 DEF InStep
  <2>2. PICK i \in Pid \ {tail} : ~Filled(i)
    BY <1>5, <1>6
  <2>3. tail' # head
    BY <1>3, <1>5, <1>10, <2>2 DEF InStep
  <2>4. AtMostOnePidLost'
    BY <1>1, <1>10, <2>1 DEF InStep, AtMostOnePidLost
  <2>5. InStep'
    BY <1>3, <1>4, <1>5, <1>10, <2>3, <2>4 DEF InStep
  <2> QED
    BY <1>1, <1>2, <2>5
<1> QED
  BY <1>7, <1>8, <1>9, <1>10

LEMMA RefusePreserves == PidInv /\ PidRefuse => PidInv'
<1> SUFFICES ASSUME PidInv, PidRefuse PROVE PidInv'
  OBVIOUS
<1>1. UNCHANGED <<pid_table, head, tail, used>>
  BY DEF PidRefuse
<1>2. refused' \in BOOLEAN
  BY Zenon DEF PidRefuse
<1>3. PidTypeOK'
  BY <1>1, <1>2 DEF PidInv, PidTypeOK
<1> QED
  BY <1>1, <1>3 DEF PidInv, FreePidsAreUnused, Behind, Drained, InStep, AtMostOnePidLost,
                    Lost, Filled

LEMMA StutterPreserves == PidInv /\ UNCHANGED pidVars => PidInv'
BY DEF pidVars, PidInv, PidTypeOK, FreePidsAreUnused, Behind, Drained, InStep,
       AtMostOnePidLost, Lost, Filled

(* The shapes of the ring are invariant.                                   *)
THEOREM PidInvariance == PidSpec => []PidInv
<1>1. PidInit => PidInv
  BY InitEstablishes
<1>2. PidInv /\ [PidNext]_pidVars => PidInv'
  <2> SUFFICES ASSUME PidInv, [PidNext]_pidVars PROVE PidInv'
    OBVIOUS
  <2>1. CASE PidAllocate
    BY <2>1, AllocatePreserves
  <2>2. CASE PidRefuse
    BY <2>2, RefusePreserves
  <2>3. ASSUME NEW pid \in used \ {Kernel}, PidFree(pid)
        PROVE  PidInv'
    BY <2>3, FreePreserves
  <2>4. CASE UNCHANGED pidVars
    BY <2>4, StutterPreserves
  <2> QED
    BY <2>1, <2>2, <2>3, <2>4 DEF PidNext
<1> QED
  BY <1>1, <1>2, PTL DEF PidSpec

(* Every slot and index of the ring keeps its type (task.c: pid_table,     *)
(* head, tail).                                                            *)
THEOREM PidTypeCorrect == PidSpec => []PidTypeOK
<1>1. PidInv => PidTypeOK
  BY DEF PidInv
<1> QED
  BY <1>1, PidInvariance, PTL

(* pid_allocate never returns a PID that somebody still uses, whatever the *)
(* order of the calls to pid_allocate and pid_free.                        *)
THEOREM PidsAreExclusive == PidSpec => []FreePidsAreUnused
<1>1. PidInv => FreePidsAreUnused
  BY DEF PidInv
<1> QED
  BY <1>1, PidInvariance, PTL

(* The misplaced tail of pid_table costs at most one PID for ever.         *)
THEOREM LossIsBounded == PidSpec => []AtMostOnePidLost
<1>1. PidInv => AtMostOnePidLost
  BY DEF PidInv, Behind, Drained, InStep, AtMostOnePidLost
<1> QED
  BY <1>1, PidInvariance, PTL
-----------------------------------------------------------------------------
(* An empty slot at head means that at most one PID is not in use.         *)
LEMMA RefusalIsExhaustion ==
    ASSUME PidInv, pid_table[head] = None
    PROVE  \A p, q \in Pid \ used : p = q
<1> USE NumPidsAssumption DEF PidInv, PidTypeOK, Pid, MaxPid
<1>1. ~Filled(head)
  BY DEF Filled
<1>2. ASSUME NEW p \in Pid \ used, p \notin Lost
      PROVE  \E i \in Pid : Filled(i) /\ pid_table[i] = p
  BY <1>2 DEF Lost, Filled, None
<1>3. CASE Behind
  <2>1. \A i \in Pid : Filled(i) => i = MaxPid
    BY <1>1, <1>3 DEF Behind
  <2> QED
    BY <1>2, <1>3, <2>1 DEF Behind
<1>4. CASE Drained
  BY <1>2, <1>4 DEF Drained
<1>5. CASE InStep
  <2>1. \A i \in Pid : ~Filled(i)
    BY <1>1, <1>5 DEF InStep
  <2> QED
    BY <1>2, <1>5, <2>1 DEF InStep, AtMostOnePidLost
<1> QED
  BY <1>3, <1>4, <1>5

(* The ring implements the set of PIDs that Zeus and Hades rely on: it     *)
(* hands out only unused PIDs, never the kernel's, and refuses only when   *)
(* at most one is left.                                                    *)
THEOREM RingImplementsPool == PidSpec => PoolSpec
<1>1. PidInit => Pool!Init
  BY DEF PidInit, Pool!Init
<1>2. PidInv /\ [PidNext]_pidVars => [Pool!Next]_<<used, refused>>
  <2> SUFFICES ASSUME PidInv, [PidNext]_pidVars
               PROVE  [Pool!Next]_<<used, refused>>
    OBVIOUS
  <2>1. CASE PidAllocate
    <3>1. pid_table[head] \in Pid \ used
      BY <2>1 DEF PidAllocate, PidInv, PidTypeOK, FreePidsAreUnused
    <3>2. Pool!Allocate(pid_table[head])
      BY <2>1, <3>1, Zenon DEF PidAllocate, Pool!Allocate
    <3> QED
      BY <3>1, <3>2 DEF Pool!Next
  <2>2. CASE PidRefuse
    <3>1. Pool!Refuse
      BY <2>2, RefusalIsExhaustion, Zenon DEF PidRefuse, Pool!Refuse
    <3> QED
      BY <3>1 DEF Pool!Next
  <2>3. ASSUME NEW pid \in used \ {Kernel}, PidFree(pid)
        PROVE  Pool!Next
    <3>1. Pool!Free(pid)
      BY <2>3, Zenon DEF PidFree, Pool!Free
    <3> QED
      BY <3>1 DEF Pool!Next, PidInv, PidTypeOK
  <2>4. CASE UNCHANGED pidVars
    BY <2>4 DEF pidVars
  <2> QED
    BY <2>1, <2>2, <2>3, <2>4 DEF PidNext
<1> QED
  BY <1>1, <1>2, PidInvariance, PTL DEF PidSpec, PoolSpec, Pool!Spec, Pool!vars
-----------------------------------------------------------------------------
(* What the proofs need to know of the sets of tasks and PIDs.             *)
LEMMA SetFacts ==
    /\ Task = {InitTask} \cup UserTask /\ InitTask \notin UserTask
    /\ Nobody \notin Task /\ None \notin Task /\ None \notin Pid
    /\ Kernel \in Pid
    /\ UserTask \subseteq Int /\ Pid \subseteq Int
BY NumPidsAssumption, LifecycleAssumption
   DEF Task, InitTask, UserTask, Nobody, None, Pid, Kernel, MaxPid

(* A nonempty queue has a first element.                                   *)
LEMMA FirstOfNonempty ==
    ASSUME NEW S, NEW s \in Seq(S), s # <<>>
    PROVE  /\ Len(s) \in Nat /\ Len(s) >= 1 /\ 1 \in DOMAIN s
           /\ s[1] = Head(s) /\ s[1] \in S
OBVIOUS

(* A queue without repetitions loses its head, or gains a new last.        *)
LEMMA TailIsDistinct ==
    ASSUME NEW S, NEW s \in Seq(S), s # <<>>, Distinct(s)
    PROVE  /\ Head(s) \in Members(s) /\ Head(s) \in S
           /\ Tail(s) \in Seq(S) /\ Distinct(Tail(s))
           /\ Members(Tail(s)) = Members(s) \ {Head(s)}
<1>1. /\ 1 \in DOMAIN s /\ Head(s) = s[1] /\ Head(s) \in S
      /\ Tail(s) \in Seq(S)
  OBVIOUS
<1>2. \A i \in DOMAIN Tail(s) :
         i \in Nat \ {0} /\ i + 1 \in DOMAIN s /\ Tail(s)[i] = s[i + 1]
  OBVIOUS
<1>3. \A i \in DOMAIN s : i = 1 \/ (i - 1 \in DOMAIN Tail(s) /\ s[i] = Tail(s)[i - 1])
  OBVIOUS
<1>4. Distinct(Tail(s))
  BY <1>2 DEF Distinct
<1>5. Members(Tail(s)) \subseteq Members(s) \ {Head(s)}
  <2> SUFFICES ASSUME NEW i \in DOMAIN Tail(s)
               PROVE  Tail(s)[i] \in Members(s) \ {Head(s)}
    BY DEF Members
  <2>1. i + 1 # 1
    BY <1>2
  <2> QED
    BY <1>1, <1>2, <2>1 DEF Members, Distinct
<1>6. Members(s) \ {Head(s)} \subseteq Members(Tail(s))
  BY <1>1, <1>3 DEF Members
<1> QED
  BY <1>1, <1>4, <1>5, <1>6 DEF Members

LEMMA AppendIsDistinct ==
    ASSUME NEW S, NEW s \in Seq(S), NEW x \in S, Distinct(s), x \notin Members(s)
    PROVE  /\ Append(s, x) \in Seq(S) /\ Distinct(Append(s, x))
           /\ Members(Append(s, x)) = Members(s) \cup {x}
<1>1. /\ Append(s, x) \in Seq(S)
      /\ DOMAIN Append(s, x) = DOMAIN s \cup {Len(s) + 1}
      /\ \A i \in DOMAIN s : i # Len(s) + 1 /\ Append(s, x)[i] = s[i]
      /\ Append(s, x)[Len(s) + 1] = x
  OBVIOUS
<1> QED
  BY <1>1 DEF Distinct, Members
-----------------------------------------------------------------------------
(* What the invariant is about; the other variables only have types.       *)
coreVars == <<pidVars, tcb, info, process_table, zeus_queue, zeus, hades_queue, hades>>

LEMMA CoreUnchanged ==
    ASSUME LifecycleInv, UNCHANGED coreVars, LifecycleTypeOK'
    PROVE  LifecycleInv'
<1> USE DEF coreVars
<1>1. PidInv'
  BY StutterPreserves DEF LifecycleInv
<1>2. TasksInv'
  BY DEF LifecycleInv, TasksInv, Live, pidVars
<1>3. Unpublished' = Unpublished /\ Handled' = Handled /\ Unborn' = Unborn
  BY DEF Unpublished, Handled, Unborn
<1>4. TableInv'
  BY <1>3 DEF LifecycleInv, TableInv, TableIsExact, Shown, Live
<1>5. QueueInv'
  <2>1. Unreaped' = Unreaped
    BY <1>3 DEF Unreaped, Live
  <2> QED
    BY <2>1 DEF LifecycleInv, QueueInv, Members, Distinct
<1>6. ZeusInv'
  BY <1>3 DEF LifecycleInv, ZeusInv, OwnedBy, Live, Busy, pidVars
<1>7. HadesInv'
  BY <1>3 DEF LifecycleInv, HadesInv, OwnedBy, Live, Busy, pidVars
<1> QED
  BY <1>1, <1>2, <1>4, <1>5, <1>6, <1>7 DEF LifecycleInv

LEMMA UsersLeaveTheCore ==
    ASSUME LifecycleInv,
           \/ \E t \in Task : Wait(t)
           \/ \E t \in UserTask : RunUnpublished(t) \/ RunInFreedHeap(t)
           \/ InitScan \/ InitScanDone \/ ZeusReadsFreedInfo \/ HadesCountsFreedHeap
    PROVE  LifecycleInv'
<1>1. UNCHANGED coreVars
  BY DEF Wait, RunUnpublished, RunInFreedHeap, InitScan, InitScanDone,
         ZeusReadsFreedInfo, HadesCountsFreedHeap, coreVars
<1>2. UNCHANGED <<refcount, freed_heaps, num_tasks, failures, kills>>
  BY DEF Wait, RunUnpublished, RunInFreedHeap, InitScan, InitScanDone,
         ZeusReadsFreedInfo, HadesCountsFreedHeap
<1>3. table_lock' \in {"free", "init", "hades"}
  BY DEF Wait, RunUnpublished, RunInFreedHeap, InitScan, InitScanDone,
         ZeusReadsFreedInfo, HadesCountsFreedHeap, LifecycleInv,
         LifecycleTypeOK
<1>4. children' \in [Task -> Seq(UserTask)]
  <2>1. CASE \E t \in Task : Wait(t)
    BY <2>1 DEF Wait, LifecycleInv, LifecycleTypeOK
  <2>2. CASE UNCHANGED children
    BY <2>2 DEF LifecycleInv, LifecycleTypeOK
  <2> QED
    BY <2>1, <2>2 DEF RunUnpublished, RunInFreedHeap, InitScan, InitScanDone,
         ZeusReadsFreedInfo, HadesCountsFreedHeap
<1>5. LifecycleTypeOK'
  BY <1>1, <1>2, <1>3, <1>4, SMTT(30) DEF LifecycleInv, LifecycleTypeOK, PidTypeOK, coreVars, pidVars
<1> QED
  BY <1>1, <1>5, CoreUnchanged

(* A task changes its state and is not yet reported: it asks, is answered, *)
(* ends, or is taken from the lists.                                       *)
Holding == {"ready", "asking", "ending"} \cup Unlisted

LEMMA StateChangePreserves ==
    ASSUME LifecycleInv, NEW t \in Task, t \notin Unpublished,
           NEW s \in Holding, t = InitTask => s \in {"ready", "asking"},
           tcb[t] \in Holding,
           tcb' = [tcb EXCEPT ![t] = s],
           UNCHANGED <<used, info, process_table, zeus, hades_queue>>,
           hades'.pc = hades.pc, hades'.pid = hades.pid, hades'.task = hades.task
    PROVE  /\ tcb' \in [Task -> TcbState]
           /\ TasksInv' /\ TableInv' /\ QueueInv' /\ HadesInv'
           /\ Unborn' = Unborn
           /\ zeus.pc = "publish" => tcb'[zeus.child] = "ready"
<1> USE SetFacts
<1>1. /\ tcb \in [Task -> TcbState]
      /\ \A u \in Task : u # t => tcb'[u] = tcb[u]
      /\ tcb'[t] = s /\ s \notin {"unborn", "freed"} /\ tcb[t] \notin {"unborn", "freed"}
  BY DEF LifecycleInv, LifecycleTypeOK, Holding, Unlisted
<1>2. tcb' \in [Task -> TcbState]
  BY <1>1 DEF TcbState, Holding
<1>3. Unpublished' = Unpublished /\ Handled' = Handled /\ Unborn' = Unborn
  BY <1>1 DEF Unpublished, Handled, Unborn
<1>4. TasksInv'
  BY <1>1 DEF LifecycleInv, TasksInv, Live
<1>5. TableInv'
  <2>1. \A u \in UserTask : Shown(u)' <=> Shown(u)
    BY <1>3 DEF Shown, Live
  <2> QED
    BY <2>1 DEF LifecycleInv, TableInv, TableIsExact
<1>6. QueueInv'
  <2>1. Unreaped' = Unreaped
    BY <1>1, <1>3 DEF Unreaped, Live
  <2> QED
    BY <2>1 DEF LifecycleInv, QueueInv, Members, Distinct
<1>7. HadesInv'
  BY <1>1, <1>3 DEF LifecycleInv, HadesInv, OwnedBy, Live, Busy
<1>8. zeus.pc = "publish" => tcb'[zeus.child] = "ready"
  BY <1>1 DEF LifecycleInv, ZeusInv, Unpublished
<1> QED
  BY <1>2, <1>3, <1>4, <1>5, <1>6, <1>7, <1>8

(* A death: whoever runs prvDeleteTCB, the PID was not yet in the queue.   *)
LEMMA DeathPreserves ==
    ASSUME LifecycleInv, NEW t \in UserTask, t \notin Unpublished, DeleteTCB(t),
           tcb[t] \in Unlisted,
           UNCHANGED <<used, info, process_table, zeus, hades>>
    PROVE  /\ tcb' \in [Task -> TcbState] /\ hades_queue' \in Seq(Pid)
           /\ TasksInv' /\ TableInv' /\ QueueInv' /\ HadesInv'
           /\ Unborn' = Unborn
           /\ zeus.pc = "publish" => tcb'[zeus.child] = "ready"
<1> USE SetFacts
<1>1. /\ tcb \in [Task -> TcbState]
      /\ tcb' = [tcb EXCEPT ![t] = "freed"]
      /\ \A u \in Task : u # t => tcb'[u] = tcb[u]
      /\ tcb'[t] = "freed" /\ tcb[t] \notin {"unborn", "freed"}
  BY DEF LifecycleInv, LifecycleTypeOK, DeleteTCB, Unlisted
<1>2. tcb' \in [Task -> TcbState]
  BY <1>1 DEF TcbState
<1>3. hades'.pc = hades.pc /\ hades'.pid = hades.pid /\ hades'.task = hades.task
  OBVIOUS
<1>4. Unpublished' = Unpublished /\ Handled' = Handled /\ Unborn' = Unborn
  BY <1>1, <1>3 DEF Unpublished, Handled, Unborn
<1>5. Live(t) /\ info[t].pid \in Pid /\ t \notin Handled
  <2>1. info[t].state \in {"none", "live", "freed"}
    BY DEF LifecycleInv, LifecycleTypeOK, TaskInfo
  <2> QED
    BY <1>1, <2>1 DEF LifecycleInv, TasksInv, HadesInv, Live, Handled
<1>6. TasksInv'
  BY <1>1 DEF LifecycleInv, TasksInv, Live
<1>7. TableInv'
  BY <1>3, <1>4 DEF LifecycleInv, TableInv, TableIsExact, Shown, Live
<1>8. hades_queue' \in Seq(Pid) /\ QueueInv'
  <2>1. Unreaped' = Unreaped \cup {t} /\ t \notin Unreaped
    BY <1>1, <1>4, <1>5 DEF Unreaped, Live
  <2>2. info[t].pid \notin {info[u].pid : u \in Unreaped}
    BY <1>5, <2>1 DEF LifecycleInv, TasksInv, Unreaped
  <2>3. hades_queue \in Seq(Pid) /\ hades_queue' = Append(hades_queue, info[t].pid)
    BY DEF LifecycleInv, LifecycleTypeOK, DeleteTCB
  <2>4. /\ hades_queue' \in Seq(Pid) /\ Distinct(hades_queue')
        /\ Members(hades_queue') = Members(hades_queue) \cup {info[t].pid}
    BY <1>5, <2>2, <2>3, AppendIsDistinct, SMTT(30) DEF LifecycleInv, QueueInv
  <2>5. {info'[u].pid : u \in Unreaped'} = {info[u].pid : u \in Unreaped} \cup {info[t].pid}
    BY <2>1
  <2> QED
    BY <2>4, <2>5 DEF LifecycleInv, QueueInv
<1>9. HadesInv'
  BY <1>1, <1>3, <1>4 DEF LifecycleInv, HadesInv, OwnedBy, Live, Busy
<1>10. zeus.pc = "publish" => tcb'[zeus.child] = "ready"
  BY <1>1 DEF LifecycleInv, ZeusInv, Unpublished
<1> QED
  BY <1>2, <1>4, <1>6, <1>7, <1>8, <1>9, <1>10

(* ZeusInv after a step of somebody else that leaves Zeus, the task_infos  *)
(* and his queue alone.                                                    *)
LEMMA ZeusUndisturbed ==
    ASSUME LifecycleInv, UNCHANGED <<used, info, zeus_queue, zeus>>,
           hades'.pc = hades.pc, hades'.pid = hades.pid, Unborn' = Unborn,
           zeus.pc = "publish" => tcb'[zeus.child] = "ready"
    PROVE  ZeusInv'
BY DEF LifecycleInv, ZeusInv, OwnedBy, Live, Busy

LEMMA RequestPreserves ==
    ASSUME LifecycleInv, NEW t \in Task, NEW type \in {"process", "thread"},
           Request(t, type)
    PROVE  LifecycleInv'
<1> USE SetFacts
<1>1. /\ tcb[t] = "ready" /\ tcb' = [tcb EXCEPT ![t] = "asking"]
      /\ zeus_queue = <<>> /\ zeus_queue' = <<[caller |-> t, type |-> type]>>
      /\ UNCHANGED <<info, process_table, zeus, hades_queue, hades, pidVars>>
      /\ UNCHANGED <<refcount, freed_heaps, table_lock, children, num_tasks, failures, kills>>
  BY DEF Request, MayRun
<1>2. t \notin Unpublished
  BY DEF Request, MayRun, LifecycleInv, ZeusInv, Unpublished
<1>3. UNCHANGED used
  BY <1>1 DEF pidVars
<1>4. /\ tcb' \in [Task -> TcbState]
      /\ TasksInv' /\ TableInv' /\ QueueInv' /\ HadesInv'
      /\ Unborn' = Unborn
      /\ zeus.pc = "publish" => tcb'[zeus.child] = "ready"
  BY <1>1, <1>2, <1>3, StateChangePreserves DEF Holding
<1>5. PidInv' /\ PidTypeOK'
  BY <1>1, StutterPreserves DEF LifecycleInv, PidInv
<1>6. zeus_queue' \in Seq([caller : Task, type : {"process", "thread"}])
  BY <1>1
<1>7. LifecycleTypeOK'
  BY <1>1, <1>4, <1>5, <1>6 DEF LifecycleInv, LifecycleTypeOK
<1>8. ZeusInv'
  <2>1. info[t].state # "none"
    BY <1>1 DEF LifecycleInv, TasksInv
  <2>2. zeus_queue'[1].caller = t
    BY <1>1
  <2> QED
    BY <1>1, <1>3, <1>4, <2>1, <2>2 DEF LifecycleInv, ZeusInv, OwnedBy, Live, Busy
<1> QED
  BY <1>4, <1>5, <1>7, <1>8 DEF LifecycleInv

LEMMA ExitPreserves ==
    ASSUME LifecycleInv, NEW t \in UserTask, Exit(t)
    PROVE  LifecycleInv'
<1> USE SetFacts
<1>1. /\ tcb[t] = "ready" /\ tcb' = [tcb EXCEPT ![t] = "ending"]
      /\ UNCHANGED <<info, process_table, zeus_queue, zeus, hades_queue, hades, pidVars>>
      /\ UNCHANGED <<refcount, freed_heaps, table_lock, children, num_tasks, failures, kills>>
      /\ t \notin Unpublished
  BY DEF Exit, MayRun
<1>2. UNCHANGED used
  BY <1>1 DEF pidVars
<1>3. /\ tcb' \in [Task -> TcbState]
      /\ TasksInv' /\ TableInv' /\ QueueInv' /\ HadesInv'
      /\ Unborn' = Unborn
      /\ zeus.pc = "publish" => tcb'[zeus.child] = "ready"
  BY <1>1, <1>2, StateChangePreserves, SetFacts DEF Holding
<1>4. PidInv' /\ PidTypeOK'
  BY <1>1, StutterPreserves DEF LifecycleInv, PidInv
<1>5. LifecycleTypeOK'
  BY <1>1, <1>3, <1>4 DEF LifecycleInv, LifecycleTypeOK
<1>6. ZeusInv'
  BY <1>1, <1>2, <1>3, ZeusUndisturbed
<1> QED
  BY <1>3, <1>4, <1>5, <1>6 DEF LifecycleInv

LEMMA KillPreserves ==
    ASSUME LifecycleInv, NEW t \in UserTask, Kill(t)
    PROVE  LifecycleInv'
<1> USE SetFacts
<1>1. /\ tcb[t] \in {"ready", "asking"} /\ t \notin Unpublished
      /\ \E s \in {"ending", "killed"} : tcb' = [tcb EXCEPT ![t] = s]
      /\ UNCHANGED <<info, process_table, zeus_queue, zeus, hades_queue, hades, pidVars>>
      /\ UNCHANGED <<refcount, freed_heaps, table_lock, children, num_tasks, failures>>
      /\ kills < MaxKills /\ kills' = kills + 1
  BY DEF Kill, Newborn, Unpublished, Unlink
<1>2. UNCHANGED used
  BY <1>1 DEF pidVars
<1>3. /\ tcb' \in [Task -> TcbState]
      /\ TasksInv' /\ TableInv' /\ QueueInv' /\ HadesInv'
      /\ Unborn' = Unborn
      /\ zeus.pc = "publish" => tcb'[zeus.child] = "ready"
  BY <1>1, <1>2, StateChangePreserves DEF Holding, Unlisted
<1>4. PidInv' /\ PidTypeOK'
  BY <1>1, StutterPreserves DEF LifecycleInv, PidInv
<1>5. kills' \in 0..MaxKills
  BY <1>1, LifecycleAssumption DEF LifecycleInv, LifecycleTypeOK
<1>6. LifecycleTypeOK'
  BY <1>1, <1>3, <1>4, <1>5 DEF LifecycleInv, LifecycleTypeOK
<1>7. ZeusInv'
  BY <1>1, <1>2, <1>3, ZeusUndisturbed
<1> QED
  BY <1>3, <1>4, <1>6, <1>7 DEF LifecycleInv

LEMMA IdleReapPreserves ==
    ASSUME LifecycleInv, NEW t \in UserTask, IdleReap(t)
    PROVE  LifecycleInv'
<1> USE SetFacts
<1>1. /\ tcb[t] = "ending" /\ tcb' = [tcb EXCEPT ![t] = "reaped"]
      /\ UNCHANGED <<info, process_table, zeus_queue, zeus, hades_queue, hades, pidVars>>
      /\ UNCHANGED <<refcount, freed_heaps, table_lock, children, num_tasks, failures, kills>>
  BY DEF IdleReap, Unlink
<1>2. UNCHANGED used
  BY <1>1 DEF pidVars
<1>3. t \notin Unpublished
  BY <1>1 DEF LifecycleInv, ZeusInv, Unpublished
<1>4. /\ tcb' \in [Task -> TcbState]
      /\ TasksInv' /\ TableInv' /\ QueueInv' /\ HadesInv'
      /\ Unborn' = Unborn
      /\ zeus.pc = "publish" => tcb'[zeus.child] = "ready"
  BY <1>1, <1>2, <1>3, StateChangePreserves DEF Holding, Unlisted
<1>5. PidInv' /\ PidTypeOK'
  BY <1>1, StutterPreserves DEF LifecycleInv, PidInv
<1>6. LifecycleTypeOK'
  BY <1>1, <1>4, <1>5 DEF LifecycleInv, LifecycleTypeOK
<1>7. ZeusInv'
  BY <1>1, <1>2, <1>4, ZeusUndisturbed
<1> QED
  BY <1>4, <1>5, <1>6, <1>7 DEF LifecycleInv

LEMMA ReportPreserves ==
    ASSUME LifecycleInv, NEW t \in UserTask, Report(t)
    PROVE  LifecycleInv'
<1> USE SetFacts
<1>1. /\ tcb[t] \in Unlisted /\ DeleteTCB(t)
      /\ UNCHANGED <<info, process_table, zeus_queue, zeus, hades, pidVars>>
      /\ UNCHANGED <<refcount, freed_heaps, table_lock, children, num_tasks, failures, kills>>
  BY DEF Report
<1>2. UNCHANGED used
  BY <1>1 DEF pidVars
<1>3. t \notin Unpublished
  BY <1>1 DEF LifecycleInv, ZeusInv, Unpublished, Unlisted
<1>4. /\ tcb' \in [Task -> TcbState] /\ hades_queue' \in Seq(Pid)
      /\ TasksInv' /\ TableInv' /\ QueueInv' /\ HadesInv'
      /\ Unborn' = Unborn
      /\ zeus.pc = "publish" => tcb'[zeus.child] = "ready"
  BY <1>1, <1>2, <1>3, DeathPreserves
<1>5. PidInv' /\ PidTypeOK'
  BY <1>1, StutterPreserves DEF LifecycleInv, PidInv
<1>6. LifecycleTypeOK'
  BY <1>1, <1>4, <1>5 DEF LifecycleInv, LifecycleTypeOK
<1>7. ZeusInv'
  BY <1>1, <1>2, <1>4, ZeusUndisturbed
<1> QED
  BY <1>4, <1>5, <1>6, <1>7 DEF LifecycleInv
-----------------------------------------------------------------------------
(* Zeus *)

(* The parts of the invariant that do not look inside Zeus, except for the *)
(* child he has not published.                                             *)
LEMMA OnlyZeusMoves ==
    ASSUME LifecycleInv, UNCHANGED <<tcb, info, process_table, hades_queue, hades, Unpublished>>
    PROVE  /\ TableInv' /\ QueueInv'
           /\ used \subseteq used' => TasksInv' /\ HadesInv'
<1>1. Handled' = Handled
  BY DEF Handled
<1>2. TableInv'
  BY DEF LifecycleInv, TableInv, TableIsExact, Shown, Live
<1>3. QueueInv'
  <2>1. Unreaped' = Unreaped
    BY <1>1 DEF Unreaped, Live
  <2> QED
    BY <2>1 DEF LifecycleInv, QueueInv, Members, Distinct
<1>4. used \subseteq used' => TasksInv' /\ HadesInv'
  BY DEF LifecycleInv, TasksInv, HadesInv, OwnedBy, Live, Busy
<1> QED
  BY <1>2, <1>3, <1>4

LEMMA ZeusReceivePreserves == LifecycleInv /\ ZeusReceive => LifecycleInv'
<1> SUFFICES ASSUME LifecycleInv, ZeusReceive PROVE LifecycleInv'
  OBVIOUS
<1> USE SetFacts
<1> DEFINE request == zeus_queue[1]
           pid     == pid_table[head]
<1>1. /\ zeus.pc = "wait" /\ zeus_queue # <<>> /\ zeus_queue' = <<>>
      /\ UNCHANGED <<tcb, info, process_table, hades_queue, hades>>
      /\ UNCHANGED <<refcount, freed_heaps, table_lock, children, num_tasks, failures, kills>>
  BY DEF ZeusReceive
<1>2. \/ /\ PidAllocate
         /\ zeus' = [zeus EXCEPT !.pc = "build", !.pid = pid, !.child = Nobody,
                                 !.caller = request.caller, !.type = request.type]
      \/ /\ PidRefuse
         /\ zeus' = [zeus EXCEPT !.pc = "answer", !.pid = None, !.child = Nobody,
                                 !.caller = request.caller, !.type = request.type]
  BY DEF ZeusReceive
<1>3. /\ request \in [caller : Task, type : {"process", "thread"}]
      /\ info[request.caller].state # "none"
  BY <1>1, FirstOfNonempty DEF LifecycleInv, LifecycleTypeOK, ZeusInv
<1>4. PidInv' /\ PidTypeOK'
  BY <1>2, AllocatePreserves, RefusePreserves DEF LifecycleInv, PidInv
<1>5. \/ /\ PidAllocate /\ pid \in Pid \ used /\ pid # Kernel
         /\ used' = used \cup {pid}
      \/ PidRefuse /\ used' = used
  BY <1>2 DEF LifecycleInv, PidInv, PidTypeOK, FreePidsAreUnused, PidAllocate, PidRefuse
<1>6. \/ zeus'.pc = "build" /\ zeus'.pid = pid /\ pid \in Pid \ used /\ pid # Kernel
         /\ used' = used \cup {pid}
      \/ zeus'.pc = "answer" /\ zeus'.pid = None /\ used' = used
  <2>1. zeus \in [pc : {"wait", "build", "publish", "count", "answer", "delay"},
                  caller : Task \cup {None}, type : {"process", "thread"},
                  pid : Pid \cup {None}, child : UserTask \cup {Nobody}, loaded : Int]
    BY DEF LifecycleInv, LifecycleTypeOK
  <2>2. ~(PidAllocate /\ PidRefuse)
    BY DEF PidAllocate, PidRefuse
  <2> HIDE DEF pid, request
  <2> QED
    BY <1>2, <1>5, <2>1, <2>2
<1>7. /\ zeus' \in [pc : {"wait", "build", "publish", "count", "answer", "delay"},
                    caller : Task \cup {None}, type : {"process", "thread"},
                    pid : Pid \cup {None}, child : UserTask \cup {Nobody}, loaded : Int]
      /\ zeus'.caller = request.caller
  <2>1. zeus \in [pc : {"wait", "build", "publish", "count", "answer", "delay"},
                  caller : Task \cup {None}, type : {"process", "thread"},
                  pid : Pid \cup {None}, child : UserTask \cup {Nobody}, loaded : Int]
    BY DEF LifecycleInv, LifecycleTypeOK
  <2>2. PidAllocate => pid \in Pid
    BY <1>5 DEF PidAllocate, PidRefuse
  <2> HIDE DEF pid, request
  <2> QED
    BY <1>2, <1>3, <2>1, <2>2, ZenonT(30)
<1>8. LifecycleTypeOK'
  <2>1. zeus_queue' \in Seq([caller : Task, type : {"process", "thread"}])
    BY <1>1
  <2> QED
    BY <1>1, <1>4, <1>7, <2>1 DEF LifecycleInv, LifecycleTypeOK
<1>9. UNCHANGED Unpublished /\ used \subseteq used'
  BY <1>1, <1>6 DEF Unpublished
<1>10. TasksInv' /\ TableInv' /\ QueueInv' /\ HadesInv'
  BY <1>1, <1>9, OnlyZeusMoves
<1>11. ZeusInv'
  <2>2. zeus'.pc = "build" =>
          /\ zeus'.pid \in used' \ {Kernel}
          /\ OwnedBy(zeus.pid)' = {}
          /\ Busy' => hades'.pid # zeus'.pid
    <3> SUFFICES ASSUME zeus'.pc = "build"
                 PROVE  /\ zeus'.pid \in used' \ {Kernel}
                        /\ OwnedBy(zeus.pid)' = {}
                        /\ Busy' => hades'.pid # zeus'.pid
      OBVIOUS
    <3>1. zeus'.pid \notin used /\ zeus'.pid \in used' \ {Kernel}
      BY <1>6
    <3> QED
      BY <1>1, <3>1 DEF LifecycleInv, TasksInv, HadesInv, OwnedBy, Live, Busy
  <2>3. zeus'.pc \in {"build", "answer"}
    BY <1>6
  <2>4. zeus'.caller \in Task /\ info'[zeus'.caller].state # "none"
    BY <1>1, <1>3, <1>7
  <2> QED
    BY <1>1, <2>2, <2>3, <2>4 DEF ZeusInv
<1> QED
  BY <1>4, <1>8, <1>10, <1>11 DEF LifecycleInv

(* The PID that Zeus gives back belongs to nobody and Hades does not hold  *)
(* it.                                                                     *)
LEMMA ZeusGivesUpPreserves ==
    ASSUME LifecycleInv, ZeusOutOfMemory \/ ZeusCreateFails
    PROVE  LifecycleInv'
<1> USE SetFacts
<1>1. /\ zeus.pc = "build" /\ PidFree(zeus.pid)
      /\ zeus' = [zeus EXCEPT !.pc = "answer"]
      /\ failures < MaxFailures /\ failures' = failures + 1
      /\ UNCHANGED <<tcb, info, process_table, zeus_queue, hades_queue, hades>>
      /\ UNCHANGED <<freed_heaps, table_lock, children, num_tasks, kills>>
  BY DEF ZeusOutOfMemory, ZeusCreateFails, ZeusGivesUp
<1>2. refcount' \in [UserTask -> Int]
  BY DEF ZeusOutOfMemory, ZeusCreateFails, TakeRef, LifecycleInv, LifecycleTypeOK
<1>3. /\ zeus.pid \in used \ {Kernel} /\ OwnedBy(zeus.pid) = {}
      /\ Busy => hades.pid # zeus.pid
  BY <1>1 DEF LifecycleInv, ZeusInv
<1>4. PidInv' /\ PidTypeOK'
  BY <1>1, <1>3, FreePreserves DEF LifecycleInv, PidInv
<1>5. used' = used \ {zeus.pid}
  BY <1>1 DEF PidFree
<1>6. zeus'.pc = "answer" /\ zeus'.caller = zeus.caller
  BY <1>1 DEF LifecycleInv, LifecycleTypeOK
<1>7. LifecycleTypeOK'
  <2>1. zeus' \in [pc : {"wait", "build", "publish", "count", "answer", "delay"},
                   caller : Task \cup {None}, type : {"process", "thread"},
                   pid : Pid \cup {None}, child : UserTask \cup {Nobody}, loaded : Int]
    BY <1>1 DEF LifecycleInv, LifecycleTypeOK
  <2>2. failures' \in 0..MaxFailures
    <3>1. failures \in 0..MaxFailures /\ MaxFailures \in Nat
      BY LifecycleAssumption DEF LifecycleInv, LifecycleTypeOK
    <3> QED
      BY <1>1, <3>1
  <2> QED
    BY <1>1, <1>2, <1>4, <2>1, <2>2 DEF LifecycleInv, LifecycleTypeOK
<1>8. UNCHANGED Unpublished
  BY <1>1, <1>6 DEF Unpublished
<1>9. TableInv' /\ QueueInv'
  BY <1>1, <1>8, OnlyZeusMoves
<1>10. TasksInv'
  BY <1>1, <1>3, <1>5 DEF LifecycleInv, TasksInv, OwnedBy, Live
<1>11. HadesInv'
  BY <1>1, <1>3, <1>5, <1>8 DEF LifecycleInv, HadesInv, OwnedBy, Live, Busy
<1>12. ZeusInv'
  BY <1>1, <1>6 DEF LifecycleInv, ZeusInv
<1> QED
  BY <1>4, <1>7, <1>9, <1>10, <1>11, <1>12 DEF LifecycleInv

(* A task is born with the PID that nobody had, and nobody sees it yet.    *)
LEMMA ZeusBuildPreserves == LifecycleInv /\ ZeusBuild => LifecycleInv'
<1> SUFFICES ASSUME LifecycleInv, ZeusBuild PROVE LifecycleInv'
  OBVIOUS
<1> USE SetFacts
<1> DEFINE parent == info[zeus.caller]
<1>1. /\ zeus.pc = "build" /\ parent.state = "live"
      /\ UNCHANGED <<process_table, zeus_queue, hades_queue, hades, pidVars>>
      /\ UNCHANGED <<freed_heaps, table_lock, children, num_tasks, failures, kills>>
  BY DEF ZeusBuild, ParentInfo, ParentUsable
<1>2. PICK new \in Unborn : \E heap \in {parent.heap, new}, late \in BOOLEAN :
        /\ tcb' = [tcb EXCEPT ![new] = "ready"]
        /\ info' = [info EXCEPT ![new] = [state |-> "live", pid |-> zeus.pid,
                       parent |-> parent.pid, maker |-> zeus.caller, heap |-> heap,
                       late |-> late]]
        /\ TakeRef(heap)
        /\ zeus' = [zeus EXCEPT !.pc = "publish", !.child = new]
  BY DEF ZeusBuild, ParentInfo, Dying
<1>2a. PICK heap \in {parent.heap, new}, late \in BOOLEAN :
        /\ tcb' = [tcb EXCEPT ![new] = "ready"]
        /\ info' = [info EXCEPT ![new] = [state |-> "live", pid |-> zeus.pid,
                       parent |-> parent.pid, maker |-> zeus.caller, heap |-> heap,
                       late |-> late]]
        /\ TakeRef(heap)
        /\ zeus' = [zeus EXCEPT !.pc = "publish", !.child = new]
  BY <1>2
<1>3. UNCHANGED used
  BY <1>1 DEF pidVars
<1> HIDE DEF parent
<1>4. /\ zeus.pid \in used \ {Kernel} /\ zeus.pid \in Pid /\ OwnedBy(zeus.pid) = {}
      /\ Busy => hades.pid # zeus.pid
      /\ zeus.caller \in Task
  BY <1>1 DEF LifecycleInv, ZeusInv, PidInv, PidTypeOK
<1>5. /\ parent \in TaskInfo
      /\ parent.pid \in Pid
  BY <1>1, <1>4 DEF LifecycleInv, LifecycleTypeOK, TasksInv, parent
<1>6. new \in UserTask /\ new \in Task /\ tcb[new] = "unborn" /\ info[new].state = "none"
  BY DEF Unborn, LifecycleInv, TasksInv
<1>7. /\ tcb'[new] = "ready" /\ \A t \in Task \ {new} : tcb'[t] = tcb[t]
      /\ info'[new].state = "live" /\ info'[new].pid = zeus.pid
      /\ info'[new].parent = parent.pid
      /\ \A t \in Task \ {new} : info'[t] = info[t]
  BY <1>2a, <1>6 DEF LifecycleInv, LifecycleTypeOK
<1>8. /\ zeus'.pc = "publish" /\ zeus'.child = new /\ zeus'.pid = zeus.pid
      /\ zeus'.caller = zeus.caller
  BY <1>2a DEF LifecycleInv, LifecycleTypeOK
<1>9. PidInv' /\ PidTypeOK'
  BY <1>1, StutterPreserves DEF LifecycleInv, PidInv
<1>10. LifecycleTypeOK'
  <2>1. tcb' \in [Task -> TcbState]
    BY <1>2a DEF LifecycleInv, LifecycleTypeOK, TcbState
  <2>2. [state |-> "live", pid |-> zeus.pid, parent |-> parent.pid,
         maker |-> zeus.caller, heap |-> heap,
                       late |-> late]
          \in TaskInfo
    BY <1>2a, <1>4, <1>5, <1>6, SMTT(30) DEF TaskInfo
  <2>3. info' \in [Task -> TaskInfo]
    <3> DEFINE record == [state |-> "live", pid |-> zeus.pid, parent |-> parent.pid,
                          maker |-> zeus.caller, heap |-> heap,
                       late |-> late]
    <3>1. info' = [info EXCEPT ![new] = record]
      BY <1>2a
    <3> HIDE DEF record
    <3>2. record \in TaskInfo
      BY <2>2 DEF record
    <3> QED
      BY <3>1, <3>2 DEF LifecycleInv, LifecycleTypeOK
  <2>4. refcount' \in [UserTask -> Int]
    <3>1. refcount' = [refcount EXCEPT ![heap] = @ + 1]
      BY <1>2a DEF TakeRef
    <3>2. refcount \in [UserTask -> Int]
      BY DEF LifecycleInv, LifecycleTypeOK
    <3>3. CASE heap \in UserTask
      BY <3>1, <3>2, <3>3
    <3>4. CASE heap \notin UserTask
      BY <3>1, <3>2, <3>4
    <3> QED
      BY <3>3, <3>4
  <2>5. zeus' \in [pc : {"wait", "build", "publish", "count", "answer", "delay"},
                   caller : Task \cup {None}, type : {"process", "thread"},
                   pid : Pid \cup {None}, child : UserTask \cup {Nobody}, loaded : Int]
    BY <1>2a, <1>6 DEF LifecycleInv, LifecycleTypeOK
  <2> QED
    BY <1>1, <1>9, <2>1, <2>3, <2>4, <2>5 DEF LifecycleInv, LifecycleTypeOK
<1>11. TasksInv'
  BY <1>3, <1>4, <1>5, <1>6, <1>7 DEF LifecycleInv, TasksInv, OwnedBy, Live
<1>12. /\ Unpublished = {} /\ Unpublished' = {new} /\ Handled' = Handled
       /\ new \notin Handled
  BY <1>1, <1>6, <1>8 DEF Unpublished, Handled, LifecycleInv, HadesInv, Live
<1>13. TableInv'
  <2>1. \A t \in UserTask : Shown(t)' <=> Shown(t)
    BY <1>1, <1>6, <1>7, <1>12 DEF Shown, Live
  <2>2. \A t \in UserTask : Shown(t) => info'[t] = info[t]
    BY <1>6, <1>7 DEF Shown, Live
  <2> QED
    BY <1>1, <2>1, <2>2 DEF LifecycleInv, TableInv, TableIsExact
<1>14. QueueInv'
  <2>1. Unreaped' = Unreaped
    BY <1>6, <1>7, <1>12 DEF Unreaped, Live
  <2>2. \A t \in Unreaped : info'[t] = info[t]
    BY <1>6, <1>7 DEF Unreaped, Live
  <2>3. {info'[t].pid : t \in Unreaped'} = {info[t].pid : t \in Unreaped}
    BY <2>1, <2>2
  <2> QED
    BY <1>1, <2>3 DEF LifecycleInv, QueueInv
<1>15. ZeusInv'
  <2>1. zeus_queue # <<>> => zeus_queue[1].caller \in Task
    <3>1. zeus_queue \in Seq([caller : Task, type : {"process", "thread"}])
      BY DEF LifecycleInv, LifecycleTypeOK
    <3>2. ASSUME zeus_queue # <<>>
          PROVE  zeus_queue[1] \in [caller : Task, type : {"process", "thread"}]
      BY <3>1, <3>2, FirstOfNonempty
    <3> QED
      BY <3>2
  <2>2. \A t \in Task : info[t].state # "none" => info'[t].state # "none"
    BY <1>6, <1>7
  <2> QED
    BY <1>1, <1>4, <1>6, <1>7, <1>8, <2>1, <2>2 DEF LifecycleInv, ZeusInv, Live
<1>16. HadesInv'
  <2>1. hades.pc \in {"signal", "kill"} => OwnedBy(hades.pid)' = {}
    <3>1. OwnedBy(hades.pid)' = {t \in UserTask : info'[t].state = "live" /\ info'[t].pid = hades.pid}
      BY <1>1 DEF OwnedBy, Live
    <3>2. ASSUME hades.pc \in {"signal", "kill"}, NEW t \in UserTask,
                 info'[t].state = "live", info'[t].pid = hades.pid
          PROVE  FALSE
      <4>1. hades.pid # zeus.pid /\ t # new
        BY <1>4, <1>7, <3>2 DEF Busy
      <4>2. info'[t] = info[t]
        BY <1>7, <4>1
      <4> QED
        BY <3>2, <4>2 DEF LifecycleInv, HadesInv, OwnedBy, Live
    <3> QED
      BY <3>1, <3>2
  <2>2. hades.pc \in {"remove", "dying", "signal"} => hades.task \in UserTask \ {new}
    BY <1>6 DEF LifecycleInv, HadesInv, Live
  <2> QED
    BY <1>1, <1>3, <1>7, <1>12, <2>1, <2>2 DEF LifecycleInv, HadesInv, Live, Busy
<1> QED
  BY <1>9, <1>10, <1>11, <1>13, <1>14, <1>15, <1>16 DEF LifecycleInv

LEMMA ZeusPublishPreserves == LifecycleInv /\ ZeusPublish => LifecycleInv'
<1> SUFFICES ASSUME LifecycleInv, ZeusPublish PROVE LifecycleInv'
  OBVIOUS
<1> USE SetFacts
<1>1. /\ zeus.pc = "publish"
      /\ process_table' = [process_table EXCEPT ![zeus.pid] = zeus.child]
      /\ zeus' = [zeus EXCEPT !.pc = "count", !.loaded = num_tasks]
      /\ UNCHANGED <<tcb, info, zeus_queue, hades_queue, hades, pidVars>>
      /\ UNCHANGED <<refcount, freed_heaps, table_lock, children, num_tasks, failures, kills>>
  BY DEF ZeusPublish, Enlist
<1>2. UNCHANGED used
  BY <1>1 DEF pidVars
<1>3. PidInv' /\ PidTypeOK'
  BY <1>1, StutterPreserves DEF LifecycleInv, PidInv
<1>4. /\ zeus.child \in UserTask /\ Live(zeus.child) /\ tcb[zeus.child] = "ready"
      /\ info[zeus.child].pid = zeus.pid /\ zeus.pid \in Pid /\ zeus.pid # Kernel
  BY <1>1 DEF LifecycleInv, ZeusInv, TasksInv, Live
<1>5. zeus'.pc = "count" /\ zeus'.caller = zeus.caller
  BY <1>1 DEF LifecycleInv, LifecycleTypeOK
<1>6. /\ Unpublished = {zeus.child} /\ Unpublished' = {} /\ Handled' = Handled
      /\ zeus.child \notin Handled
  BY <1>1, <1>4, <1>5 DEF Unpublished, Handled, LifecycleInv, HadesInv
<1>7. LifecycleTypeOK'
  <2>1. process_table' \in [Pid -> Task \cup {Nobody}]
    BY <1>1, <1>4 DEF LifecycleInv, LifecycleTypeOK
  <2>2. zeus' \in [pc : {"wait", "build", "publish", "count", "answer", "delay"},
                   caller : Task \cup {None}, type : {"process", "thread"},
                   pid : Pid \cup {None}, child : UserTask \cup {Nobody}, loaded : Int]
    BY <1>1 DEF LifecycleInv, LifecycleTypeOK
  <2> QED
    BY <1>1, <1>3, <2>1, <2>2 DEF LifecycleInv, LifecycleTypeOK
<1>8. TasksInv'
  BY <1>1, <1>2 DEF LifecycleInv, TasksInv, Live
<1>9. TableInv'
  <2>1. /\ process_table'[zeus.pid] = zeus.child
        /\ \A p \in Pid \ {zeus.pid} : process_table'[p] = process_table[p]
    BY <1>1, <1>4 DEF LifecycleInv, LifecycleTypeOK
  <2>2. \A t \in UserTask : Shown(t)' <=> Shown(t) \/ t = zeus.child
    BY <1>1, <1>4, <1>6 DEF Shown, Live, Handled
  <2>3. \A t \in UserTask : Shown(t) => info[t].pid # zeus.pid
    BY <1>4, <1>6, ZenonT(30) DEF LifecycleInv, TasksInv, Shown, Live
  <2>4. \A p \in Pid : process_table'[p] = InitTask <=> p = Kernel
    BY <1>4, <2>1 DEF LifecycleInv, TableInv
  <2>5. \A t \in UserTask, p \in Pid :
          process_table'[p] = t <=> Shown(t)' /\ info'[t].pid = p
    BY <1>1, <1>4, <2>1, <2>2, <2>3 DEF LifecycleInv, TableInv, TableIsExact
  <2> QED
    BY <2>4, <2>5 DEF TableInv, TableIsExact
<1>10. QueueInv'
  <2>1. Unreaped' = Unreaped
    BY <1>1, <1>4, <1>6 DEF Unreaped, Live
  <2> QED
    BY <1>1, <2>1 DEF LifecycleInv, QueueInv
<1>11. ZeusInv'
  BY <1>1, <1>5 DEF LifecycleInv, ZeusInv
<1>12. HadesInv'
  BY <1>1, <1>2, <1>6 DEF LifecycleInv, HadesInv, OwnedBy, Live, Busy
<1> QED
  BY <1>3, <1>7, <1>8, <1>9, <1>10, <1>11, <1>12 DEF LifecycleInv

LEMMA ZeusCountOrWakePreserves ==
    ASSUME LifecycleInv, ZeusCount \/ ZeusWake
    PROVE  LifecycleInv'
<1> USE SetFacts
<1>1. zeus \in [pc : {"wait", "build", "publish", "count", "answer", "delay"},
                caller : Task \cup {None}, type : {"process", "thread"},
                pid : Pid \cup {None}, child : UserTask \cup {Nobody}, loaded : Int]
  BY DEF LifecycleInv, LifecycleTypeOK
<1>2. /\ zeus.pc \in {"count", "delay"}
      /\ \/ num_tasks' = zeus.loaded + 1 /\ zeus' = [zeus EXCEPT !.pc = "answer", !.loaded = 0]
         \/ UNCHANGED num_tasks /\ zeus' = [zeus EXCEPT !.pc = "wait", !.caller = None,
                                       !.type = "process", !.pid = None, !.child = Nobody]
      /\ UNCHANGED <<tcb, info, process_table, zeus_queue, hades_queue, hades, pidVars>>
      /\ UNCHANGED <<refcount, freed_heaps, table_lock, children, failures, kills>>
  BY DEF ZeusCount, ZeusWake
<1>3. /\ zeus' \in [pc : {"wait", "build", "publish", "count", "answer", "delay"},
                    caller : Task \cup {None}, type : {"process", "thread"},
                    pid : Pid \cup {None}, child : UserTask \cup {Nobody}, loaded : Int]
      /\ \/ zeus'.pc = "answer" /\ zeus'.caller = zeus.caller
         \/ zeus'.pc = "wait"
  <2>1. CASE zeus' = [zeus EXCEPT !.pc = "answer", !.loaded = 0]
    <3>1. /\ zeus'.pc = "answer" /\ zeus'.loaded = 0 /\ zeus'.caller = zeus.caller
          /\ zeus'.type = zeus.type /\ zeus'.pid = zeus.pid /\ zeus'.child = zeus.child
      BY <1>1, <2>1
    <3>2. zeus' \in [pc : {"wait", "build", "publish", "count", "answer", "delay"},
                     caller : Task \cup {None}, type : {"process", "thread"},
                     pid : Pid \cup {None}, child : UserTask \cup {Nobody}, loaded : Int]
      BY <1>1, <2>1, 0 \in Int
    <3> QED
      BY <3>1, <3>2
  <2>2. CASE zeus' = [zeus EXCEPT !.pc = "wait", !.caller = None, !.type = "process",
                                  !.pid = None, !.child = Nobody]
    BY <1>1, <2>2
  <2> QED
    BY <1>2, <2>1, <2>2
<1>3a. num_tasks' \in Int
  <2>1. num_tasks \in Int /\ zeus.loaded \in Int
    BY <1>1 DEF LifecycleInv, LifecycleTypeOK
  <2> QED
    BY <1>2, <2>1
<1>4. PidInv' /\ PidTypeOK' /\ UNCHANGED used
  BY <1>2, StutterPreserves DEF LifecycleInv, PidInv, pidVars
<1>5. LifecycleTypeOK'
  BY <1>2, <1>3, <1>3a, <1>4 DEF LifecycleInv, LifecycleTypeOK
<1>6. UNCHANGED Unpublished
  BY <1>2, <1>3 DEF Unpublished
<1>7. TasksInv' /\ TableInv' /\ QueueInv' /\ HadesInv'
  BY <1>2, <1>4, <1>6, OnlyZeusMoves
<1>8. ZeusInv'
  BY <1>2, <1>3 DEF LifecycleInv, ZeusInv
<1> QED
  BY <1>4, <1>5, <1>7, <1>8 DEF LifecycleInv

LEMMA ZeusAnswerPreserves == LifecycleInv /\ ZeusAnswer => LifecycleInv'
<1> SUFFICES ASSUME LifecycleInv, ZeusAnswer PROVE LifecycleInv'
  OBVIOUS
<1> USE SetFacts
<1>1. /\ zeus.pc = "answer" /\ zeus' = [zeus EXCEPT !.pc = "delay"]
      /\ \/ tcb[zeus.caller] = "asking" /\ tcb' = [tcb EXCEPT ![zeus.caller] = "ready"]
         \/ UNCHANGED tcb
      /\ UNCHANGED <<info, process_table, zeus_queue, hades_queue, hades, pidVars>>
      /\ UNCHANGED <<refcount, freed_heaps, table_lock, children, num_tasks, failures, kills>>
  BY DEF ZeusAnswer, Notify
<1>2. zeus.caller \in Task /\ info[zeus.caller].state # "none"
  BY <1>1 DEF LifecycleInv, ZeusInv
<1>3. PidInv' /\ PidTypeOK' /\ UNCHANGED used
  BY <1>1, StutterPreserves DEF LifecycleInv, PidInv, pidVars
<1>4. /\ zeus' \in [pc : {"wait", "build", "publish", "count", "answer", "delay"},
                    caller : Task \cup {None}, type : {"process", "thread"},
                    pid : Pid \cup {None}, child : UserTask \cup {Nobody}, loaded : Int]
      /\ zeus'.pc = "delay" /\ zeus'.caller = zeus.caller
  BY <1>1 DEF LifecycleInv, LifecycleTypeOK
<1>5. /\ tcb' \in [Task -> TcbState]
      /\ \A t \in Task : t # zeus.caller => tcb'[t] = tcb[t]
      /\ \/ tcb'[zeus.caller] = tcb[zeus.caller]
         \/ tcb[zeus.caller] = "asking" /\ tcb'[zeus.caller] = "ready"
  <2>1. tcb \in [Task -> TcbState] /\ "ready" \in TcbState
    BY DEF LifecycleInv, LifecycleTypeOK, TcbState
  <2>2. CASE tcb' = tcb
    BY <2>1, <2>2
  <2>3. CASE tcb[zeus.caller] = "asking" /\ tcb' = [tcb EXCEPT ![zeus.caller] = "ready"]
    BY <1>2, <2>1, <2>3
  <2> QED
    BY <1>1, <2>2, <2>3
<1>6. LifecycleTypeOK'
  BY <1>1, <1>3, <1>4, <1>5 DEF LifecycleInv, LifecycleTypeOK
<1>7. Unpublished = {} /\ Unpublished' = {} /\ Handled' = Handled
  BY <1>1, <1>4 DEF Unpublished, Handled
<1>8. TasksInv'
  BY <1>1, <1>3, <1>5 DEF LifecycleInv, TasksInv, Live
<1>9. TableInv'
  BY <1>1, <1>7 DEF LifecycleInv, TableInv, TableIsExact, Shown, Live
<1>10. QueueInv'
  <2>1. Unreaped' = Unreaped
    BY <1>1, <1>5, <1>7 DEF Unreaped, Live
  <2> QED
    BY <1>1, <2>1 DEF LifecycleInv, QueueInv
<1>11. ZeusInv'
  BY <1>1, <1>2, <1>4 DEF LifecycleInv, ZeusInv
<1>12. HadesInv'
  BY <1>1, <1>3, <1>5, <1>7 DEF LifecycleInv, HadesInv, OwnedBy, Live, Busy
<1> QED
  BY <1>3, <1>6, <1>8, <1>9, <1>10, <1>11, <1>12 DEF LifecycleInv
-----------------------------------------------------------------------------
(* Hades *)

(* Zeus and the PID of his unborn child, after a step of Hades that leaves *)
(* him alone.                                                              *)
LEMMA ZeusUntouchedByHades ==
    ASSUME LifecycleInv, UNCHANGED <<zeus, zeus_queue, tcb>>,
           \A t \in Task : info[t].state # "none" =>
              info'[t].state # "none" /\ info'[t].pid = info[t].pid,
           \A t \in UserTask : Live(t)' => Live(t),
           zeus.pc = "publish" => Live(zeus.child)',
           zeus.pc = "build" => zeus.pid \in used',
           zeus.pc = "build" /\ Busy' => hades'.pid # zeus.pid
    PROVE  ZeusInv'
<1> USE SetFacts
<1>1. zeus_queue # <<>> => zeus_queue[1].caller \in Task
  <2>1. zeus_queue \in Seq([caller : Task, type : {"process", "thread"}])
    BY DEF LifecycleInv, LifecycleTypeOK
  <2>2. ASSUME zeus_queue # <<>>
        PROVE  zeus_queue[1] \in [caller : Task, type : {"process", "thread"}]
    BY <2>1, <2>2, FirstOfNonempty
  <2> QED
    BY <2>2
<1>2. zeus.pc = "build" => OwnedBy(zeus.pid)' = {}
  BY DEF LifecycleInv, ZeusInv, OwnedBy, Live
<1> QED
  BY <1>1, <1>2 DEF LifecycleInv, ZeusInv, Live

(* The PID that arrives is that of a task that is shown, and Hades takes   *)
(* that task out of those whose death is reported.                         *)
LEMMA HadesReceivePreserves == LifecycleInv /\ HadesReceive => LifecycleInv'
<1> SUFFICES ASSUME LifecycleInv, HadesReceive PROVE LifecycleInv'
  OBVIOUS
<1> USE SetFacts
<1>1. /\ hades.pc = "wait" /\ hades_queue # <<>> /\ hades_queue' = Tail(hades_queue)
      /\ UNCHANGED <<tcb, info, process_table, zeus_queue, zeus, pidVars>>
      /\ UNCHANGED <<refcount, freed_heaps, table_lock, children, num_tasks, failures, kills>>
      /\ hades' = IF process_table[Head(hades_queue)] = Nobody THEN hades
                  ELSE [hades EXCEPT !.pc = "remove", !.pid = Head(hades_queue),
                                     !.task = process_table[Head(hades_queue)]]
  BY DEF HadesReceive
<1>2. hades_queue \in Seq(Pid) /\ Distinct(hades_queue)
  BY DEF LifecycleInv, LifecycleTypeOK, QueueInv
<1>3. /\ Head(hades_queue) \in Members(hades_queue) /\ Head(hades_queue) \in Pid
      /\ Tail(hades_queue) \in Seq(Pid) /\ Distinct(Tail(hades_queue))
      /\ Members(Tail(hades_queue)) = Members(hades_queue) \ {Head(hades_queue)}
  BY <1>1, <1>2, TailIsDistinct
<1>4. PICK t \in Unreaped : info[t].pid = Head(hades_queue)
  BY <1>3 DEF LifecycleInv, QueueInv
<1>5. t \in UserTask /\ Live(t) /\ tcb[t] = "freed" /\ t \notin Unpublished
  BY DEF Unreaped
<1>6. process_table[Head(hades_queue)] = t /\ t # Nobody
  BY <1>1, <1>3, <1>4, <1>5 DEF LifecycleInv, TableInv, TableIsExact, Shown
<1>7. hades' = [hades EXCEPT !.pc = "remove", !.pid = Head(hades_queue), !.task = t]
  BY <1>1, <1>6
<1>8. /\ hades' \in [pc : {"wait", "remove", "dying", "signal", "kill", "delay"},
                     pid : Pid \cup {None}, task : Task \cup {Nobody}, last : BOOLEAN,
                     next : Nat \ {0}]
      /\ hades'.pc = "remove" /\ hades'.pid = Head(hades_queue) /\ hades'.task = t
  BY <1>3, <1>5, <1>7 DEF LifecycleInv, LifecycleTypeOK
<1>9. PidInv' /\ PidTypeOK' /\ UNCHANGED used
  BY <1>1, StutterPreserves DEF LifecycleInv, PidInv, pidVars
<1>10. LifecycleTypeOK'
  BY <1>1, <1>3, <1>8, <1>9 DEF LifecycleInv, LifecycleTypeOK
<1>11. Unpublished' = Unpublished /\ Handled' = {t} /\ Handled = {}
  BY <1>1, <1>8 DEF Unpublished, Handled
<1>12. TasksInv'
  BY <1>1, <1>9 DEF LifecycleInv, TasksInv, Live
<1>13. TableInv'
  BY <1>1, <1>8, <1>11 DEF LifecycleInv, TableInv, TableIsExact, Shown, Live
<1>14. QueueInv'
  <2>1. Unreaped' = Unreaped \ {t}
    BY <1>1, <1>11 DEF Unreaped, Live
  <2>2. \A u \in Unreaped : info[u].pid = info[t].pid => u = t
    BY <1>5 DEF LifecycleInv, TasksInv, Unreaped
  <2>3. {info[u].pid : u \in Unreaped \ {t}}
          = {info[u].pid : u \in Unreaped} \ {Head(hades_queue)}
    BY <1>4, <2>2
  <2> QED
    BY <1>1, <1>3, <2>1, <2>3 DEF LifecycleInv, QueueInv
<1>15. ZeusInv'
  <2>1. zeus.pc = "build" => hades'.pid # zeus.pid
    BY <1>4, <1>5, <1>8 DEF LifecycleInv, ZeusInv, OwnedBy
  <2>2. zeus.pc = "publish" => Live(zeus.child)
    BY DEF LifecycleInv, ZeusInv
  <2>3. zeus.pc = "build" => zeus.pid \in used
    BY DEF LifecycleInv, ZeusInv
  <2> QED
    BY <1>1, <1>9, <2>1, <2>2, <2>3, ZeusUntouchedByHades DEF Live
<1>16. HadesInv'
  <2>1. hades'.pid \in used' \ {Kernel}
    BY <1>4, <1>5, <1>8, <1>9 DEF LifecycleInv, TasksInv
  <2> QED
    BY <1>1, <1>4, <1>5, <1>8, <1>11, <2>1 DEF HadesInv, Live
<1> QED
  BY <1>9, <1>10, <1>12, <1>13, <1>14, <1>15, <1>16 DEF LifecycleInv

LEMMA HadesRemovePreserves == LifecycleInv /\ HadesRemove => LifecycleInv'
<1> SUFFICES ASSUME LifecycleInv, HadesRemove PROVE LifecycleInv'
  OBVIOUS
<1> USE SetFacts
<1> DEFINE heap == info[hades.task].heap
           pid  == info[hades.task].pid
<1>1. /\ hades.pc = "remove"
      /\ process_table' = [process_table EXCEPT ![pid] = Nobody]
      /\ refcount' = [refcount EXCEPT ![heap] = @ - 1]
      /\ hades' = [hades EXCEPT !.pc = "dying", !.last = (refcount[heap] = 1)]
      /\ UNCHANGED <<tcb, info, zeus_queue, zeus, hades_queue, pidVars>>
      /\ UNCHANGED <<freed_heaps, table_lock, children, num_tasks, failures, kills>>
  BY DEF HadesRemove, Unlist
<1>2. /\ hades.task \in UserTask /\ Live(hades.task) /\ tcb[hades.task] = "freed"
      /\ pid = hades.pid /\ pid \in Pid /\ pid # Kernel
      /\ hades.task \notin Unpublished
  BY <1>1 DEF LifecycleInv, HadesInv, TasksInv, Live
<1>3. /\ hades' \in [pc : {"wait", "remove", "dying", "signal", "kill", "delay"},
                     pid : Pid \cup {None}, task : Task \cup {Nobody}, last : BOOLEAN,
                     next : Nat \ {0}]
      /\ hades'.pc = "dying" /\ hades'.pid = hades.pid /\ hades'.task = hades.task
  <2> DEFINE last == (refcount[heap] = 1)
  <2>1. last \in BOOLEAN
    BY Zenon
  <2>2. hades' = [hades EXCEPT !.pc = "dying", !.last = last]
    BY <1>1
  <2> HIDE DEF last, heap, pid
  <2> QED
    BY <2>1, <2>2 DEF LifecycleInv, LifecycleTypeOK
<1> HIDE DEF heap, pid
<1>4. PidInv' /\ PidTypeOK' /\ UNCHANGED used
  BY <1>1, StutterPreserves DEF LifecycleInv, PidInv, pidVars
<1>5. LifecycleTypeOK'
  <2>1. process_table' \in [Pid -> Task \cup {Nobody}]
    BY <1>1 DEF LifecycleInv, LifecycleTypeOK
  <2>2. refcount \in [UserTask -> Int]
    BY DEF LifecycleInv, LifecycleTypeOK
  <2>3. refcount' \in [UserTask -> Int]
    <3>1. CASE heap \in UserTask
      BY <1>1, <2>2, <3>1
    <3>2. CASE heap \notin UserTask
      BY <1>1, <2>2, <3>2
    <3> QED
      BY <3>1, <3>2
  <2> QED
    BY <1>1, <1>3, <1>4, <2>1, <2>3 DEF LifecycleInv, LifecycleTypeOK
<1>6. Unpublished' = Unpublished /\ Handled' = Handled
  BY <1>1, <1>3 DEF Unpublished, Handled
<1>7. TasksInv'
  BY <1>1, <1>4 DEF LifecycleInv, TasksInv, Live
<1>8. TableInv'
  <2>1. /\ process_table'[pid] = Nobody
        /\ \A p \in Pid \ {pid} : process_table'[p] = process_table[p]
    BY <1>1, <1>2 DEF LifecycleInv, LifecycleTypeOK
  <2>2. \A t \in UserTask : Shown(t)' <=> Shown(t) /\ t # hades.task
    BY <1>1, <1>2, <1>3, <1>6 DEF Shown, Live
  <2>3. \A t \in UserTask : Shown(t) /\ info[t].pid = pid => t = hades.task
    BY <1>2 DEF LifecycleInv, TasksInv, Shown, pid
  <2>4. \A t \in UserTask, p \in Pid :
          process_table'[p] = t <=> Shown(t)' /\ info'[t].pid = p
    <3> SUFFICES ASSUME NEW t \in UserTask, NEW p \in Pid
                 PROVE  process_table'[p] = t <=> Shown(t)' /\ info'[t].pid = p
      OBVIOUS
    <3>1. info'[t].pid = info[t].pid /\ t # Nobody
      BY <1>1
    <3>2. CASE p = pid
      BY <2>1, <2>2, <2>3, <3>1, <3>2
    <3>3. CASE p # pid
      <4>1. process_table'[p] = t <=> Shown(t) /\ info[t].pid = p
        BY <2>1, <3>3 DEF LifecycleInv, TableInv, TableIsExact
      <4>2. info[hades.task].pid # p
        BY <3>3 DEF pid
      <4> QED
        BY <2>2, <3>1, <4>1, <4>2
    <3> QED
      BY <3>2, <3>3
  <2>5. \A p \in Pid : process_table'[p] = InitTask <=> p = Kernel
    BY <1>2, <2>1 DEF LifecycleInv, TableInv
  <2> QED
    BY <2>4, <2>5 DEF TableInv, TableIsExact
<1>9. QueueInv'
  <2>1. Unreaped' = Unreaped
    BY <1>1, <1>6 DEF Unreaped, Live
  <2> QED
    BY <1>1, <2>1 DEF LifecycleInv, QueueInv
<1>10. ZeusInv'
  BY <1>1, <1>3, <1>4 DEF LifecycleInv, ZeusInv, OwnedBy, Live, Busy
<1>11. HadesInv'
  BY <1>1, <1>2, <1>3, <1>4, <1>6 DEF LifecycleInv, HadesInv, Live, Busy
<1> QED
  BY <1>4, <1>5, <1>7, <1>8, <1>9, <1>10, <1>11 DEF LifecycleInv

(* The task_info_t goes, and with it the last task that has the PID.       *)
LEMMA HadesDestroyPreserves == LifecycleInv /\ HadesDestroy => LifecycleInv'
<1> SUFFICES ASSUME LifecycleInv, HadesDestroy PROVE LifecycleInv'
  OBVIOUS
<1> USE SetFacts
<1> DEFINE task == hades.task
<1>1. /\ hades.pc = "dying"
      /\ freed_heaps' = IF hades.last THEN freed_heaps \cup {info[task].heap} ELSE freed_heaps
      /\ info' = [info EXCEPT ![task].state = "freed"]
      /\ children' = [children EXCEPT ![task] = <<>>]
      /\ hades' = [hades EXCEPT !.pc = "signal"]
      /\ UNCHANGED <<tcb, process_table, zeus_queue, zeus, hades_queue, pidVars>>
      /\ UNCHANGED <<refcount, table_lock, num_tasks, failures, kills>>
  BY DEF HadesDestroy
<1>2. /\ task \in UserTask /\ task \in Task /\ Live(task) /\ tcb[task] = "freed"
      /\ info[task].pid = hades.pid
      /\ task \notin Unpublished
  BY <1>1 DEF LifecycleInv, HadesInv
<1>3. /\ hades' \in [pc : {"wait", "remove", "dying", "signal", "kill", "delay"},
                     pid : Pid \cup {None}, task : Task \cup {Nobody}, last : BOOLEAN,
                     next : Nat \ {0}]
      /\ hades'.pc = "signal" /\ hades'.pid = hades.pid /\ hades'.task = task
  BY <1>1 DEF LifecycleInv, LifecycleTypeOK
<1>4. /\ info' \in [Task -> TaskInfo]
      /\ \A t \in Task : t # task => info'[t] = info[t]
      /\ info'[task].state = "freed" /\ info'[task].pid = info[task].pid
      /\ info'[task].parent = info[task].parent
  <2> DEFINE record == [info[task] EXCEPT !.state = "freed"]
  <2>1. info[task] \in TaskInfo
    BY <1>2 DEF LifecycleInv, LifecycleTypeOK
  <2>2. /\ record \in TaskInfo
        /\ record.state = "freed" /\ record.pid = info[task].pid
        /\ record.parent = info[task].parent
    BY <2>1 DEF TaskInfo
  <2>3. info' = [info EXCEPT ![task] = record]
    BY <1>1
  <2> HIDE DEF record, task
  <2> QED
    BY <1>2, <2>2, <2>3 DEF LifecycleInv, LifecycleTypeOK
<1> HIDE DEF task
<1>5. PidInv' /\ PidTypeOK' /\ UNCHANGED used
  BY <1>1, StutterPreserves DEF LifecycleInv, PidInv, pidVars
<1>6. \A t \in UserTask : Live(t)' <=> Live(t) /\ t # task
  BY <1>4 DEF Live
<1>7. /\ Unpublished' = Unpublished /\ Handled' = {} /\ Handled = {task}
  BY <1>1, <1>3 DEF Unpublished, Handled, task
<1>8. LifecycleTypeOK'
  <2>1. children' \in [Task -> Seq(UserTask)]
    <3>1. children \in [Task -> Seq(UserTask)] /\ <<>> \in Seq(UserTask)
      BY DEF LifecycleInv, LifecycleTypeOK
    <3> QED
      BY <1>1, <1>2, <3>1
  <2>2. freed_heaps' \subseteq Task \cup {None}
    BY <1>1, <1>2 DEF LifecycleInv, LifecycleTypeOK, TaskInfo
  <2> QED
    BY <1>1, <1>3, <1>4, <1>5, <2>1, <2>2 DEF LifecycleInv, LifecycleTypeOK
<1>9. TasksInv'
  BY <1>1, <1>2, <1>4, <1>5, <1>6 DEF LifecycleInv, TasksInv, Live
<1>10. TableInv'
  <2>1. \A t \in UserTask : Shown(t)' <=> Shown(t)
    BY <1>1, <1>3, <1>6, <1>7 DEF Shown, task
  <2>2. \A t \in UserTask : info'[t].pid = info[t].pid
    BY <1>4
  <2> QED
    BY <1>1, <2>1, <2>2 DEF LifecycleInv, TableInv, TableIsExact
<1>11. QueueInv'
  <2>1. Unreaped' = Unreaped
    BY <1>1, <1>6, <1>7 DEF Unreaped
  <2>2. \A t \in Unreaped : info'[t].pid = info[t].pid
    BY <1>4 DEF Unreaped
  <2>3. {info'[t].pid : t \in Unreaped'} = {info[t].pid : t \in Unreaped}
    BY <2>1, <2>2
  <2> QED
    BY <1>1, <2>3 DEF LifecycleInv, QueueInv
<1>12. ZeusInv'
  <2>1. \A t \in Task : info[t].state # "none" =>
           info'[t].state # "none" /\ info'[t].pid = info[t].pid
    BY <1>4
  <2>2. zeus.pc = "publish" => Live(zeus.child)'
    <3>1. zeus.pc = "publish" => zeus.child # task
      BY <1>2 DEF Unpublished
    <3> QED
      BY <1>1, <1>6, <3>1 DEF LifecycleInv, ZeusInv, Live
  <2>3. zeus.pc = "build" => zeus.pid \in used' /\ hades'.pid # zeus.pid
    BY <1>1, <1>3, <1>5 DEF LifecycleInv, ZeusInv, Busy
  <2> QED
    BY <1>1, <1>6, <2>1, <2>2, <2>3, ZeusUntouchedByHades
<1>13. HadesInv'
  <2>1. OwnedBy(hades.pid)' = {}
    <3>1. OwnedBy(hades.pid)' = {t \in UserTask : Live(t)' /\ info'[t].pid = hades.pid}
      BY <1>3 DEF OwnedBy
    <3>2. ASSUME NEW t \in UserTask, Live(t)', info'[t].pid = hades.pid
          PROVE  FALSE
      BY <1>2, <1>4, <1>6, <3>2 DEF LifecycleInv, TasksInv
    <3> QED
      BY <3>1, <3>2
  <2>2. hades.pid \in used \ {Kernel}
    BY <1>1 DEF LifecycleInv, HadesInv, Busy
  <2> QED
    BY <1>2, <1>3, <1>4, <1>5, <2>1, <2>2 DEF HadesInv
<1> QED
  BY <1>5, <1>8, <1>9, <1>10, <1>11, <1>12, <1>13 DEF LifecycleInv

LEMMA HadesSignalPreserves == LifecycleInv /\ HadesSignal => LifecycleInv'
<1> SUFFICES ASSUME LifecycleInv, HadesSignal PROVE LifecycleInv'
  OBVIOUS
<1> USE SetFacts
<1> DEFINE parent == process_table[info[hades.task].parent]
<1>1. /\ hades.pc = "signal" /\ table_lock' = "hades"
      /\ \/ parent # Nobody /\ Tell(parent, hades.task)
         \/ UNCHANGED children
      /\ hades' = [hades EXCEPT !.pc = "kill", !.next = 1]
      /\ UNCHANGED <<tcb, info, process_table, zeus_queue, zeus, hades_queue, pidVars>>
      /\ UNCHANGED <<refcount, freed_heaps, num_tasks, failures, kills>>
  BY DEF HadesSignal
<1>2. /\ hades' \in [pc : {"wait", "remove", "dying", "signal", "kill", "delay"},
                     pid : Pid \cup {None}, task : Task \cup {Nobody}, last : BOOLEAN,
                     next : Nat \ {0}]
      /\ hades'.pc = "kill" /\ hades'.pid = hades.pid /\ hades'.task = hades.task
  <2>1. 1 \in Nat \ {0}
    OBVIOUS
  <2>2. hades \in [pc : {"wait", "remove", "dying", "signal", "kill", "delay"},
                   pid : Pid \cup {None}, task : Task \cup {Nobody}, last : BOOLEAN,
                   next : Nat \ {0}]
    BY DEF LifecycleInv, LifecycleTypeOK
  <2>3. hades' = [hades EXCEPT !.pc = "kill", !.next = 1]
    BY <1>1
  <2> QED
    BY <2>1, <2>2, <2>3
<1>3. hades.task \in UserTask /\ OwnedBy(hades.pid) = {} /\ hades.pid \in used \ {Kernel}
  BY <1>1 DEF LifecycleInv, HadesInv, Busy
<1>4. PidInv' /\ PidTypeOK' /\ UNCHANGED used
  BY <1>1, StutterPreserves DEF LifecycleInv, PidInv, pidVars
<1>5. LifecycleTypeOK'
  <2>1. children \in [Task -> Seq(UserTask)]
    BY DEF LifecycleInv, LifecycleTypeOK
  <2>2. ASSUME NEW c \in Task
        PROVE  Append(children[c], hades.task) \in Seq(UserTask)
    BY <1>3, <2>1
  <2>3. children' \in [Task -> Seq(UserTask)]
    <3> HIDE DEF parent
    <3>1. CASE children' = [children EXCEPT ![parent] = Append(@, hades.task)] /\ parent \in Task
      BY <2>1, <2>2, <3>1
    <3>2. CASE children' = [children EXCEPT ![parent] = Append(@, hades.task)] /\ parent \notin Task
      BY <2>1, <3>2
    <3>3. CASE children' = children
      BY <2>1, <3>3
    <3> QED
      BY <1>1, <3>1, <3>2, <3>3 DEF Tell
  <2> QED
    BY <1>1, <1>2, <1>4, <2>3 DEF LifecycleInv, LifecycleTypeOK
<1> HIDE DEF parent
<1>6. Unpublished' = Unpublished /\ Handled' = Handled
  BY <1>1, <1>2 DEF Unpublished, Handled
<1>7. TasksInv'
  BY <1>1, <1>4 DEF LifecycleInv, TasksInv, Live
<1>8. TableInv'
  BY <1>1, <1>2, <1>6 DEF LifecycleInv, TableInv, TableIsExact, Shown, Live
<1>9. QueueInv'
  <2>1. Unreaped' = Unreaped
    BY <1>1, <1>6 DEF Unreaped, Live
  <2> QED
    BY <1>1, <2>1 DEF LifecycleInv, QueueInv
<1>10. ZeusInv'
  BY <1>1, <1>2, <1>4 DEF LifecycleInv, ZeusInv, OwnedBy, Live, Busy
<1>11. HadesInv'
  BY <1>1, <1>2, <1>3, <1>4 DEF HadesInv, OwnedBy, Live
<1> QED
  BY <1>4, <1>5, <1>7, <1>8, <1>9, <1>10, <1>11 DEF LifecycleInv

(* The child is taken from the process table, so it is a user task.        *)
LEMMA HadesKillChildPreserves == LifecycleInv /\ HadesKillChild => LifecycleInv'
<1> SUFFICES ASSUME LifecycleInv, HadesKillChild PROVE LifecycleInv'
  OBVIOUS
<1> USE SetFacts
<1>1. PICK i \in Victims :
        /\ \/ /\ tcb[process_table[i]] \in {"ready", "asking", "ending"}
              /\ tcb' = [tcb EXCEPT ![process_table[i]] = "slain"]
           \/ UNCHANGED tcb
        /\ hades' = [hades EXCEPT !.next = i + 1]
  BY DEF HadesKillChild, Unlink
<1>2. /\ hades.pc = "kill"
      /\ UNCHANGED <<info, process_table, zeus_queue, zeus, hades_queue, pidVars>>
      /\ UNCHANGED <<refcount, freed_heaps, table_lock, children, num_tasks, failures, kills>>
  BY DEF HadesKillChild
<1>3. /\ i \in Nat \ {0} /\ i \in Pid /\ i # Kernel /\ process_table[i] # Nobody
  BY NumPidsAssumption DEF Victims, LifecycleInv, LifecycleTypeOK, Pid, MaxPid, Kernel
<1>4. /\ hades' \in [pc : {"wait", "remove", "dying", "signal", "kill", "delay"},
                     pid : Pid \cup {None}, task : Task \cup {Nobody}, last : BOOLEAN,
                     next : Nat \ {0}]
      /\ hades'.pc = hades.pc /\ hades'.pid = hades.pid /\ hades'.task = hades.task
      /\ hades' = [hades EXCEPT !.next = hades'.next]
  <2>1. hades \in [pc : {"wait", "remove", "dying", "signal", "kill", "delay"},
                   pid : Pid \cup {None}, task : Task \cup {Nobody}, last : BOOLEAN,
                   next : Nat \ {0}]
    BY DEF LifecycleInv, LifecycleTypeOK
  <2>2. i + 1 \in Nat \ {0}
    BY <1>3
  <2>3. hades' = [hades EXCEPT !.next = i + 1] /\ hades'.next = i + 1
    BY <1>1, <2>1
  <2> QED
    BY <2>1, <2>2, <2>3
<1>5. process_table[i] \in UserTask /\ Shown(process_table[i])
  <2>1. process_table[i] \in Task \cup {Nobody}
    BY <1>3 DEF LifecycleInv, LifecycleTypeOK
  <2>2. process_table[i] # InitTask
    BY <1>3 DEF LifecycleInv, TableInv
  <2> QED
    BY <1>3, <2>1, <2>2 DEF LifecycleInv, TableInv, TableIsExact
<1>6. PidInv' /\ PidTypeOK' /\ UNCHANGED used
  BY <1>2, StutterPreserves DEF LifecycleInv, PidInv, pidVars
<1>7. CASE /\ tcb[process_table[i]] \in {"ready", "asking", "ending"}
           /\ tcb' = [tcb EXCEPT ![process_table[i]] = "slain"]
  <2>1. process_table[i] \notin Unpublished /\ process_table[i] # InitTask
    BY <1>5 DEF Shown
  <2>2. /\ tcb' \in [Task -> TcbState]
        /\ TasksInv' /\ TableInv' /\ QueueInv' /\ HadesInv'
        /\ Unborn' = Unborn
        /\ zeus.pc = "publish" => tcb'[zeus.child] = "ready"
    BY <1>2, <1>4, <1>5, <1>6, <1>7, <2>1, StateChangePreserves DEF Holding, Unlisted
  <2>3. LifecycleTypeOK'
    BY <1>2, <1>4, <1>6, <2>2 DEF LifecycleInv, LifecycleTypeOK
  <2>4. ZeusInv'
    BY <1>2, <1>4, <1>6, <2>2, ZeusUndisturbed
  <2> QED
    BY <1>6, <2>2, <2>3, <2>4 DEF LifecycleInv
<1>8. CASE UNCHANGED tcb
  <2>1. LifecycleTypeOK'
    BY <1>2, <1>4, <1>6, <1>8 DEF LifecycleInv, LifecycleTypeOK
  <2>2. Unpublished' = Unpublished /\ Handled' = Handled
    BY <1>2, <1>4 DEF Unpublished, Handled
  <2>3. TasksInv'
    BY <1>2, <1>6, <1>8 DEF LifecycleInv, TasksInv, Live
  <2>4. TableInv'
    BY <1>2, <1>4, <1>8, <2>2 DEF LifecycleInv, TableInv, TableIsExact, Shown, Live
  <2>5. QueueInv'
    <3>1. Unreaped' = Unreaped
      BY <1>2, <1>8, <2>2 DEF Unreaped, Live
    <3> QED
      BY <1>2, <1>8, <3>1 DEF LifecycleInv, QueueInv
  <2>6. ZeusInv'
    BY <1>2, <1>4, <1>6, <1>8 DEF LifecycleInv, ZeusInv, OwnedBy, Live, Busy
  <2>7. HadesInv'
    BY <1>2, <1>4, <1>6, <1>8, <2>2 DEF LifecycleInv, HadesInv, OwnedBy, Live, Busy
  <2> QED
    BY <1>6, <2>1, <2>3, <2>4, <2>5, <2>6, <2>7 DEF LifecycleInv
<1> QED
  BY <1>1, <1>7, <1>8

(* Nobody has the PID any more when Hades frees it.                        *)
LEMMA HadesReleasePreserves == LifecycleInv /\ HadesRelease => LifecycleInv'
<1> SUFFICES ASSUME LifecycleInv, HadesRelease PROVE LifecycleInv'
  OBVIOUS
<1> USE SetFacts
<1>1. /\ hades.pc = "kill" /\ table_lock' = "free" /\ PidFree(hades.pid)
      /\ num_tasks' = num_tasks - 1
      /\ hades' = [hades EXCEPT !.pc = "delay", !.pid = None, !.task = Nobody,
                                !.last = FALSE, !.next = 1]
      /\ UNCHANGED <<tcb, info, process_table, zeus_queue, zeus, hades_queue>>
      /\ UNCHANGED <<refcount, freed_heaps, children, failures, kills>>
  BY DEF HadesRelease
<1>2. hades.pid \in used \ {Kernel} /\ OwnedBy(hades.pid) = {}
  BY <1>1 DEF LifecycleInv, HadesInv, Busy
<1>3. PidInv' /\ PidTypeOK' /\ used' = used \ {hades.pid}
  BY <1>1, <1>2, FreePreserves DEF LifecycleInv, PidInv, PidFree
<1>4. /\ hades' \in [pc : {"wait", "remove", "dying", "signal", "kill", "delay"},
                     pid : Pid \cup {None}, task : Task \cup {Nobody}, last : BOOLEAN,
                     next : Nat \ {0}]
      /\ hades'.pc = "delay"
  <2>1. 1 \in Nat \ {0} /\ FALSE \in BOOLEAN
    OBVIOUS
  <2> QED
    BY <1>1, <2>1 DEF LifecycleInv, LifecycleTypeOK
<1>5. LifecycleTypeOK'
  <2>1. num_tasks' \in Int
    BY <1>1 DEF LifecycleInv, LifecycleTypeOK
  <2> QED
    BY <1>1, <1>3, <1>4, <2>1 DEF LifecycleInv, LifecycleTypeOK
<1>6. Unpublished' = Unpublished /\ Handled' = {} /\ Handled = {}
  BY <1>1, <1>4 DEF Unpublished, Handled
<1>7. TasksInv'
  BY <1>1, <1>2, <1>3 DEF LifecycleInv, TasksInv, OwnedBy, Live
<1>8. TableInv'
  BY <1>1, <1>4, <1>6 DEF LifecycleInv, TableInv, TableIsExact, Shown, Live
<1>9. QueueInv'
  <2>1. Unreaped' = Unreaped
    BY <1>1, <1>6 DEF Unreaped, Live
  <2> QED
    BY <1>1, <2>1 DEF LifecycleInv, QueueInv
<1>10. ZeusInv'
  <2>1. zeus.pc = "build" => zeus.pid \in used'
    BY <1>1, <1>3 DEF LifecycleInv, ZeusInv, Busy
  <2>2. zeus.pc = "publish" => Live(zeus.child)
    BY DEF LifecycleInv, ZeusInv
  <2> QED
    BY <1>1, <1>4, <2>1, <2>2, ZeusUntouchedByHades DEF Live, Busy
<1>11. HadesInv'
  BY <1>4 DEF HadesInv, Busy
<1> QED
  BY <1>3, <1>5, <1>7, <1>8, <1>9, <1>10, <1>11 DEF LifecycleInv

LEMMA HadesWakePreserves == LifecycleInv /\ HadesWake => LifecycleInv'
<1> SUFFICES ASSUME LifecycleInv, HadesWake PROVE LifecycleInv'
  OBVIOUS
<1>1. /\ hades.pc = "delay" /\ hades' = [hades EXCEPT !.pc = "wait"]
      /\ UNCHANGED <<tcb, info, process_table, zeus_queue, zeus, hades_queue, pidVars>>
      /\ UNCHANGED <<refcount, freed_heaps, table_lock, children, num_tasks, failures, kills>>
  BY DEF HadesWake
<1>2. PidInv' /\ PidTypeOK' /\ UNCHANGED used
  BY <1>1, StutterPreserves DEF LifecycleInv, PidInv, pidVars
<1>3. /\ hades' \in [pc : {"wait", "remove", "dying", "signal", "kill", "delay"},
                     pid : Pid \cup {None}, task : Task \cup {Nobody}, last : BOOLEAN,
                     next : Nat \ {0}]
      /\ hades'.pc = "wait"
  BY <1>1 DEF LifecycleInv, LifecycleTypeOK
<1>4. LifecycleTypeOK'
  BY <1>1, <1>2, <1>3 DEF LifecycleInv, LifecycleTypeOK
<1>5. Unpublished' = Unpublished /\ Handled' = {} /\ Handled = {}
  BY <1>1, <1>3 DEF Unpublished, Handled
<1>6. TasksInv'
  BY <1>1, <1>2 DEF LifecycleInv, TasksInv, Live
<1>7. TableInv'
  BY <1>1, <1>3, <1>5 DEF LifecycleInv, TableInv, TableIsExact, Shown, Live
<1>8. QueueInv'
  <2>1. Unreaped' = Unreaped
    BY <1>1, <1>5 DEF Unreaped, Live
  <2> QED
    BY <1>1, <2>1 DEF LifecycleInv, QueueInv
<1>9. ZeusInv'
  BY <1>1, <1>2, <1>3 DEF LifecycleInv, ZeusInv, OwnedBy, Live, Busy
<1>10. HadesInv'
  BY <1>3 DEF HadesInv, Busy
<1> QED
  BY <1>2, <1>4, <1>6, <1>7, <1>8, <1>9, <1>10 DEF LifecycleInv
-----------------------------------------------------------------------------
LEMMA InitEstablishesLifecycle == LifecycleInit => LifecycleInv
<1> SUFFICES ASSUME LifecycleInit PROVE LifecycleInv
  OBVIOUS
<1> USE SetFacts
<1>1. PidInv /\ PidTypeOK /\ used = {Kernel}
  BY InitEstablishes DEF LifecycleInit, PidInit, PidInv
<1>2. /\ \A t \in UserTask : tcb[t] = "unborn" /\ info[t] = NoInfo
      /\ tcb[InitTask] = "ready"
      /\ info[InitTask] = [state |-> "live", pid |-> 0, parent |-> 0, maker |-> None, heap |-> 0,
                           late |-> FALSE]
      /\ \A p \in Pid : process_table[p] = IF p = 0 THEN InitTask ELSE Nobody
      /\ zeus_queue = <<>> /\ zeus.pc = "wait" /\ hades_queue = <<>> /\ hades.pc = "wait"
  BY DEF LifecycleInit, NoInfo
<1>3. \A t \in UserTask : ~Live(t)
  BY <1>2 DEF Live, NoInfo
<1>4. LifecycleTypeOK
  <2>1. tcb \in [Task -> TcbState]
    BY DEF LifecycleInit, TcbState
  <2>2. info \in [Task -> TaskInfo]
    BY DEF LifecycleInit, NoInfo, Kernel, InitTask, TaskInfo
  <2>3. refcount \in [UserTask -> Int]
    BY DEF LifecycleInit
  <2>4. process_table \in [Pid -> Task \cup {Nobody}]
    BY DEF LifecycleInit
  <2>5. children \in [Task -> Seq(UserTask)]
    BY DEF LifecycleInit
  <2>6. zeus \in [pc : {"wait", "build", "publish", "count", "answer", "delay"},
                  caller : Task \cup {None}, type : {"process", "thread"},
                  pid : Pid \cup {None}, child : UserTask \cup {Nobody}, loaded : Int]
    BY DEF LifecycleInit
  <2>7. hades \in [pc : {"wait", "remove", "dying", "signal", "kill", "delay"},
                   pid : Pid \cup {None}, task : Task \cup {Nobody}, last : BOOLEAN,
                   next : Nat \ {0}]
    <3>1. FALSE \in BOOLEAN /\ 1 \in Nat \ {0}
      OBVIOUS
    <3> QED
      BY <3>1 DEF LifecycleInit
  <2>8. /\ zeus_queue \in Seq([caller : Task, type : {"process", "thread"}])
        /\ hades_queue \in Seq(Pid)
    BY DEF LifecycleInit
  <2>9. failures \in 0..MaxFailures /\ kills \in 0..MaxKills /\ num_tasks \in Int
    BY LifecycleAssumption DEF LifecycleInit
  <2> QED
    BY <1>1, <2>1, <2>2, <2>3, <2>4, <2>5, <2>6, <2>7, <2>8, <2>9
       DEF LifecycleTypeOK, LifecycleInit
<1>5. TasksInv
  <2>1. \A t \in UserTask : tcb[t] = "unborn" /\ info[t].state = "none"
    BY <1>2 DEF NoInfo
  <2>2. /\ tcb[InitTask] = "ready" /\ info[InitTask].state = "live"
        /\ info[InitTask].pid = Kernel /\ info[InitTask].parent = Kernel
    BY <1>2 DEF Kernel
  <2> QED
    BY <1>3, <2>1, <2>2 DEF TasksInv
<1>6. TableInv
  BY <1>2, <1>3 DEF TableInv, TableIsExact, Shown, Kernel, InitTask, Nobody
<1>7. QueueInv
  BY <1>2, <1>3 DEF QueueInv, Distinct, Members, Unreaped
<1>8. ZeusInv
  BY <1>2 DEF ZeusInv
<1>9. HadesInv
  BY <1>2 DEF HadesInv, Busy
<1> QED
  BY <1>1, <1>4, <1>5, <1>6, <1>7, <1>8, <1>9 DEF LifecycleInv
-----------------------------------------------------------------------------
LEMMA ZeusPreserves == LifecycleInv /\ ZeusStep => LifecycleInv'
BY ZeusReceivePreserves, ZeusGivesUpPreserves, UsersLeaveTheCore, ZeusBuildPreserves,
   ZeusPublishPreserves, ZeusCountOrWakePreserves, ZeusAnswerPreserves DEF ZeusStep

LEMMA HadesPreserves == LifecycleInv /\ HadesStep => LifecycleInv'
BY HadesReceivePreserves, HadesRemovePreserves, HadesDestroyPreserves, HadesSignalPreserves,
   HadesKillChildPreserves, HadesReleasePreserves, HadesWakePreserves, UsersLeaveTheCore
   DEF HadesStep

LEMMA UsersPreserve ==
    ASSUME LifecycleInv, InitStep \/ \E t \in UserTask : UserStep(t)
    PROVE  LifecycleInv'
<1> USE SetFacts
<1>1. CASE InitStep
  <2>1. CASE Request(InitTask, "process")
    BY <2>1, RequestPreserves
  <2>2. CASE Wait(InitTask) \/ InitScan \/ InitScanDone
    BY <2>2, UsersLeaveTheCore
  <2> QED
    BY <1>1, <2>1, <2>2 DEF InitStep
<1>2. ASSUME NEW t \in UserTask, UserStep(t)
      PROVE  LifecycleInv'
  <2>1. CASE \E type \in {"process", "thread"} : Request(t, type)
    BY <2>1, RequestPreserves
  <2>2. CASE Wait(t) \/ RunUnpublished(t) \/ RunInFreedHeap(t)
    BY <2>2, UsersLeaveTheCore
  <2>3. CASE Exit(t)
    BY <2>3, ExitPreserves
  <2>4. CASE Kill(t)
    BY <2>4, KillPreserves
  <2>5. CASE IdleReap(t)
    BY <2>5, IdleReapPreserves
  <2>6. CASE Report(t)
    BY <2>6, ReportPreserves
  <2> QED
    BY <1>2, <2>1, <2>2, <2>3, <2>4, <2>5, <2>6 DEF UserStep
<1> QED
  BY <1>1, <1>2

LEMMA StutteringPreserves == LifecycleInv /\ UNCHANGED vars => LifecycleInv'
<1> SUFFICES ASSUME LifecycleInv, UNCHANGED vars PROVE LifecycleInv'
  OBVIOUS
<1>1. UNCHANGED coreVars
  BY DEF vars, sysVars, coreVars
<1>2. LifecycleTypeOK'
  BY DEF LifecycleInv, LifecycleTypeOK, PidTypeOK, vars, sysVars, pidVars
<1> QED
  BY <1>1, <1>2, CoreUnchanged

(* Each PID in use is in one place: with Zeus, with a task, in hades_queue *)
(* or with Hades (task.c: zeus, hades, vTaskPreDeletionHook).              *)
THEOREM LifecycleInvariance == SafetySpec => []LifecycleInv
<1>1. LifecycleInit => LifecycleInv
  BY InitEstablishesLifecycle
<1>2. LifecycleInv /\ [Next]_vars => LifecycleInv'
  BY ZeusPreserves, HadesPreserves, UsersPreserve, StutteringPreserves DEF Next
<1> QED
  BY <1>1, <1>2, PTL DEF SafetySpec

(* The variables of Zeus, Hades, FreeRTOS and the process table keep their *)
(* types, however many tasks and PIDs there are (task.c: task_init, zeus,  *)
(* hades).                                                                 *)
THEOREM LifecycleTypeCorrect == SafetySpec => []LifecycleTypeOK
<1>1. LifecycleInv => LifecycleTypeOK
  BY DEF LifecycleInv
<1> QED
  BY <1>1, LifecycleInvariance, PTL

(* process_table shows each task from its publication until Hades takes    *)
(* it, and never a task whose task_info_t is freed (task.c:                *)
(* process_table_add_task, process_table_remove_task).                     *)
THEOREM TableIsAlwaysExact == SafetySpec => []TableIsExact
<1>1. LifecycleInv => TableIsExact
  BY DEF LifecycleInv, TableInv
<1> QED
  BY <1>1, LifecycleInvariance, PTL
-----------------------------------------------------------------------------
(* A PID is in hades_queue once or not at all.                             *)
LEMMA ReportedCounts ==
    ASSUME Distinct(hades_queue), NEW p
    PROVE  Reported(p) = IF p \in Members(hades_queue) THEN 1 ELSE 0
<1> DEFINE places == {i \in DOMAIN hades_queue : hades_queue[i] = p}
<1>1. Reported(p) = Cardinality(places)
  BY DEF Reported
<1>2. CASE p \in Members(hades_queue)
  <2>1. PICK i \in DOMAIN hades_queue : hades_queue[i] = p
    BY <1>2 DEF Members
  <2>2. places = {i}
    BY <2>1 DEF Distinct
  <2>3. Cardinality(places) = 1
    BY <2>2, FS_Singleton
  <2> QED
    BY <1>1, <1>2, <2>3
<1>3. CASE p \notin Members(hades_queue)
  <2>1. places = {}
    BY <1>3 DEF Members
  <2>2. Cardinality(places) = 0
    BY <2>1, FS_EmptySet
  <2> QED
    BY <1>1, <1>3, <2>2
<1> QED
  BY <1>2, <1>3

LEMMA OnlyTheUnreapedAreReported ==
    ASSUME LifecycleInv, NEW t \in UserTask, Live(t)
    PROVE  info[t].pid \in Members(hades_queue) <=> t \in Unreaped
BY DEF LifecycleInv, TasksInv, QueueInv, Unreaped

(* Hades hears of each death exactly once, and only after FreeRTOS has let *)
(* go of the task, whoever deletes it and however the deletions interleave *)
(* (task.c: vTaskPreDeletionHook; tasks.c: vTaskDelete, prvDeleteTCB).     *)
THEOREM EveryDeathIsReportedOnce == SafetySpec => []DeathsReportedOnce
<1>1. ASSUME LifecycleInv, NEW t \in UserTask, Live(t), t \notin Unpublished
      PROVE  Reported(info[t].pid) + (IF t \in Handled THEN 1 ELSE 0)
               = IF tcb[t] = "freed" THEN 1 ELSE 0
  <2>1. Reported(info[t].pid) = IF t \in Unreaped THEN 1 ELSE 0
    BY <1>1, ReportedCounts, OnlyTheUnreapedAreReported DEF LifecycleInv, QueueInv
  <2>2. t \in Unreaped <=> tcb[t] = "freed" /\ t \notin Handled
    BY <1>1 DEF Unreaped
  <2>3. t \in Handled => tcb[t] = "freed"
    BY <1>1 DEF LifecycleInv, HadesInv, Handled
  <2> QED
    BY <2>1, <2>2, <2>3
<1>2. LifecycleInv => DeathsReportedOnce
  BY <1>1 DEF DeathsReportedOnce
<1> QED
  BY <1>2, LifecycleInvariance, PTL

(* A PID is not given out again while its task, its entry in the process   *)
(* table or a message about it is left (task.c: "Don't free our PID until  *)
(* the last moment").                                                      *)
THEOREM PidsAreFreedLast == SafetySpec => []PidFreedLast
<1>1. ASSUME LifecycleInv, NEW p \in Pid \ used
      PROVE  process_table[p] = Nobody /\ Reported(p) = 0
  <2>1. \A t \in UserTask : Live(t) => info[t].pid # p
    BY <1>1 DEF LifecycleInv, TasksInv
  <2>2. process_table[p] \in {InitTask, Nobody} \cup UserTask
    BY <1>1, SetFacts DEF LifecycleInv, LifecycleTypeOK
  <2>3. process_table[p] # InitTask
    BY <1>1 DEF LifecycleInv, TableInv, PidInv
  <2>4. process_table[p] \notin UserTask
    BY <1>1, <2>1 DEF LifecycleInv, TableInv, TableIsExact, Shown
  <2>5. p \notin Members(hades_queue)
    BY <1>1, <2>1 DEF LifecycleInv, QueueInv, Unreaped
  <2>6. Reported(p) = 0
    BY <1>1, <2>5, ReportedCounts DEF LifecycleInv, QueueInv
  <2> QED
    BY <2>2, <2>3, <2>4, <2>6
<1>2. LifecycleInv => PidFreedLast
  BY <1>1 DEF PidFreedLast, LifecycleInv, TasksInv
<1> QED
  BY <1>2, LifecycleInvariance, PTL
-----------------------------------------------------------------------------
(* Zeus and Hades use the ring as PidTable assumes: they free only PIDs    *)
(* that are in use and never the kernel's (task.c: calls of pid_free).     *)
THEOREM TasksUseTheRingRightly == SafetySpec => PidSpec
<1>1. LifecycleInit => PidInit
  BY DEF LifecycleInit
<1>2. LifecycleInv /\ [Next]_vars => [PidNext]_pidVars
  <2> SUFFICES ASSUME LifecycleInv, [Next]_vars PROVE PidNext \/ UNCHANGED pidVars
    OBVIOUS
  <2>1. CASE ZeusStep
    <3>1. CASE ZeusReceive
      BY <3>1 DEF ZeusReceive, PidNext
    <3>2. CASE ZeusOutOfMemory \/ ZeusCreateFails
      <4>1. zeus.pc = "build" /\ PidFree(zeus.pid)
        BY <3>2 DEF ZeusOutOfMemory, ZeusCreateFails, ZeusGivesUp
      <4> QED
        BY <4>1 DEF PidNext, LifecycleInv, ZeusInv
    <3>3. CASE \/ ZeusReadsFreedInfo \/ ZeusBuild \/ ZeusPublish \/ ZeusCount
               \/ ZeusAnswer \/ ZeusWake
      BY <3>3 DEF ZeusReadsFreedInfo, ZeusBuild, ZeusPublish, ZeusCount, ZeusAnswer, ZeusWake
    <3> QED
      BY <2>1, <3>1, <3>2, <3>3 DEF ZeusStep
  <2>2. CASE HadesStep
    <3>1. CASE HadesRelease
      <4>1. hades.pc = "kill" /\ PidFree(hades.pid)
        BY <3>1 DEF HadesRelease
      <4> QED
        BY <4>1 DEF PidNext, LifecycleInv, HadesInv, Busy
    <3>2. CASE \/ HadesReceive \/ HadesRemove \/ HadesDestroy \/ HadesSignal
               \/ HadesKillChild \/ HadesWake \/ HadesCountsFreedHeap
      BY <3>2 DEF HadesReceive, HadesRemove, HadesDestroy, HadesSignal, HadesKillChild,
                  HadesWake, HadesCountsFreedHeap
    <3> QED
      BY <2>2, <3>1, <3>2 DEF HadesStep
  <2>3. CASE InitStep \/ \E t \in UserTask : UserStep(t)
    BY <2>3 DEF InitStep, UserStep, Request, Wait, Exit, RunUnpublished, InitScan,
                InitScanDone, Kill, IdleReap, Report, RunInFreedHeap
  <2>4. CASE UNCHANGED vars
    BY <2>4 DEF vars
  <2> QED
    BY <2>1, <2>2, <2>3, <2>4 DEF Next
<1> QED
  BY <1>1, <1>2, LifecycleInvariance, PTL DEF SafetySpec, PidSpec

(* So pid_allocate gives each task a PID nobody has, and refuses only when *)
(* at most one is left (task.c: zeus).                                     *)
THEOREM TasksSeeThePool == SafetySpec => PoolSpec
BY TasksUseTheRingRightly, RingImplementsPool, PTL
-----------------------------------------------------------------------------
(* The books that Zeus and Hades keep beside the PIDs                      *)

(* The tasks that a heap is counted for.                                   *)
Sharers(h) == {t \in UserTask : /\ Live(t) /\ info[t].heap = h
                                /\ ~(hades.pc = "dying" /\ hades.task = t)}
Covered(h) == /\ refcount[h] >= Cardinality(Sharers(h))
              /\ refcount[h] <= Cardinality(Sharers(h)) + failures

(* Every heap is a user task's, whose process has once been made: init asks*)
(* for no threads.  Only the threads made while Hades, having counted the  *)
(* last user, destroys a heap live in one that is freed or about to be.    *)
Born(t) == info[t].state # "none"
RequestInv ==
    /\ zeus_queue # <<>> /\ zeus_queue[1].caller = InitTask => zeus_queue[1].type = "process"
    /\ zeus.pc = "build" /\ zeus.caller = InitTask => zeus.type = "process"
HeapInv ==
    /\ \A t \in UserTask : Born(t) => info[t].heap \in UserTask /\ Born(info[t].heap)
    /\ \A h \in freed_heaps : h \in UserTask /\ Born(h)
    /\ \A t \in UserTask : Live(t) /\ info[t].heap \in freed_heaps => info[t].late
    /\ hades.pc = "dying" /\ hades.last =>
         \A t \in Sharers(info[hades.task].heap) : info[t].late

(* The task that Hades is about to report is in no queue yet.              *)
ReportInv ==
    /\ ReportsAreOfTheDead
    /\ hades.pc = "signal" => \A c \in Task : hades.task \notin Members(children[c])

(* What Zeus has loaded is no less than what Hades has left.               *)
CountInv ==
    /\ NumTasksNeverBelow
    /\ zeus.pc = "count" => zeus.loaded >= num_tasks
    /\ hades.pc \in {"signal", "kill"} => hades.task \in UserTask /\ info[hades.task].state = "freed"

UserAct(t) == \/ \E type \in {"process", "thread"} : Request(t, type)
              \/ Wait(t) \/ Exit(t) \/ RunUnpublished(t) \/ RunInFreedHeap(t)
              \/ Kill(t) \/ IdleReap(t) \/ Report(t)
              \/ t = InitTask /\ (InitScan \/ InitScanDone)

LEMMA StepsAre ==
    ASSUME [Next]_vars
    PROVE  \/ ZeusReceive \/ ZeusOutOfMemory \/ ZeusCreateFails \/ ZeusReadsFreedInfo
           \/ ZeusBuild \/ ZeusPublish \/ ZeusCount \/ ZeusAnswer \/ ZeusWake
           \/ HadesReceive \/ HadesRemove \/ HadesDestroy \/ HadesSignal
           \/ HadesKillChild \/ HadesRelease \/ HadesWake \/ HadesCountsFreedHeap
           \/ \E t \in Task : UserAct(t)
           \/ UNCHANGED vars
<1> USE SetFacts
<1>1. ASSUME NEW t \in UserTask, UserStep(t)
      PROVE  \E u \in Task : UserAct(u)
  BY <1>1 DEF UserStep, UserAct
<1>2. ASSUME InitStep
      PROVE  \E u \in Task : UserAct(u)
  BY <1>2 DEF InitStep, UserAct
<1> QED
  BY <1>1, <1>2 DEF Next, ZeusStep, HadesStep

LEMMA UsersKeepBooks ==
    ASSUME NEW t \in Task, UserAct(t)
    PROVE  /\ UNCHANGED <<info, refcount, freed_heaps, process_table, zeus, hades, num_tasks, failures>>
           /\ \/ UNCHANGED children
              \/ children[t] # <<>> /\ children' = [children EXCEPT ![t] = Tail(@)]
           /\ \/ UNCHANGED zeus_queue
              \/ \E type \in {"process", "thread"} :
                   /\ zeus_queue' = <<[caller |-> t, type |-> type]>>
                   /\ t = InitTask => type = "process"
<1>1. CASE \E type \in {"process", "thread"} : Request(t, type)
  BY <1>1 DEF Request
<1>2. CASE Wait(t)
  BY <1>2 DEF Wait
<1>3. CASE \/ Exit(t) \/ RunUnpublished(t) \/ RunInFreedHeap(t) \/ Kill(t) \/ IdleReap(t)
           \/ Report(t) \/ InitScan \/ InitScanDone
  BY <1>3 DEF Exit, RunUnpublished, RunInFreedHeap, Kill, IdleReap, Report, InitScan, InitScanDone
<1> QED
  BY <1>1, <1>2, <1>3 DEF UserAct

HadesType == [pc : {"wait", "remove", "dying", "signal", "kill", "delay"},
              pid : Pid \cup {None}, task : Task \cup {Nobody}, last : BOOLEAN, next : Nat \ {0}]
ZeusType == [pc : {"wait", "build", "publish", "count", "answer", "delay"},
             caller : Task \cup {None}, type : {"process", "thread"},
             pid : Pid \cup {None}, child : UserTask \cup {Nobody}, loaded : Int]

LEMMA BookTypes ==
    ASSUME LifecycleInv
    PROVE  /\ hades \in HadesType /\ zeus \in ZeusType
           /\ refcount \in [UserTask -> Int] /\ children \in [Task -> Seq(UserTask)]
           /\ num_tasks \in Int /\ failures \in Nat
           /\ tcb \in [Task -> TcbState]
           /\ \A t \in Task : /\ info[t].state \in {"none", "live", "freed"}
                              /\ tcb[t] = "unborn" <=> info[t].state = "none"
  BY DEF LifecycleInv, LifecycleTypeOK, TasksInv, HadesType, ZeusType, TaskInfo

(* Where Hades goes.                                                       *)
LEMMA HadesMoves ==
    ASSUME LifecycleInv, [Next]_vars
    PROVE  \/ HadesReceive /\ hades.pc = "wait" /\ hades'.pc \in {"wait", "remove"}
           \/ HadesRemove /\ hades.pc = "remove" /\ hades'.pc = "dying" /\ hades'.task = hades.task
              /\ hades'.last = (refcount[info[hades.task].heap] = 1)
           \/ HadesDestroy /\ hades.pc = "dying" /\ hades'.pc = "signal" /\ hades'.task = hades.task
           \/ HadesSignal /\ hades.pc = "signal" /\ hades'.pc = "kill" /\ hades'.task = hades.task
           \/ HadesRelease /\ hades.pc = "kill" /\ hades'.pc = "delay"
           \/ HadesWake /\ hades.pc = "delay" /\ hades'.pc = "wait"
           \/ HadesKillChild /\ hades.pc = "kill" /\ hades'.pc = "kill" /\ hades'.task = hades.task
           \/ UNCHANGED hades
<1>1. hades \in HadesType
  BY BookTypes
<1>2. CASE HadesReceive
  <2>1. hades.pc = "wait" /\ hades' = IF process_table[Head(hades_queue)] = Nobody THEN hades
                  ELSE [hades EXCEPT !.pc = "remove", !.pid = Head(hades_queue),
                                     !.task = process_table[Head(hades_queue)]]
    BY <1>2 DEF HadesReceive
  <2> QED
    BY <1>1, <1>2, <2>1 DEF HadesType
<1>3. CASE HadesRemove
  <2> DEFINE last == (refcount[info[hades.task].heap] = 1)
  <2>1. hades.pc = "remove" /\ hades' = [hades EXCEPT !.pc = "dying", !.last = last]
    BY <1>3 DEF HadesRemove
  <2> HIDE DEF last
  <2>2. hades'.pc = "dying" /\ hades'.task = hades.task /\ hades'.last = last
    BY <1>1, <2>1 DEF HadesType
  <2> QED
    BY <1>3, <2>1, <2>2, Zenon DEF last
<1>4. CASE HadesDestroy
  BY <1>1, <1>4 DEF HadesDestroy, HadesType
<1>5. CASE HadesSignal
  BY <1>1, <1>5 DEF HadesSignal, HadesType
<1>6. CASE HadesRelease
  BY <1>1, <1>6 DEF HadesRelease, HadesType
<1>7. CASE HadesWake
  BY <1>1, <1>7 DEF HadesWake, HadesType
<1>8. CASE HadesKillChild
  <2>1. hades.pc = "kill" /\ \E i \in Victims : hades' = [hades EXCEPT !.next = i + 1]
    BY <1>8 DEF HadesKillChild
  <2> QED
    BY <1>1, <1>8, <2>1 DEF HadesType
<1>9. CASE \/ ZeusReceive \/ ZeusOutOfMemory \/ ZeusCreateFails \/ ZeusReadsFreedInfo
           \/ ZeusBuild \/ ZeusPublish \/ ZeusCount \/ ZeusAnswer \/ ZeusWake
           \/ HadesCountsFreedHeap
  BY <1>9 DEF ZeusReceive, ZeusOutOfMemory, ZeusCreateFails, ZeusReadsFreedInfo, HadesCountsFreedHeap,
              ZeusBuild, ZeusPublish, ZeusCount, ZeusAnswer, ZeusWake
<1>10. CASE UNCHANGED vars \/ \E t \in Task : UserAct(t)
  BY <1>10, UsersKeepBooks DEF vars, sysVars
<1> QED
  BY <1>2, <1>3, <1>4, <1>5, <1>6, <1>7, <1>8, <1>9, <1>10, StepsAre

(* The task_infos, the counts and the heaps.                               *)
LEMMA BookMoves ==
    ASSUME LifecycleInv, [Next]_vars
    PROVE  \/ ZeusBuild \/ HadesRemove \/ HadesDestroy
           \/ ZeusOutOfMemory \/ ZeusCreateFails
           \/ /\ UNCHANGED <<info, refcount, freed_heaps, failures>>
              /\ \A t : (hades'.pc = "dying" /\ hades'.task = t) <=> (hades.pc = "dying" /\ hades.task = t)
<1>1. CASE \/ ZeusReceive \/ ZeusReadsFreedInfo \/ ZeusPublish \/ ZeusCount \/ ZeusAnswer \/ ZeusWake
           \/ HadesCountsFreedHeap
  BY <1>1 DEF ZeusReceive, ZeusReadsFreedInfo, ZeusPublish, ZeusCount, ZeusAnswer, ZeusWake,
              HadesCountsFreedHeap
<1>2. CASE HadesReceive \/ HadesSignal \/ HadesKillChild \/ HadesRelease \/ HadesWake
  <2>1. UNCHANGED <<info, refcount, freed_heaps, failures>>
    BY <1>2 DEF HadesReceive, HadesSignal, HadesKillChild, HadesRelease, HadesWake
  <2>2. HadesRemove \/ HadesDestroy \/ UNCHANGED hades \/ (hades.pc # "dying" /\ hades'.pc # "dying")
    BY HadesMoves
  <2> QED
    BY <2>1, <2>2
<1>3. CASE UNCHANGED vars \/ \E t \in Task : UserAct(t)
  BY <1>3, UsersKeepBooks DEF vars, sysVars
<1> QED
  BY <1>1, <1>2, <1>3, StepsAre
-----------------------------------------------------------------------------
LEMMA SharersAreFinite == \A h : /\ IsFiniteSet(Sharers(h)) /\ Cardinality(Sharers(h)) \in Nat
                                 /\ Sharers(h) \subseteq UserTask
<1>1. IsFiniteSet(UserTask)
  BY LifecycleAssumption, FS_Interval DEF UserTask
<1>2. \A h : Sharers(h) \subseteq UserTask
  BY DEF Sharers
<1> QED
  BY <1>1, <1>2, FS_Subset, FS_CardinalityType

(* What Zeus builds.                                                       *)
Builds(new) ==
    /\ tcb[new] = "unborn" /\ info[new].state = "none"
    /\ zeus.pc = "build" /\ HadesBlocked /\ info[zeus.caller].state = "live"
    /\ tcb'[new] = "ready" /\ info'[new].state = "live"
    /\ info'[new].heap = IF zeus.type = "thread" THEN info[zeus.caller].heap ELSE new
    /\ zeus.type = "thread" => info[zeus.caller].heap \notin freed_heaps
    /\ info'[new].late = Dying(info'[new].heap) /\ info'[new].maker = zeus.caller
    /\ \A t \in Task \ {new} : tcb'[t] = tcb[t] /\ info'[t] = info[t]
    /\ refcount' = [refcount EXCEPT ![info'[new].heap] = @ + 1]
    /\ zeus'.pc = "publish" /\ zeus'.caller = zeus.caller /\ zeus'.child = new
    /\ UNCHANGED <<freed_heaps, process_table, children, zeus_queue, hades, num_tasks, failures>>

LEMMA Built ==
    ASSUME LifecycleInv, ZeusBuild
    PROVE  \E new \in UserTask : Builds(new)
<1> USE SetFacts
<1>1. PICK new \in Unborn :
         LET heap == IF zeus.type = "thread" THEN info[zeus.caller].heap ELSE new
         IN  /\ tcb' = [tcb EXCEPT ![new] = "ready"]
             /\ info' = [info EXCEPT ![new] = [state |-> "live", pid |-> zeus.pid,
                            parent |-> info[zeus.caller].pid, maker |-> zeus.caller, heap |-> heap,
                            late |-> Dying(heap)]]
             /\ refcount' = [refcount EXCEPT ![heap] = @ + 1]
             /\ zeus' = [zeus EXCEPT !.pc = "publish", !.child = new]
  BY DEF ZeusBuild, ParentInfo, TakeRef
<1> DEFINE heap == IF zeus.type = "thread" THEN info[zeus.caller].heap ELSE new
           late == Dying(heap)
<1>2. /\ new \in UserTask /\ new \in Task /\ tcb[new] = "unborn" /\ info[new].state = "none"
  BY BookTypes DEF Unborn
<1>3. /\ zeus.pc = "build" /\ HadesBlocked /\ info[zeus.caller].state = "live"
      /\ zeus.type = "thread" => info[zeus.caller].heap \notin freed_heaps
      /\ UNCHANGED <<freed_heaps, process_table, children, zeus_queue, hades, num_tasks, failures>>
  BY DEF ZeusBuild, ParentInfo, ParentUsable
<1>4. tcb \in [Task -> TcbState] /\ info \in [Task -> TaskInfo]
  BY DEF LifecycleInv, LifecycleTypeOK
<1>5. zeus'.pc = "publish" /\ zeus'.caller = zeus.caller /\ zeus'.child = new
  BY <1>1, BookTypes DEF ZeusType
<1>6. /\ refcount' = [refcount EXCEPT ![heap] = @ + 1]
      /\ info' = [info EXCEPT ![new] = [state |-> "live", pid |-> zeus.pid,
                            parent |-> info[zeus.caller].pid, maker |-> zeus.caller, heap |-> heap,
                            late |-> late]]
  BY <1>1
<1> HIDE DEF heap, late
<1>7. /\ tcb'[new] = "ready" /\ info'[new].state = "live" /\ info'[new].heap = heap
      /\ info'[new].late = late /\ info'[new].maker = zeus.caller
      /\ \A t \in Task \ {new} : tcb'[t] = tcb[t] /\ info'[t] = info[t]
  BY <1>1, <1>2, <1>4, <1>6
<1>8. refcount' = [refcount EXCEPT ![info'[new].heap] = @ + 1]
  BY <1>6, <1>7
<1>8a. info'[new].late = Dying(info'[new].heap)
  BY <1>7, Zenon DEF late
<1>9. Builds(new)
  BY <1>2, <1>3, <1>5, <1>7, <1>8, <1>8a, Zenon DEF Builds, heap
<1> QED
  BY <1>2, <1>9

LEMMA CountsKept ==
    ASSUME LifecycleInv, [Next]_vars, RefcountCoversUsers
    PROVE  RefcountCoversUsers'
<1> USE SetFacts
<1> SUFFICES ASSUME NEW h \in UserTask PROVE Covered(h)'
  BY DEF RefcountCoversUsers, Covered, Sharers
<1>1. /\ Covered(h) /\ refcount \in [UserTask -> Int] /\ refcount[h] \in Int /\ failures \in Nat
      /\ IsFiniteSet(Sharers(h)) /\ Cardinality(Sharers(h)) \in Nat
  BY BookTypes, SharersAreFinite DEF RefcountCoversUsers, Covered, Sharers
<1>2. CASE ZeusBuild
  <2>1. PICK new \in UserTask : Builds(new)
    BY <1>2, Built
  <2> DEFINE heap == info'[new].heap
  <2>1a. /\ info[new].state = "none" /\ info'[new].state = "live" /\ info'[new].heap = heap
         /\ \A t \in Task \ {new} : info'[t] = info[t]
         /\ refcount' = [refcount EXCEPT ![heap] = @ + 1]
         /\ UNCHANGED <<hades, failures>>
    BY <2>1 DEF Builds
  <2> HIDE DEF heap
  <2>2. new \notin Sharers(h) /\ ~(hades.pc = "dying" /\ hades.task = new)
    BY <2>1a DEF Sharers, Live, LifecycleInv, HadesInv
  <2>3. CASE h = heap
    <3>1. Sharers(h)' = Sharers(h) \cup {new}
      BY <2>1a, <2>2, <2>3 DEF Sharers, Live
    <3>2. Cardinality(Sharers(h)') = Cardinality(Sharers(h)) + 1
      BY <1>1, <2>2, <3>1, FS_AddElement
    <3>3. refcount'[h] = refcount[h] + 1
      BY <1>1, <2>1a, <2>3
    <3> QED
      BY <1>1, <2>1a, <3>2, <3>3 DEF Covered
  <2>4. CASE h # heap
    <3>1. Sharers(h)' = Sharers(h)
      BY <2>1a, <2>2, <2>4 DEF Sharers, Live
    <3>2. refcount'[h] = refcount[h]
      BY <1>1, <2>1a, <2>4
    <3> QED
      BY <1>1, <2>1a, <3>1, <3>2 DEF Covered
  <2> QED
    BY <2>3, <2>4
<1>3. CASE ZeusOutOfMemory \/ ZeusCreateFails
  <2>1. /\ UNCHANGED <<info, hades>> /\ failures' = failures + 1
        /\ \/ UNCHANGED refcount
           \/ \E heap : refcount' = [refcount EXCEPT ![heap] = @ + 1]
    BY <1>3 DEF ZeusOutOfMemory, ZeusCreateFails, ZeusGivesUp, TakeRef
  <2>2. Sharers(h)' = Sharers(h)
    BY <2>1 DEF Sharers, Live
  <2>3. refcount'[h] \in {refcount[h], refcount[h] + 1}
    BY <1>1, <2>1
  <2> QED
    BY <1>1, <2>1, <2>2, <2>3 DEF Covered
<1>4. CASE HadesRemove
  <2>1. /\ hades.pc = "remove" /\ UNCHANGED <<info, failures>>
        /\ refcount' = [refcount EXCEPT ![info[hades.task].heap] = @ - 1]
        /\ hades'.pc = "dying" /\ hades'.task = hades.task
    BY <1>4, HadesMoves DEF HadesRemove
  <2>2. hades.task \in UserTask /\ Live(hades.task)
    BY <2>1 DEF LifecycleInv, HadesInv
  <2>3. Sharers(h)' = Sharers(h) \ {hades.task}
    BY <2>1 DEF Sharers, Live
  <2>4. CASE h = info[hades.task].heap
    <3>1. hades.task \in Sharers(h)
      BY <2>1, <2>2, <2>4 DEF Sharers
    <3>2. Cardinality(Sharers(h)') = Cardinality(Sharers(h)) - 1
      BY <1>1, <2>3, <3>1, FS_RemoveElement, ZenonT(30)
    <3>3. refcount'[h] = refcount[h] - 1
      BY <1>1, <2>1, <2>4
    <3> QED
      BY <1>1, <2>1, <3>2, <3>3 DEF Covered
  <2>5. CASE h # info[hades.task].heap
    <3>1. Sharers(h)' = Sharers(h)
      BY <2>3, <2>5 DEF Sharers
    <3>2. refcount'[h] = refcount[h]
      BY <1>1, <2>1, <2>5
    <3> QED
      BY <1>1, <2>1, <3>1, <3>2 DEF Covered
  <2> QED
    BY <2>4, <2>5
<1>5. CASE HadesDestroy
  <2>1. /\ hades.pc = "dying" /\ UNCHANGED <<refcount, failures>>
        /\ info' = [info EXCEPT ![hades.task].state = "freed"]
        /\ hades'.pc = "signal"
    BY <1>5, HadesMoves DEF HadesDestroy
  <2>2. info \in [Task -> TaskInfo]
    BY DEF LifecycleInv, LifecycleTypeOK
  <2>3. \A t \in Task : /\ t # hades.task => info'[t] = info[t]
                        /\ t = hades.task => info'[t].state = "freed"
    BY <2>1, <2>2
  <2>4. Sharers(h)' = Sharers(h)
    BY <2>1, <2>3 DEF Sharers, Live
  <2> QED
    BY <1>1, <2>1, <2>4 DEF Covered
<1>6. CASE /\ UNCHANGED <<info, refcount, freed_heaps, failures>>
           /\ \A t : (hades'.pc = "dying" /\ hades'.task = t) <=> (hades.pc = "dying" /\ hades.task = t)
  <2>1. Sharers(h)' = Sharers(h)
    BY <1>6 DEF Sharers, Live
  <2> QED
    BY <1>1, <1>6, <2>1 DEF Covered
<1> QED
  BY <1>2, <1>3, <1>4, <1>5, <1>6, BookMoves
-----------------------------------------------------------------------------
(* What is freed stays freed, and Hades frees the task he has.             *)
LEMMA FreedStays ==
    ASSUME LifecycleInv, [Next]_vars
    PROVE  /\ \A t \in Task : info[t].state = "freed" => info'[t].state = "freed"
           /\ HadesDestroy => hades.task \in UserTask /\ info'[hades.task].state = "freed"
<1> USE SetFacts
<1>1. CASE ZeusBuild
  <2>1. PICK new \in UserTask : Builds(new)
    BY <1>1, Built
  <2>3. \A t \in Task : info[t].state = "freed" => info'[t].state = "freed"
    BY <2>1 DEF Builds
  <2>4. UNCHANGED hades
    BY <2>1 DEF Builds
  <2> QED
    BY <2>3, <2>4, HadesMoves, BookTypes DEF HadesType, HadesDestroy
<1>2. CASE HadesDestroy
  <2>1. hades.task \in UserTask /\ info' = [info EXCEPT ![hades.task].state = "freed"]
    BY <1>2 DEF HadesDestroy, LifecycleInv, HadesInv
  <2>2. info \in [Task -> TaskInfo]
    BY DEF LifecycleInv, LifecycleTypeOK
  <2> QED
    BY <2>1, <2>2
<1>3. CASE UNCHANGED info /\ ~HadesDestroy
  BY <1>3
<1>4. ASSUME HadesRemove \/ ZeusOutOfMemory \/ ZeusCreateFails
      PROVE  UNCHANGED info
  BY <1>4 DEF HadesRemove, ZeusOutOfMemory, ZeusCreateFails
<1> QED
  BY <1>1, <1>2, <1>3, <1>4, BookMoves
-----------------------------------------------------------------------------
(* The published tasks are those the process table shows.                  *)
LEMMA PublishedAreShown ==
    ASSUME LifecycleInv
    PROVE  Published = {t \in UserTask : Shown(t)}
<1> USE SetFacts
<1>1. \A t \in UserTask, p \in Pid : process_table[p] = t <=> Shown(t) /\ info[t].pid = p
  BY DEF LifecycleInv, TableInv, TableIsExact
<1>2. \A t \in UserTask : Shown(t) => info[t].pid \in Pid
  BY DEF LifecycleInv, TasksInv, Shown, Live
<1>3. ASSUME NEW t \in UserTask
      PROVE  (\E p \in Pid : process_table[p] = t) <=> Shown(t)
  BY <1>1, <1>2
<1> QED
  BY <1>3 DEF Published

(* What moves the process table and the count.                             *)
LEMMA CountMoves ==
    ASSUME LifecycleInv, [Next]_vars
    PROVE  \/ ZeusPublish \/ ZeusCount \/ HadesRemove \/ HadesRelease
           \/ /\ UNCHANGED <<process_table, num_tasks>>
              /\ zeus'.pc = "count" <=> zeus.pc = "count"
              /\ zeus.pc = "count" => zeus'.loaded = zeus.loaded
<1>1. zeus \in ZeusType
  BY BookTypes
<1>2. CASE ZeusReceive
  BY <1>1, <1>2 DEF ZeusReceive, ZeusType
<1>3. CASE ZeusOutOfMemory \/ ZeusCreateFails
  BY <1>1, <1>3 DEF ZeusOutOfMemory, ZeusCreateFails, ZeusGivesUp, ZeusType
<1>4. CASE ZeusBuild
  <2>1. PICK new \in UserTask : Builds(new)
    BY <1>4, Built
  <2> QED
    BY <2>1 DEF Builds
<1>5. CASE ZeusAnswer
  BY <1>1, <1>5 DEF ZeusAnswer, ZeusType
<1>6. CASE ZeusWake
  BY <1>1, <1>6 DEF ZeusWake, ZeusType
<1>7. CASE ZeusReadsFreedInfo \/ HadesCountsFreedHeap
  BY <1>7 DEF ZeusReadsFreedInfo, HadesCountsFreedHeap
<1>8. CASE HadesReceive \/ HadesDestroy \/ HadesSignal \/ HadesKillChild \/ HadesWake
  BY <1>8 DEF HadesReceive, HadesDestroy, HadesSignal, HadesKillChild, HadesWake
<1>9. CASE UNCHANGED vars \/ \E t \in Task : UserAct(t)
  BY <1>9, UsersKeepBooks DEF vars, sysVars
<1> QED
  BY <1>2, <1>3, <1>4, <1>5, <1>6, <1>7, <1>8, <1>9, StepsAre

(* The sets of tasks that num_tasks is compared with are finite.           *)
LEMMA TasksAreFinite ==
    ASSUME NEW S, NEW x, S \subseteq UserTask \cup {x}
    PROVE  IsFiniteSet(S) /\ Cardinality(S) \in Nat
<1>1. IsFiniteSet(UserTask)
  BY LifecycleAssumption, FS_Interval DEF UserTask
<1>2. IsFiniteSet(UserTask \cup {x})
  BY <1>1, FS_AddElement
<1> QED
  BY <1>2, FS_Subset, FS_CardinalityType

LEMMA AtMostOneMore ==
    ASSUME NEW S, NEW T, NEW x, IsFiniteSet(S), T \subseteq S \cup {x}
    PROVE  Cardinality(T) <= Cardinality(S) + 1
<1>1. Cardinality(S) \in Nat
  BY FS_CardinalityType
<1>2. IsFiniteSet(S \cup {x}) /\ Cardinality(S \cup {x}) \in {Cardinality(S), Cardinality(S) + 1}
  BY FS_AddElement
<1>3. Cardinality(T) \in Nat /\ Cardinality(T) <= Cardinality(S \cup {x})
  BY <1>2, FS_Subset, FS_CardinalityType
<1> QED
  BY <1>1, <1>2, <1>3

LEMMA NumTasksKept ==
    ASSUME LifecycleInv, LifecycleInv', [Next]_vars, CountInv
    PROVE  CountInv'
<1> USE SetFacts
<1>1. /\ num_tasks \in Int /\ zeus.loaded \in Int
      /\ IsFiniteSet(Counted) /\ Cardinality(Counted) \in Nat
      /\ IsFiniteSet(Counted') /\ Cardinality(Counted') \in Nat
  <2>1. Counted \subseteq UserTask \cup {hades.task} /\ Counted' \subseteq UserTask \cup {hades'.task}
    BY DEF Counted, Published
  <2> QED
    BY <2>1, TasksAreFinite, BookTypes DEF ZeusType
<1>2. hades'.pc \in {"signal", "kill"} => hades'.task \in UserTask /\ info'[hades'.task].state = "freed"
  <2>1. CASE HadesDestroy
    BY <2>1, FreedStays, HadesMoves
  <2>2. CASE hades.pc \in {"signal", "kill"} /\ hades'.task = hades.task
    BY <2>2, FreedStays DEF CountInv
  <2>3. UNCHANGED hades => hades'.pc = hades.pc /\ hades'.task = hades.task
    OBVIOUS
  <2> QED
    BY <2>1, <2>2, <2>3, HadesMoves
<1> DEFINE due == IF zeus.pc = "count" THEN 1 ELSE 0
<1>3. due \in Int /\ num_tasks + due >= Cardinality(Counted) /\ (zeus.pc = "count" => zeus.loaded >= num_tasks)
  BY DEF CountInv, NumTasksNeverBelow
<1>4. ASSUME num_tasks' \in Int, num_tasks' + due' >= Cardinality(Counted'),
             zeus'.pc = "count" => zeus'.loaded >= num_tasks'
      PROVE  CountInv'
  BY <1>2, <1>4 DEF CountInv, NumTasksNeverBelow
<1>5. Published = {t \in UserTask : Shown(t)}
  BY PublishedAreShown
<1>6. CASE ZeusPublish
  <2>1. /\ zeus.pc = "publish" /\ zeus'.pc = "count" /\ zeus'.loaded = num_tasks
        /\ UNCHANGED <<num_tasks, hades>>
        /\ process_table' = [process_table EXCEPT ![zeus.pid] = zeus.child]
    BY <1>6, BookTypes DEF ZeusPublish, ZeusType, Enlist
  <2>2. Published' \subseteq Published \cup {zeus.child}
    <3>1. process_table \in [Pid -> Task \cup {Nobody}]
      BY DEF LifecycleInv, LifecycleTypeOK
    <3>2. \A p \in Pid : process_table'[p] \in {process_table[p], zeus.child}
      BY <2>1, <3>1
    <3> QED
      BY <3>2 DEF Published
  <2>3. Counted' \subseteq Counted \cup {zeus.child}
    BY <2>1, <2>2 DEF Counted
  <2>4. Cardinality(Counted') <= Cardinality(Counted) + 1
    BY <1>1, <2>3, AtMostOneMore
  <2>5. due = 0 /\ due' = 1
    BY <2>1
  <2> HIDE DEF due
  <2>6. num_tasks' + due' >= Cardinality(Counted')
    BY <1>1, <1>3, <2>1, <2>4, <2>5
  <2> QED
    BY <1>1, <1>4, <2>1, <2>6
<1>7. CASE ZeusCount
  <2>1. /\ zeus.pc = "count" /\ zeus'.pc = "answer" /\ num_tasks' = zeus.loaded + 1
        /\ UNCHANGED <<process_table, hades>>
    BY <1>7, BookTypes DEF ZeusCount, ZeusType
  <2>2. Counted' = Counted
    BY <2>1 DEF Counted, Published
  <2>3. due = 1 /\ due' = 0
    BY <2>1
  <2> HIDE DEF due
  <2>4. num_tasks' \in Int /\ num_tasks' + due' >= Cardinality(Counted')
    BY <1>1, <1>3, <2>1, <2>2, <2>3
  <2> QED
    BY <1>4, <2>1, <2>4
<1>8. ASSUME Counted' \subseteq Counted, UNCHANGED num_tasks, zeus'.pc = "count" <=> zeus.pc = "count",
             zeus.pc = "count" => zeus'.loaded = zeus.loaded
      PROVE  CountInv'
  <2>1. Cardinality(Counted') <= Cardinality(Counted)
    BY <1>1, <1>8, FS_Subset
  <2>2. due' = due
    BY <1>8
  <2> HIDE DEF due
  <2>3. num_tasks' \in Int /\ num_tasks' + due' >= Cardinality(Counted')
    BY <1>1, <1>3, <1>8, <2>1, <2>2
  <2> QED
    BY <1>3, <1>4, <1>8, <2>3
<1>9. CASE HadesRemove
  <2>1. /\ hades.pc = "remove" /\ hades'.pc = "dying" /\ hades'.task = hades.task
        /\ UNCHANGED <<num_tasks, zeus>>
        /\ process_table' = [process_table EXCEPT ![info[hades.task].pid] = Nobody]
    BY <1>9, HadesMoves DEF HadesRemove, Unlist
  <2>2. Published' \subseteq Published
    <3>1. process_table \in [Pid -> Task \cup {Nobody}]
      BY DEF LifecycleInv, LifecycleTypeOK
    <3>2. \A p \in Pid : process_table'[p] \in {process_table[p], Nobody}
      BY <2>1, <3>1
    <3> QED
      BY <3>2 DEF Published
  <2>3. Counted' \subseteq Counted
    BY <2>1, <2>2 DEF Counted
  <2> QED
    BY <1>8, <2>1, <2>3
<1>10. CASE HadesRelease
  <2>1. /\ hades.pc = "kill" /\ hades'.pc = "delay" /\ num_tasks' = num_tasks - 1
        /\ UNCHANGED <<process_table, zeus, info>>
    BY <1>10, HadesMoves DEF HadesRelease
  <2>2. hades.task \in UserTask /\ info[hades.task].state = "freed"
    BY <2>1 DEF CountInv
  <2>3. hades.task \notin Published
    BY <1>5, <2>2 DEF Shown, Live
  <2>4. hades.task \in Counted /\ Counted' = Counted \ {hades.task}
    BY <2>1, <2>3 DEF Counted, Published
  <2>5. Cardinality(Counted') = Cardinality(Counted) - 1
    BY <1>1, <2>4, FS_RemoveElement
  <2>6. due' = due
    BY <2>1
  <2> HIDE DEF due
  <2>7. num_tasks' \in Int /\ num_tasks' + due' >= Cardinality(Counted')
    BY <1>1, <1>3, <2>1, <2>5, <2>6
  <2>8. zeus'.pc = "count" => zeus'.loaded >= num_tasks'
    BY <1>1, <1>3, <2>1
  <2> QED
    BY <1>4, <2>7, <2>8
<1>11. CASE /\ UNCHANGED <<process_table, num_tasks>>
            /\ zeus'.pc = "count" <=> zeus.pc = "count"
            /\ zeus.pc = "count" => zeus'.loaded = zeus.loaded
            /\ ~HadesRemove /\ ~HadesRelease
  <2>1. Published' = Published
    BY <1>11 DEF Published
  <2>2. CASE HadesReceive
    <3>1. hades'.pc = "remove" => hades'.task \in Published
      <4>1. CASE UNCHANGED hades
        BY <2>2, <4>1, HadesMoves DEF HadesReceive
      <4>2. CASE ~UNCHANGED hades
        <5>1. hades' = [hades EXCEPT !.pc = "remove", !.pid = Head(hades_queue),
                                     !.task = process_table[Head(hades_queue)]]
          BY <2>2, <4>2 DEF HadesReceive
        <5>2. hades'.task = process_table[Head(hades_queue)] /\ hades'.pc = "remove"
          BY <5>1, BookTypes DEF HadesType
        <5>3. Head(hades_queue) \in Pid
          BY <2>2 DEF HadesReceive, LifecycleInv, LifecycleTypeOK
        <5>4. hades'.task \in UserTask
          BY <5>2 DEF LifecycleInv, HadesInv
        <5> QED
          BY <5>2, <5>3, <5>4 DEF Published
      <4> QED
        BY <4>1, <4>2
    <3>2. hades'.pc \in {"wait", "remove"}
      BY <2>2, HadesMoves DEF HadesReceive
    <3>3. Counted' \subseteq Counted
      BY <2>1, <3>1, <3>2 DEF Counted
    <3> QED
      BY <1>8, <1>11, <3>3
  <2>3. CASE ~HadesReceive
    <3>1. \/ hades.pc \in {"dying", "signal", "kill"} /\ hades'.task = hades.task
          \/ hades'.pc = "wait" \/ UNCHANGED hades
      BY <1>11, <2>3, HadesMoves
    <3>2. Counted' \subseteq Counted
      BY <2>1, <3>1 DEF Counted
    <3> QED
      BY <1>8, <1>11, <3>2
  <2> QED
    BY <1>11, <2>2, <2>3, HadesMoves
<1> QED
  BY <1>6, <1>7, <1>9, <1>10, <1>11, CountMoves
-----------------------------------------------------------------------------
(* The reports                                                             *)

LEMMA ChildrenMoves ==
    ASSUME LifecycleInv, [Next]_vars
    PROVE  \/ HadesDestroy \/ HadesSignal
           \/ /\ UNCHANGED hades
              /\ \E t \in Task : children[t] # <<>> /\ children' = [children EXCEPT ![t] = Tail(@)]
           \/ /\ UNCHANGED children
              /\ hades'.pc = "signal" => hades.pc = "signal" /\ hades'.task = hades.task
<1>1. CASE \/ ZeusReceive \/ ZeusOutOfMemory \/ ZeusCreateFails \/ ZeusReadsFreedInfo
           \/ ZeusBuild \/ ZeusPublish \/ ZeusCount \/ ZeusAnswer \/ ZeusWake
           \/ HadesCountsFreedHeap
  BY <1>1 DEF ZeusReceive, ZeusOutOfMemory, ZeusCreateFails, ZeusReadsFreedInfo, HadesCountsFreedHeap,
              ZeusBuild, ZeusPublish, ZeusCount, ZeusAnswer, ZeusWake
<1>2. CASE HadesReceive \/ HadesRemove \/ HadesKillChild \/ HadesRelease \/ HadesWake
  <2>1. UNCHANGED children
    BY <1>2 DEF HadesReceive, HadesRemove, HadesKillChild, HadesRelease, HadesWake
  <2>2. UNCHANGED hades => hades'.pc = hades.pc /\ hades'.task = hades.task
    OBVIOUS
  <2> QED
    BY <2>1, <2>2, HadesMoves
<1>3. CASE UNCHANGED vars
  BY <1>3 DEF vars, sysVars
<1>4. CASE \E t \in Task : UserAct(t)
  BY <1>4, UsersKeepBooks
<1> QED
  BY <1>1, <1>2, <1>3, <1>4, StepsAre

(* A queue of dead children.                                               *)
Reports(s) == /\ Len(s) <= ChildrenLen
              /\ Distinct(s)
              /\ \A t \in Members(s) : info[t].state = "freed"

LEMMA ReportsInQueues == ReportsAreOfTheDead <=> \A c \in Task : Reports(children[c])
BY DEF ReportsAreOfTheDead, Reports, Distinct, Members

LEMMA ReportsInQueuesNext == ReportsAreOfTheDead' <=> \A c \in Task : Reports(children[c])'
BY DEF ReportsAreOfTheDead, Reports, Distinct, Members

LEMMA ReportsTrue ==
    ASSUME LifecycleInv, [Next]_vars, ReportInv
    PROVE  ReportInv'
<1> USE SetFacts
<1> DEFINE waiting(c) == hades.pc = "signal" => hades.task \notin Members(children[c])
<1> SUFFICES ASSUME NEW c \in Task
             PROVE  Reports(children[c])' /\ waiting(c)'
  BY ReportsInQueuesNext DEF ReportInv
<1>1. /\ children \in [Task -> Seq(UserTask)] /\ children[c] \in Seq(UserTask)
      /\ Len(children[c]) \in Nat
      /\ Reports(children[c]) /\ waiting(c)
  BY BookTypes, ReportsInQueues DEF ReportInv
<1>2. \A t \in UserTask : info[t].state = "freed" => info'[t].state = "freed"
  BY FreedStays
<1>3. Members(children[c]) \subseteq UserTask
  BY <1>1 DEF Members
<1> HIDE DEF waiting
<1>4. CASE HadesDestroy
  <2>1. /\ hades.pc = "dying" /\ hades'.task = hades.task
        /\ hades.task \in UserTask /\ info[hades.task].state = "live"
        /\ children' = [children EXCEPT ![hades.task] = <<>>]
    BY <1>4, HadesMoves DEF HadesDestroy, LifecycleInv, HadesInv, Live
  <2>2. CASE c = hades.task
    <3>1. children'[c] = <<>> /\ Members(<<>>) = {} /\ Len(<<>>) = 0 /\ Distinct(<<>>)
      BY <1>1, <2>1, <2>2 DEF Members, Distinct
    <3> QED
      BY <3>1, LifecycleAssumption DEF Reports, waiting
  <2>3. CASE c # hades.task
    <3>1. children'[c] = children[c]
      BY <1>1, <2>1, <2>3
    <3>2. hades.task \notin Members(children[c])
      BY <1>1, <2>1 DEF Reports
    <3> QED
      BY <1>1, <1>2, <1>3, <2>1, <3>1, <3>2 DEF Reports, waiting
  <2> QED
    BY <2>2, <2>3
<1>5. CASE HadesSignal
  <2> DEFINE parent == process_table[info[hades.task].parent]
  <2>1. /\ hades.pc = "signal" /\ hades'.pc = "kill" /\ UNCHANGED info
        /\ hades.task \in UserTask /\ info[hades.task].state = "freed"
        /\ \/ UNCHANGED children
           \/ /\ Len(children[parent]) < ChildrenLen
              /\ children' = [children EXCEPT ![parent] = Append(@, hades.task)]
    <3>1. hades.pc = "signal" /\ hades'.pc = "kill" /\ UNCHANGED info
      BY <1>5, HadesMoves DEF HadesSignal
    <3>2. hades.task \in UserTask /\ info[hades.task].state = "freed"
      BY <3>1 DEF LifecycleInv, HadesInv
    <3>3. IF parent # Nobody THEN Tell(parent, hades.task) ELSE UNCHANGED children
      BY <1>5 DEF HadesSignal
    <3> HIDE DEF parent
    <3> QED
      BY <3>1, <3>2, <3>3 DEF Tell
  <2> HIDE DEF parent
  <2>2. CASE c = parent /\ ~UNCHANGED children
    <3>1. Len(children[c]) < ChildrenLen /\ children'[c] = Append(children[c], hades.task)
      BY <1>1, <2>1, <2>2
    <3>2. hades.task \notin Members(children[c])
      BY <1>1, <2>1 DEF waiting
    <3>3. /\ Distinct(children'[c]) /\ Members(children'[c]) = Members(children[c]) \cup {hades.task}
      BY <1>1, <2>1, <3>1, <3>2, AppendIsDistinct DEF Reports
    <3>4. Len(children'[c]) <= ChildrenLen
      BY <1>1, <3>1, LifecycleAssumption
    <3> QED
      BY <1>1, <2>1, <3>3, <3>4 DEF Reports, waiting
  <2>3. CASE c # parent \/ UNCHANGED children
    <3>1. children'[c] = children[c]
      BY <1>1, <2>1, <2>3
    <3> QED
      BY <1>1, <2>1, <3>1 DEF Reports, waiting
  <2> QED
    BY <2>2, <2>3
<1>6. ASSUME NEW t \in Task, children[t] # <<>>, children' = [children EXCEPT ![t] = Tail(@)],
             UNCHANGED hades
      PROVE  Reports(children[c])' /\ waiting(c)'
  <2>1. CASE c = t
    <3>1. children'[c] = Tail(children[c])
      BY <1>1, <1>6, <2>1
    <3>2. /\ Distinct(children'[c]) /\ Members(children'[c]) \subseteq Members(children[c])
      BY <1>1, <1>6, <2>1, <3>1, TailIsDistinct DEF Reports
    <3>3. Len(children'[c]) <= ChildrenLen
      BY <1>1, <1>6, <2>1, <3>1, LifecycleAssumption DEF Reports
    <3> QED
      BY <1>1, <1>2, <1>3, <1>6, <3>2, <3>3 DEF Reports, waiting
  <2>2. CASE c # t
    <3>1. children'[c] = children[c]
      BY <1>1, <1>6, <2>2
    <3> QED
      BY <1>1, <1>2, <1>3, <1>6, <3>1 DEF Reports, waiting
  <2> QED
    BY <2>1, <2>2
<1>7. CASE UNCHANGED children /\ (hades'.pc = "signal" => hades.pc = "signal" /\ hades'.task = hades.task)
  BY <1>1, <1>2, <1>3, <1>7 DEF Reports, waiting
<1> QED
  BY <1>4, <1>5, <1>6, <1>7, ChildrenMoves
-----------------------------------------------------------------------------
(* The heaps                                                               *)

LEMMA RequestsKept ==
    ASSUME LifecycleInv, [Next]_vars, RequestInv
    PROVE  RequestInv'
<1>1. zeus \in ZeusType
  BY BookTypes
<1>2. CASE ZeusReceive
  <2>1. /\ zeus_queue # <<>> /\ zeus_queue' = <<>>
        /\ zeus'.caller = zeus_queue[1].caller /\ zeus'.type = zeus_queue[1].type
    BY <1>1, <1>2 DEF ZeusReceive, ZeusType
  <2> QED
    BY <2>1 DEF RequestInv
<1>3. CASE ZeusOutOfMemory \/ ZeusCreateFails
  <2>1. zeus'.pc = "answer" /\ UNCHANGED zeus_queue
    BY <1>1, <1>3 DEF ZeusOutOfMemory, ZeusCreateFails, ZeusGivesUp, ZeusType
  <2> QED
    BY <2>1 DEF RequestInv
<1>4. CASE ZeusBuild
  <2>1. PICK new \in UserTask : Builds(new)
    BY <1>4, Built
  <2> QED
    BY <2>1 DEF Builds, RequestInv
<1>5. CASE ZeusPublish \/ ZeusCount \/ ZeusAnswer \/ ZeusWake
  <2>1. zeus'.pc # "build" /\ UNCHANGED zeus_queue
    BY <1>1, <1>5 DEF ZeusPublish, ZeusCount, ZeusAnswer, ZeusWake, ZeusType
  <2> QED
    BY <2>1 DEF RequestInv
<1>6. CASE \/ HadesReceive \/ HadesRemove \/ HadesDestroy \/ HadesSignal
           \/ HadesKillChild \/ HadesRelease \/ HadesWake \/ HadesCountsFreedHeap
           \/ ZeusReadsFreedInfo
  <2>1. UNCHANGED <<zeus, zeus_queue>>
    BY <1>6 DEF HadesReceive, HadesRemove, HadesDestroy, HadesSignal, HadesKillChild,
                HadesRelease, HadesWake, HadesCountsFreedHeap, ZeusReadsFreedInfo
  <2> QED
    BY <2>1 DEF RequestInv
<1>7. CASE \E t \in Task : UserAct(t)
  <2>1. PICK t \in Task : UserAct(t)
    BY <1>7
  <2>2. /\ UNCHANGED zeus
        /\ \/ UNCHANGED zeus_queue
           \/ \E type \in {"process", "thread"} :
                /\ zeus_queue' = <<[caller |-> t, type |-> type]>>
                /\ t = InitTask => type = "process"
    BY <2>1, UsersKeepBooks
  <2> QED
    BY <2>2 DEF RequestInv
<1>8. CASE UNCHANGED vars
  BY <1>8 DEF vars, sysVars, RequestInv
<1> QED
  BY <1>2, <1>3, <1>4, <1>5, <1>6, <1>7, <1>8, StepsAre

LEMMA HeapsKept ==
    ASSUME LifecycleInv, [Next]_vars, RefcountCoversUsers, RequestInv, HeapInv
    PROVE  HeapInv'
<1> USE SetFacts
<1>1. /\ \A t \in UserTask : Born(t) => info[t].heap \in UserTask /\ Born(info[t].heap)
      /\ \A h \in freed_heaps : h \in UserTask /\ Born(h)
  BY DEF HeapInv
<1>2. /\ \A t \in UserTask : Live(t) /\ info[t].heap \in freed_heaps => info[t].late
      /\ hades.pc = "dying" /\ hades.last =>
           \A t \in Sharers(info[hades.task].heap) : info[t].late
  BY DEF HeapInv
<1>3. \A t \in Task : Live(t) => Born(t)
  BY DEF Live, Born
<1>4. CASE ZeusBuild
  <2>1. PICK new \in UserTask : Builds(new)
    BY <1>4, Built
  <2>1a. PICK heap : heap = info'[new].heap
    OBVIOUS
  <2>2. heap = (IF zeus.type = "thread" THEN info[zeus.caller].heap ELSE new)
    BY <2>1, <2>1a DEF Builds
  <2>3. /\ ~Born(new) /\ Born(new)' /\ UNCHANGED <<freed_heaps, hades>>
        /\ \A t \in Task \ {new} : info'[t] = info[t]
        /\ zeus.type = "thread" => zeus.caller \in UserTask /\ Live(zeus.caller)
        /\ heap \in freed_heaps => heap = new
        /\ hades.pc = "dying" /\ hades.last /\ info[hades.task].heap = heap => info'[new].late
    <3>1. /\ info[new].state = "none" /\ info'[new].state = "live" /\ UNCHANGED <<freed_heaps, hades>>
          /\ \A t \in Task \ {new} : info'[t] = info[t]
          /\ HadesBlocked /\ zeus.pc = "build" /\ info[zeus.caller].state = "live"
      BY <2>1 DEF Builds
    <3>2. /\ heap \in freed_heaps => heap = new
          /\ hades.pc = "dying" /\ hades.last /\ info[hades.task].heap = heap => info'[new].late
      BY <2>1, <2>1a, <2>2 DEF Builds, Dying
    <3>3. zeus.caller \in Task
      BY <3>1 DEF LifecycleInv, ZeusInv
    <3>4. zeus.type = "thread" => zeus.caller # InitTask
      BY <3>1 DEF RequestInv
    <3> QED
      BY <3>1, <3>2, <3>3, <3>4 DEF Born, Live
  <2>4. heap \in UserTask /\ Born(heap)' /\ (heap = new \/ Born(heap))
    BY <1>1, <1>3, <2>2, <2>3 DEF Born
  <2>5. \A t \in UserTask : t # new =>
           /\ (Born(t)' <=> Born(t)) /\ (Live(t)' <=> Live(t)) /\ info'[t].heap = info[t].heap
    BY <2>3 DEF Born, Live
  <2>6. \A t \in UserTask : Born(t)' => info'[t].heap \in UserTask /\ Born(info[t].heap)'
    BY <1>1, <2>1a, <2>3, <2>4, <2>5 DEF Born
  <2>7. \A h \in freed_heaps' : h \in UserTask /\ Born(h)'
    BY <1>1, <2>3, <2>5
  <2>8. \A t \in UserTask : Live(t)' /\ info'[t].heap \in freed_heaps' => info'[t].late
    <3>1. heap \notin freed_heaps
      BY <1>1, <2>3
    <3> QED
      BY <1>2, <2>1a, <2>3, <2>5, <3>1
  <2>9. hades'.pc = "dying" /\ hades'.last =>
          \A t \in UserTask : Live(t)' /\ info'[t].heap = info[hades.task].heap /\ t # hades.task
                              => info'[t].late
    <3> SUFFICES ASSUME hades.pc = "dying", hades.last, NEW t \in UserTask, Live(t)',
                        info'[t].heap = info[hades.task].heap, t # hades.task
                 PROVE  info'[t].late
      BY <2>3
    <3>1. CASE t = new
      BY <2>1a, <2>3, <3>1
    <3>2. CASE t # new
      BY <1>2, <2>3, <2>5, <3>2 DEF Sharers
    <3> QED
      BY <3>1, <3>2
  <2>10. hades.pc = "dying" => info'[hades.task].heap = info[hades.task].heap
    <3>1. hades.pc = "dying" => hades.task \in UserTask /\ Live(hades.task)
      BY DEF LifecycleInv, HadesInv
    <3> QED
      BY <1>3, <2>3, <2>5, <3>1
  <2> QED
    BY <2>3, <2>6, <2>7, <2>8, <2>9, <2>10 DEF HeapInv, Sharers
<1>5. CASE HadesRemove
  <2>1. /\ hades.pc = "remove" /\ UNCHANGED <<info, freed_heaps>>
        /\ hades'.pc = "dying" /\ hades'.task = hades.task
        /\ hades'.last = (refcount[info[hades.task].heap] = 1)
    BY <1>5, HadesMoves DEF HadesRemove
  <2>2. hades.task \in UserTask /\ Live(hades.task)
    BY <2>1 DEF LifecycleInv, HadesInv
  <2>3. PICK heap \in UserTask : heap = info[hades.task].heap
    BY <1>1, <1>3, <2>2
  <2>4. hades'.last => Sharers(heap)' = {}
    <3>1. hades.task \in Sharers(heap)
      BY <2>1, <2>2, <2>3 DEF Sharers
    <3>2. Sharers(heap)' = Sharers(heap) \ {hades.task}
      BY <2>1 DEF Sharers, Live
    <3>3. IsFiniteSet(Sharers(heap)) /\ Cardinality(Sharers(heap)) \in Nat
      BY SharersAreFinite
    <3>4. Cardinality(Sharers(heap)) <= refcount[heap]
      BY <2>3 DEF RefcountCoversUsers, Sharers
    <3>5. /\ IsFiniteSet(Sharers(heap)') /\ Cardinality(Sharers(heap)') = Cardinality(Sharers(heap)) - 1
          /\ Cardinality(Sharers(heap)') \in Nat
      <4> DEFINE S == Sharers(heap)
      <4> HIDE DEF S
      <4>1. IsFiniteSet(S) /\ hades.task \in S
        BY <3>1, <3>3 DEF S
      <4>2. IsFiniteSet(S \ {hades.task}) /\ Cardinality(S \ {hades.task}) = Cardinality(S) - 1
        BY <4>1, FS_RemoveElement
      <4>3. Cardinality(S \ {hades.task}) \in Nat
        BY <4>2, FS_CardinalityType
      <4> QED
        BY <3>2, <4>2, <4>3 DEF S
    <3>6. refcount[heap] = 1 => Cardinality(Sharers(heap)') = 0
      BY <3>3, <3>4, <3>5
    <3> QED
      BY <2>1, <2>3, <3>5, <3>6, FS_EmptySet
  <2>5. \A t : (Born(t)' <=> Born(t)) /\ (Live(t)' <=> Live(t)) /\ info'[t] = info[t]
    BY <2>1 DEF Born, Live
  <2>6. Sharers(info[hades.task].heap)' = Sharers(heap)'
    BY <2>1, <2>3 DEF Sharers
  <2> QED
    BY <1>1, <1>2, <2>1, <2>4, <2>5, <2>6 DEF HeapInv
<1>6. CASE HadesDestroy
  <2>0. PICK heap, dead : dead = hades.task /\ heap = info[dead].heap
    OBVIOUS
  <2>1. /\ hades.pc = "dying" /\ hades'.pc = "signal"
        /\ freed_heaps' = IF hades.last THEN freed_heaps \cup {heap} ELSE freed_heaps
        /\ info' = [info EXCEPT ![hades.task].state = "freed"]
    BY <1>6, <2>0, HadesMoves DEF HadesDestroy
  <2>2. dead \in UserTask /\ Live(dead)
    BY <2>0, <2>1 DEF LifecycleInv, HadesInv
  <2>3. heap \in UserTask /\ Born(heap)
    BY <1>1, <1>3, <2>0, <2>2
  <2>4. /\ \A t \in Task : /\ info'[t].heap = info[t].heap /\ info'[t].late = info[t].late
                           /\ Born(t)' <=> Born(t)
        /\ \A t \in Task \ {dead} : Live(t)' => Live(t)
        /\ ~Live(dead)'
    <3>1. info \in [Task -> TaskInfo]
      BY DEF LifecycleInv, LifecycleTypeOK
    <3>2. \A t \in Task : /\ info'[t].heap = info[t].heap /\ info'[t].late = info[t].late
                          /\ info'[t].state = IF t = dead THEN "freed" ELSE info[t].state
      BY <2>0, <2>1, <3>1 DEF TaskInfo
    <3>3. dead \in Task /\ dead \in UserTask /\ info[dead].state = "live"
      BY <2>2 DEF Live
    <3>4. \A t \in Task : Born(t)' <=> Born(t)
      BY <3>2, <3>3 DEF Born
    <3>5. /\ \A t \in Task \ {dead} : Live(t)' => Live(t)
          /\ ~Live(dead)'
      BY <3>2, <3>3 DEF Live
    <3> QED
      BY <3>2, <3>4, <3>5
  <2>5. ASSUME NEW t \in UserTask, Live(t)', info'[t].heap \in freed_heaps'
        PROVE  info'[t].late
    <3>1. t # dead /\ Live(t) /\ info'[t].heap = info[t].heap /\ info'[t].late = info[t].late
      BY <2>4, <2>5
    <3>2. hades.last /\ info[t].heap = heap => info[t].late
      BY <1>2, <2>0, <2>1, <2>5, <3>1 DEF Sharers
    <3> QED
      BY <1>2, <2>1, <2>5, <3>1, <3>2
  <2>6. \A h \in freed_heaps' : h \in UserTask /\ Born(h)'
    BY <1>1, <2>1, <2>3, <2>4
  <2>7. \A t \in UserTask : Born(t)' => info'[t].heap \in UserTask /\ Born(info[t].heap)'
    BY <1>1, <2>4 DEF Born
  <2> QED
    BY <2>1, <2>5, <2>6, <2>7 DEF HeapInv
<1>7. CASE UNCHANGED <<info, freed_heaps>> /\ ~HadesRemove /\ ~HadesDestroy
  <2>1. hades'.pc = "dying" => UNCHANGED hades
    BY <1>7, HadesMoves
  <2>2. hades'.pc = "dying" => Sharers(info[hades.task].heap)' = Sharers(info[hades.task].heap)
    BY <1>7, <2>1 DEF Sharers, Live
  <2>3. \A t : (Born(t)' <=> Born(t)) /\ (Live(t)' <=> Live(t)) /\ info'[t] = info[t]
    BY <1>7 DEF Born, Live
  <2> QED
    BY <1>1, <1>2, <1>7, <2>1, <2>2, <2>3 DEF HeapInv
<1>8. ASSUME ZeusOutOfMemory \/ ZeusCreateFails
      PROVE  UNCHANGED <<info, freed_heaps>>
  BY <1>8 DEF ZeusOutOfMemory, ZeusCreateFails
<1> QED
  BY <1>4, <1>5, <1>6, <1>7, <1>8, BookMoves
-----------------------------------------------------------------------------
BookInv == /\ RefcountCoversUsers /\ RequestInv /\ HeapInv /\ ReportInv /\ CountInv

LEMMA InitEstablishesBooks == LifecycleInit => BookInv
<1> SUFFICES ASSUME LifecycleInit PROVE BookInv
  OBVIOUS
<1> USE SetFacts
<1>1. /\ \A t \in UserTask : info[t].state = "none"
      /\ refcount = [t \in UserTask |-> 0] /\ freed_heaps = {} /\ failures = 0 /\ num_tasks = 0
      /\ process_table = [p \in Pid |-> IF p = 0 THEN InitTask ELSE Nobody]
      /\ children = [t \in Task |-> <<>>] /\ zeus_queue = <<>>
      /\ zeus.pc = "wait" /\ hades.pc = "wait"
  BY DEF LifecycleInit, NoInfo
<1>2. RefcountCoversUsers
  <2>1. \A h \in UserTask : Sharers(h) = {} /\ refcount[h] = 0
    BY <1>1 DEF Sharers, Live
  <2>2. Cardinality({}) = 0
    BY FS_EmptySet
  <2>3. ASSUME NEW h \in UserTask PROVE Covered(h)
    <3>1. Cardinality(Sharers(h)) = 0 /\ refcount[h] = 0 /\ failures = 0
      BY <1>1, <2>1, <2>2
    <3> QED
      BY <3>1 DEF Covered
  <2> QED
    BY <2>3 DEF RefcountCoversUsers, Covered, Sharers
<1>3. RequestInv
  BY <1>1 DEF RequestInv
<1>4. HeapInv
  BY <1>1 DEF HeapInv, Born, Live
<1>5. ReportInv
  <2>1. \A c \in Task : Reports(children[c])
    BY <1>1, LifecycleAssumption DEF Reports, Distinct, Members
  <2> QED
    BY <1>1, <2>1, ReportsInQueues DEF ReportInv
<1>6. CountInv
  <2>1. Counted = {}
    BY <1>1 DEF Counted, Published
  <2> QED
    BY <1>1, <2>1, FS_EmptySet DEF CountInv, NumTasksNeverBelow
<1> QED
  BY <1>2, <1>3, <1>4, <1>5, <1>6 DEF BookInv

(* What Zeus and Hades keep beside the PIDs stays in order: the counts of  *)
(* the heaps, the reports of dead children, and num_tasks (task.c).        *)
THEOREM BookInvariance == SafetySpec => []BookInv
<1>1. LifecycleInv /\ LifecycleInv' /\ BookInv /\ [Next]_vars => BookInv'
  BY CountsKept, RequestsKept, HeapsKept, ReportsTrue, NumTasksKept DEF BookInv
<1> QED
  BY <1>1, InitEstablishesBooks, LifecycleInvariance, PTL DEF SafetySpec

(* Among threads and processes created and destroyed in any order, the     *)
(* count of a task_thread_t is never below that of the tasks that share    *)
(* it, nor above it by more than the references failed creations keep      *)
(* (task.c: task_thread_ref, task_thread_destroy, the error label of zeus).*)
THEOREM CountsCoverUsers == SafetySpec => []RefcountCoversUsers
BY BookInvariance, PTL DEF BookInv

(* wait() is told of dead children only, and of none twice (task.c: hades, *)
(* xQueueSend to the parent's children queue; wait).                       *)
THEOREM ReportsTellTheTruth == SafetySpec => []ReportsAreOfTheDead
BY BookInvariance, PTL DEF BookInv, ReportInv

(* ++num_tasks in Zeus and --num_tasks in Hades are not atomic, yet since  *)
(* Hades only ever preempts Zeus, a lost update leaves too high a number,  *)
(* never one below the tasks there are (task.c: zeus, hades).              *)
THEOREM NumTasksIsEnough == SafetySpec => []NumTasksNeverBelow
BY BookInvariance, PTL DEF BookInv, CountInv

(* A heap lives as long as any task that may run in it, whatever dies or   *)
(* fails in whatever order, but for the threads that Zeus makes in it while*)
(* Hades, who has counted its last user, waits before he frees it          *)
(* (task.c: task_thread_ref, task_thread_destroy).                         *)
THEOREM HeapsOutliveUsers == SafetySpec => []HeapOutlivesUsers
<1>1. LifecycleInv /\ BookInv => HeapOutlivesUsers
  <2> SUFFICES ASSUME LifecycleInv, BookInv, NEW t \in UserTask, Holds(t),
                      info[t].heap \in freed_heaps
               PROVE  info[t].late
    BY DEF HeapOutlivesUsers
  <2>1. info[t].state \in {"none", "live", "freed"} /\ t \in Task
    BY BookTypes, SetFacts
  <2>2. Live(t)
    BY <2>1 DEF Holds, Live, LifecycleInv, TasksInv
  <2> QED
    BY <2>2 DEF BookInv, HeapInv
<1> QED
  BY <1>1, BookInvariance, LifecycleInvariance, PTL

(* FreeRTOS never takes a TCB back that it has freed.                      *)
LEMMA FreedForGood ==
    ASSUME LifecycleInv, [Next]_vars, NEW t \in UserTask, tcb[t] = "freed"
    PROVE  tcb'[t] = "freed"
<1> USE SetFacts
<1>1. tcb \in [Task -> TcbState]
  BY BookTypes
<1>2. CASE ZeusBuild
  <2>1. PICK new \in UserTask : Builds(new)
    BY <1>2, Built
  <2> QED
    BY <2>1 DEF Builds
<1>3. CASE ZeusAnswer
  <2>1. \/ tcb[zeus.caller] = "asking" /\ tcb' = [tcb EXCEPT ![zeus.caller] = "ready"]
        \/ UNCHANGED tcb
    BY <1>3 DEF ZeusAnswer, Notify
  <2> QED
    BY <1>1, <2>1
<1>4. CASE HadesKillChild
  <2>1. \/ \E i \in Victims : /\ tcb[process_table[i]] \in {"ready", "asking", "ending"}
                              /\ tcb' = [tcb EXCEPT ![process_table[i]] = "slain"]
        \/ UNCHANGED tcb
    BY <1>4 DEF HadesKillChild, Unlink
  <2> QED
    BY <1>1, <2>1
<1>5. CASE \E u \in Task : UserAct(u)
  <2>1. PICK u \in Task : UserAct(u)
    BY <1>5
  <2>2. CASE \/ \E type \in {"process", "thread"} : Request(u, type)
             \/ Exit(u) \/ Kill(u) \/ IdleReap(u)
    <3>1. /\ tcb[u] \in {"ready", "asking", "ending"}
          /\ \E x \in TcbState : tcb' = [tcb EXCEPT ![u] = x]
      BY <2>2 DEF Request, Exit, Kill, IdleReap, MayRun, Unlink, TcbState, Unlisted
    <3> QED
      BY <1>1, <3>1
  <2>3. CASE Report(u)
    BY <1>1, <2>3 DEF Report, DeleteTCB
  <2>4. CASE \/ Wait(u) \/ RunUnpublished(u) \/ RunInFreedHeap(u) \/ InitScan \/ InitScanDone
    BY <2>4 DEF Wait, RunUnpublished, RunInFreedHeap, InitScan, InitScanDone
  <2> QED
    BY <2>1, <2>2, <2>3, <2>4 DEF UserAct
<1>6. CASE \/ ZeusReceive \/ ZeusOutOfMemory \/ ZeusCreateFails \/ ZeusReadsFreedInfo
           \/ ZeusPublish \/ ZeusCount \/ ZeusWake
  BY <1>6 DEF ZeusReceive, ZeusOutOfMemory, ZeusCreateFails, ZeusReadsFreedInfo, ZeusPublish,
              ZeusCount, ZeusWake
<1>7. CASE \/ HadesReceive \/ HadesRemove \/ HadesDestroy \/ HadesSignal \/ HadesRelease
           \/ HadesWake \/ HadesCountsFreedHeap
  BY <1>7 DEF HadesReceive, HadesRemove, HadesDestroy, HadesSignal, HadesRelease, HadesWake,
              HadesCountsFreedHeap
<1>8. CASE UNCHANGED vars
  BY <1>8 DEF vars, sysVars
<1> QED
  BY <1>2, <1>3, <1>4, <1>5, <1>6, <1>7, <1>8, StepsAre

(* Who made a task, and how late, does not change.                         *)
LEMMA OriginsStay ==
    ASSUME LifecycleInv, [Next]_vars, NEW t \in UserTask
    PROVE  \/ Builds(t) /\ ZeusBuild
           \/ info'[t].late = info[t].late /\ info'[t].maker = info[t].maker
<1> USE SetFacts
<1>1. CASE ZeusBuild
  <2>1. PICK new \in UserTask : Builds(new)
    BY <1>1, Built
  <2>2. t # new => info'[t] = info[t]
    BY <2>1 DEF Builds
  <2> QED
    BY <1>1, <2>1, <2>2
<1>2. CASE HadesDestroy
  <2>1. info' = [info EXCEPT ![hades.task].state = "freed"]
    BY <1>2 DEF HadesDestroy
  <2>2. info \in [Task -> TaskInfo]
    BY DEF LifecycleInv, LifecycleTypeOK
  <2> QED
    BY <2>1, <2>2 DEF TaskInfo
<1>3. ASSUME HadesRemove \/ ZeusOutOfMemory \/ ZeusCreateFails
      PROVE  UNCHANGED info
  BY <1>3 DEF HadesRemove, ZeusOutOfMemory, ZeusCreateFails
<1> QED
  BY <1>1, <1>2, <1>3, BookMoves
-----------------------------------------------------------------------------
(* PIDs and places in hades_queue run out only when tasks hold them        *)

(* Steps that leave the PIDs in use, the tasks and the hands alone.        *)
LEMMA HandsKept ==
    ASSUME NoPidLeaks, \A p \in Pid : p \in used' => p \in used, UNCHANGED info,
           zeus.pc = "build" => \A p \in used' : p = zeus.pid => InHand(p)',
           Busy => \A p \in used' : p = hades.pid => InHand(p)'
    PROVE  \A p \in Pid : p \in used' => InHand(p)'
<1>1. \A p : OwnedBy(p)' = OwnedBy(p)
  BY DEF OwnedBy, Live
<1>2. \A p \in Pid : p \in used => InHand(p)
  BY DEF NoPidLeaks
<1> QED
  BY <1>1, <1>2 DEF InHand

LEMMA NoPidLeaksInit == LifecycleInit => NoPidLeaks
<1> SUFFICES ASSUME LifecycleInit, NEW p \in Pid PROVE p \in used <=> InHand(p)
  BY DEF NoPidLeaks
<1>1. used = {Kernel} /\ zeus.pc = "wait" /\ hades.pc = "wait"
  BY DEF LifecycleInit, PidInit
<1>2. \A t \in UserTask : info[t].state = "none"
  BY SetFacts DEF LifecycleInit, NoInfo
<1>3. OwnedBy(p) = {}
  BY <1>2 DEF OwnedBy, Live
<1> QED
  BY <1>1, <1>3 DEF InHand, Busy

LEMMA NoPidLeaksNext ==
    ASSUME LifecycleInv, LifecycleInv', [Next]_vars, NoPidLeaks
    PROVE  NoPidLeaks'
<1> USE SetFacts
<1>1. \A p \in Pid : InHand(p)' => p \in used'
  <2>1. Kernel \in used' /\ \A t \in UserTask : Live(t)' => info'[t].pid \in used'
    BY DEF LifecycleInv, PidInv, TasksInv
  <2>2. /\ zeus'.pc = "build" => zeus'.pid \in used'
        /\ Busy' => hades'.pid \in used'
    BY DEF LifecycleInv, ZeusInv, HadesInv
  <2> QED
    BY <2>1, <2>2 DEF InHand, OwnedBy
<1>2. zeus \in ZeusType /\ hades \in HadesType
  BY BookTypes
<1>3. CASE ZeusReceive
  <2>1. UNCHANGED <<info, hades>> /\ zeus.pc = "wait"
    BY <1>3 DEF ZeusReceive
  <2>2. CASE PidAllocate /\ zeus'.pc = "build" /\ zeus'.pid = pid_table[head]
    <3>1. used' = used \cup {pid_table[head]}
      BY <2>2 DEF PidAllocate
    <3>2. \A p : OwnedBy(p)' = OwnedBy(p)
      BY <2>1 DEF OwnedBy, Live
    <3>3. \A p \in Pid : p \in used' => InHand(p)'
      BY <2>1, <2>2, <3>1, <3>2 DEF NoPidLeaks, InHand, Busy
    <3> QED
      BY <1>1, <3>3 DEF NoPidLeaks
  <2>3. CASE PidRefuse
    <3>1. UNCHANGED used
      BY <2>3 DEF PidRefuse
    <3>2. Busy => \A p \in used' : p = hades.pid => InHand(p)'
      BY <2>1 DEF InHand, Busy
    <3> QED
      BY <1>1, <2>1, <3>1, <3>2, HandsKept DEF NoPidLeaks
  <2>4. \/ PidAllocate /\ zeus'.pc = "build" /\ zeus'.pid = pid_table[head]
        \/ PidRefuse
    BY <1>2, <1>3 DEF ZeusReceive, ZeusType
  <2> QED
    BY <2>2, <2>3, <2>4
<1>4. CASE ZeusOutOfMemory \/ ZeusCreateFails
  <2>1. /\ UNCHANGED <<info, hades>> /\ used' = used \ {zeus.pid}
    BY <1>4 DEF ZeusOutOfMemory, ZeusCreateFails, ZeusGivesUp, PidFree
  <2>2. Busy => \A p \in used' : p = hades.pid => InHand(p)'
    BY <2>1 DEF InHand, Busy
  <2> QED
    BY <1>1, <2>1, <2>2, HandsKept DEF NoPidLeaks
<1>5. CASE ZeusBuild
  <2>1. PICK new \in Unborn : info'[new].state = "live" /\ info'[new].pid = zeus.pid
                              /\ \A t \in Task \ {new} : info'[t] = info[t]
    <3>1. info \in [Task -> TaskInfo]
      BY DEF LifecycleInv, LifecycleTypeOK
    <3>2. PICK new \in Unborn :
             LET heap == IF zeus.type = "thread" THEN ParentInfo.heap ELSE new
             IN  info' = [info EXCEPT ![new] = [state |-> "live", pid |-> zeus.pid,
                             parent |-> ParentInfo.pid, maker |-> zeus.caller, heap |-> heap,
                             late |-> Dying(heap)]]
      BY <1>5, Zenon DEF ZeusBuild
    <3> QED
      BY <3>1, <3>2 DEF Unborn
  <2>2. UNCHANGED <<used, hades>>
    BY <1>5 DEF ZeusBuild, pidVars
  <2>3. new \in UserTask /\ info[new].state = "none"
    BY <2>1, BookTypes DEF Unborn
  <2>4. \A p \in Pid : OwnedBy(p) # {} \/ p = zeus.pid => OwnedBy(p)' # {}
    BY <2>1, <2>3 DEF OwnedBy, Live
  <2>5. \A p \in Pid : p \in used' => InHand(p)'
    BY <2>2, <2>4 DEF NoPidLeaks, InHand, Busy
  <2> QED
    BY <1>1, <2>5 DEF NoPidLeaks
<1>6. CASE \/ ZeusPublish \/ ZeusCount \/ ZeusAnswer \/ ZeusWake \/ ZeusReadsFreedInfo
           \/ HadesCountsFreedHeap
  <2>1. UNCHANGED <<info, used, hades>> /\ (zeus.pc = "build" => UNCHANGED zeus)
    BY <1>6 DEF ZeusPublish, ZeusCount, ZeusAnswer, ZeusWake, ZeusReadsFreedInfo,
                HadesCountsFreedHeap, pidVars
  <2>2. /\ zeus.pc = "build" => \A p \in used' : p = zeus.pid => InHand(p)'
        /\ Busy => \A p \in used' : p = hades.pid => InHand(p)'
    BY <2>1 DEF InHand, Busy
  <2> QED
    BY <1>1, <2>1, <2>2, HandsKept DEF NoPidLeaks
<1>7. CASE HadesRelease
  <2>1. UNCHANGED <<info, zeus>> /\ used' = used \ {hades.pid}
    BY <1>7 DEF HadesRelease, PidFree
  <2>2. zeus.pc = "build" => \A p \in used' : p = zeus.pid => InHand(p)'
    BY <2>1 DEF InHand
  <2> QED
    BY <1>1, <2>1, <2>2, HandsKept DEF NoPidLeaks
<1>8. CASE HadesDestroy
  <2>1. /\ UNCHANGED <<used, zeus>> /\ hades.pc = "dying" /\ Busy
        /\ hades'.pc = "signal" /\ hades'.pid = hades.pid
        /\ info' = [info EXCEPT ![hades.task].state = "freed"]
    BY <1>2, <1>8 DEF HadesDestroy, HadesType, pidVars, Busy
  <2>2. info[hades.task].pid = hades.pid
    BY <2>1 DEF LifecycleInv, HadesInv
  <2>3. \A t \in UserTask : t # hades.task => info'[t] = info[t]
    BY <2>1 DEF LifecycleInv, LifecycleTypeOK
  <2>4. \A p \in Pid : OwnedBy(p) # {} => p = hades.pid \/ OwnedBy(p)' # {}
    BY <2>2, <2>3 DEF OwnedBy, Live
  <2>5. \A p \in Pid : p \in used' => InHand(p)'
    BY <2>1, <2>4 DEF NoPidLeaks, InHand, Busy
  <2> QED
    BY <1>1, <2>5 DEF NoPidLeaks
<1>9. CASE HadesReceive \/ HadesRemove \/ HadesSignal \/ HadesKillChild \/ HadesWake
  <2>1. UNCHANGED <<info, used, zeus>>
    BY <1>9 DEF HadesReceive, HadesRemove, HadesSignal, HadesKillChild, HadesWake, pidVars
  <2>2. Busy => hades'.pid = hades.pid /\ Busy'
    <3>1. CASE HadesReceive \/ HadesWake
      BY <3>1 DEF HadesReceive, HadesWake, Busy
    <3>2. CASE HadesRemove
      BY <1>2, <3>2 DEF HadesRemove, HadesType, Busy
    <3>3. CASE HadesSignal
      BY <1>2, <3>3 DEF HadesSignal, HadesType, Busy
    <3>4. CASE HadesKillChild
      <4>1. hades.pc = "kill" /\ \E i \in Victims : hades' = [hades EXCEPT !.next = i + 1]
        BY <3>4 DEF HadesKillChild
      <4> QED
        BY <1>2, <4>1 DEF HadesType, Busy
    <3> QED
      BY <1>9, <3>1, <3>2, <3>3, <3>4
  <2>3. /\ zeus.pc = "build" => \A p \in used' : p = zeus.pid => InHand(p)'
        /\ Busy => \A p \in used' : p = hades.pid => InHand(p)'
    BY <2>1, <2>2 DEF InHand
  <2> QED
    BY <1>1, <2>1, <2>3, HandsKept DEF NoPidLeaks
<1>10. CASE UNCHANGED vars \/ \E t \in Task : UserAct(t)
  <2>1. UNCHANGED <<info, zeus, hades>>
    BY <1>10, UsersKeepBooks DEF vars, sysVars
  <2>2. UNCHANGED used
    BY <1>10 DEF vars, pidVars, UserAct, Request, Wait, Exit, RunUnpublished,
                 RunInFreedHeap, Kill, IdleReap, Report, InitScan, InitScanDone
  <2>3. /\ zeus.pc = "build" => \A p \in used' : p = zeus.pid => InHand(p)'
        /\ Busy => \A p \in used' : p = hades.pid => InHand(p)'
    BY <2>1 DEF InHand, Busy
  <2> QED
    BY <1>1, <2>1, <2>2, <2>3, HandsKept DEF NoPidLeaks
<1> QED
  BY <1>3, <1>4, <1>5, <1>6, <1>7, <1>8, <1>9, <1>10, StepsAre

(* Creations that fail at any point, tasks that die at any point and the   *)
(* delays of Hades leak no PID (task.c: pid_allocate, pid_free).           *)
THEOREM PidsNeverLeak == SafetySpec => []NoPidLeaks
<1>1. LifecycleInv /\ LifecycleInv' /\ [Next]_vars /\ NoPidLeaks => NoPidLeaks'
  BY NoPidLeaksNext
<1> QED
  BY <1>1, NoPidLeaksInit, LifecycleInvariance, PTL DEF SafetySpec

(* So Zeus refuses a task for want of a PID only when every PID, or every  *)
(* one but the one the ring may have lost, is held (task.c: zeus).         *)
THEOREM RefusalsAreDue == SafetySpec => []RefusedForWantOfPids
<1>1. ASSUME LifecycleInv, NoPidLeaks
      PROVE  RefusedForWantOfPids
  <2>1. pid_table[head] = None => \A p, q \in Pid \ used : p = q
    BY <1>1, RefusalIsExhaustion DEF LifecycleInv
  <2> QED
    BY <1>1, <2>1 DEF RefusedForWantOfPids, NoPidLeaks
<1> QED
  BY <1>1, PidsNeverLeak, LifecycleInvariance, PTL

(* A place in hades_queue is taken by one dead task each, so with fewer    *)
(* dead and unreaped than its length nobody waits for room: not Hades,     *)
(* who is the only one to make it (vTaskPreDeletionHook, hades).           *)
THEOREM QueueFillsWithTheDead == SafetySpec => []OnlyManyDeadFillQueue
<1>1. ASSUME LifecycleInv, QueueFull
      PROVE  Cardinality({t \in UserTask : Live(t) /\ tcb[t] = "freed"}) >= HadesQueueLen
  <2> DEFINE Dead == {t \in UserTask : Live(t) /\ tcb[t] = "freed"}
             Place == 1..Len(hades_queue)
             f == [i \in Place |-> CHOOSE t \in Dead : info[t].pid = hades_queue[i]]
  <2>1. hades_queue \in Seq(Pid) /\ Len(hades_queue) = HadesQueueLen /\ DOMAIN hades_queue = Place
    BY <1>1 DEF LifecycleInv, LifecycleTypeOK, QueueFull
  <2>2. \A i \in Place : \E t \in Dead : info[t].pid = hades_queue[i]
    BY <1>1, <2>1 DEF LifecycleInv, QueueInv, Members, Unreaped
  <2>3. f \in [Place -> Dead] /\ \A i \in Place : info[f[i]].pid = hades_queue[i]
    BY <2>2
  <2>4. IsFiniteSet(Dead) /\ Cardinality(Dead) \in Nat
    <3>1. IsFiniteSet(UserTask)
      BY LifecycleAssumption, FS_Interval DEF UserTask
    <3> QED
      BY <3>1, FS_Subset, FS_CardinalityType
  <2>5. IsFiniteSet(Place) /\ Cardinality(Place) = HadesQueueLen
    BY <2>1, LifecycleAssumption, FS_Interval
  <2>6. \A i, j \in Place : f[i] = f[j] => i = j
    <3> HIDE DEF f
    <3> QED
      BY <1>1, <2>1, <2>3 DEF LifecycleInv, QueueInv, Distinct
  <2> HIDE DEF f, Dead, Place
  <2>7. ~(Cardinality(Dead) < Cardinality(Place))
    BY <2>3, <2>4, <2>5, <2>6, FS_PigeonHole
  <2> QED
    BY <2>4, <2>5, <2>7, LifecycleAssumption DEF Dead
<1>2. LifecycleInv => OnlyManyDeadFillQueue
  BY <1>1 DEF OnlyManyDeadFillQueue
<1> QED
  BY <1>2, LifecycleInvariance, PTL

LateInv == OnlyTheDeadGetLateThreads /\ \A t \in UserTask : info[t].late => Born(t)

LEMMA BornStay ==
    ASSUME LifecycleInv, [Next]_vars, NEW t \in UserTask, Born(t)
    PROVE  Born(t)'
<1> USE SetFacts
<1>1. CASE ZeusBuild
  <2>1. PICK new \in UserTask : Builds(new)
    BY <1>1, Built
  <2> QED
    BY <2>1 DEF Builds, Born
<1>2. CASE HadesDestroy
  <2>1. info' = [info EXCEPT ![hades.task].state = "freed"]
    BY <1>2 DEF HadesDestroy
  <2>2. info \in [Task -> TaskInfo]
    BY DEF LifecycleInv, LifecycleTypeOK
  <2> QED
    BY <2>1, <2>2 DEF TaskInfo, Born
<1>3. ASSUME HadesRemove \/ ZeusOutOfMemory \/ ZeusCreateFails
      PROVE  UNCHANGED info
  BY <1>3 DEF HadesRemove, ZeusOutOfMemory, ZeusCreateFails
<1> QED
  BY <1>1, <1>2, <1>3, BookMoves DEF Born

(* No "thread from a dying parent" (task.c:678): what the code keeps of it *)
(* while Hades waits in task_thread_destroy.  No task that lives gets such *)
(* a thread: who asked for it is deleted already, or is one itself         *)
(* (task.c: zeus, task_thread_ref, task_thread_destroy).                   *)
THEOREM LateThreadsAreOfTheDead == SafetySpec => []OnlyTheDeadGetLateThreads
<1> DEFINE Excused(t) == info[t].maker \in UserTask /\ (tcb[info[t].maker] = "freed" \/ info[info[t].maker].late)
<1>1. LifecycleInit => LateInv
  BY SetFacts DEF LifecycleInit, NoInfo, OnlyTheDeadGetLateThreads, LateInv
<1>2. ASSUME LifecycleInv, LifecycleInv', BookInv, [Next]_vars, LateInv
      PROVE  LateInv'
  <2> USE SetFacts
  <2>1. SUFFICES ASSUME NEW t \in UserTask, info'[t].late
                 PROVE  Excused(t)' /\ Born(t)'
    BY DEF OnlyTheDeadGetLateThreads, LateInv
  <2>2. ASSUME NEW m \in UserTask, info[m].state # "none", info[m].late
        PROVE  info'[m].late
    BY <1>2, <2>2, OriginsStay DEF Builds
  <2>3. CASE Builds(t) /\ ZeusBuild
    <3> DEFINE m == zeus.caller
    <3>1. /\ zeus.pc = "build" /\ info[m].state = "live"
          /\ info'[t].maker = m /\ hades.pc = "dying" /\ hades.last
          /\ info'[t].heap = info[hades.task].heap
          /\ info[t].state = "none"
          /\ info'[t].heap = IF zeus.type = "thread" THEN info[m].heap ELSE t
      BY <2>1, <2>3 DEF Builds, Dying
    <3>2. hades.task \in UserTask /\ Live(hades.task) /\ tcb[hades.task] = "freed"
      BY <1>2, <3>1 DEF LifecycleInv, HadesInv
    <3>3. info[info[hades.task].heap].state # "none"
      BY <1>2, <3>2 DEF BookInv, HeapInv, Born, Live
    <3>4. zeus.type = "thread" /\ info[m].heap = info[hades.task].heap
      BY <3>1, <3>3
    <3>5. m \in UserTask
      BY <1>2, <3>1, <3>4 DEF LifecycleInv, ZeusInv, BookInv, RequestInv
    <3>6. m = hades.task \/ info[m].late
      BY <1>2, <3>1, <3>4, <3>5 DEF BookInv, HeapInv, Sharers, Live
    <3>7. tcb'[m] = "freed" \/ info'[m].late
      BY <1>2, <2>2, <3>1, <3>2, <3>5, <3>6, FreedForGood
    <3> QED
      BY <2>3, <3>1, <3>5, <3>7 DEF Builds, Born
  <2>4. CASE info'[t].late = info[t].late /\ info'[t].maker = info[t].maker
    <3> DEFINE m == info[t].maker
    <3>1. m \in UserTask /\ (tcb[m] = "freed" \/ info[m].late)
      BY <1>2, <2>1, <2>4 DEF OnlyTheDeadGetLateThreads, LateInv
    <3>2. ASSUME tcb[m] = "freed"
          PROVE  Excused(t)'
      BY <1>2, <2>4, <3>1, <3>2, FreedForGood
    <3>3. ASSUME info[m].late
          PROVE  Excused(t)'
      <4>1. info[m].state # "none"
        BY <1>2, <3>1, <3>3 DEF LateInv, Born
      <4> QED
        BY <2>2, <2>4, <3>1, <3>3, <4>1
    <3>4. Born(t)'
      BY <1>2, <2>1, <2>4, BornStay DEF LateInv
    <3> QED
      BY <3>1, <3>2, <3>3, <3>4
  <2> QED
    BY <1>2, <2>3, <2>4, OriginsStay
<1> QED
  BY <1>1, <1>2, BookInvariance, LifecycleInvariance, PTL DEF SafetySpec, LateInv
=============================================================================
