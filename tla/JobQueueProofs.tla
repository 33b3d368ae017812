--------------------------- MODULE JobQueueProofs ---------------------------
(***************************************************************************)
(* What holds of JobQueue for every set of jobs and workers, every retry   *)
(* limit and every batch size.                                             *)
(*                                                                         *)
(* Three inductive invariants, each an extension of the first: TInv says   *)
(* where a job with retries left can be, DInv relates the attempt count a  *)
(* job carries to the deliveries that failed, and VInv says that a job is  *)
(* acknowledged only after a success.                                      *)
(*                                                                         *)
(* Then: in which order and how often the jobs are delivered.  The order   *)
(* of first deliveries holds for any number of workers.  What holds of one *)
(* worker, as docker-compose.yml runs it, rests on SInv: a job is in one   *)
(* place at a time, and the processing list holds at most what the worker  *)
(* has in its hand.  From it follow that no job has two copies, that a     *)
(* redelivery has a cause, and that the queue implements JobDelivery.      *)
(***************************************************************************)
EXTENDS JobQueue, SequenceTheorems, FiniteSetTheorems, WellFoundedInduction, TLAPS

(* The Redis lists as sets: what LPUSH, RPOP and LREM do to the members of *)
(* a list.                                                                 *)

(* LPUSH adds its element and keeps the others (enqueue_job and every move *)
(* into a list).                                                           *)
LEMMA AppendKeeps ==
  ASSUME NEW S, NEW s \in Seq(S), NEW e \in S
  PROVE  /\ Append(s, e) \in Seq(S)
         /\ ToSet(Append(s, e)) = ToSet(s) \union {e}
<1>1. /\ Append(s, e) \in Seq(S)
      /\ DOMAIN Append(s, e) = 1..Len(s) + 1
      /\ \A i \in 1..Len(s) : Append(s, e)[i] = s[i]
      /\ Append(s, e)[Len(s) + 1] = e
  BY AppendProperties
<1>2. DOMAIN s = 1..Len(s) /\ Len(s) \in Nat
  OBVIOUS
<1>3. 1..Len(s) + 1 = (1..Len(s)) \union {Len(s) + 1}
  BY <1>2
<1> QED
  BY <1>1, <1>2, <1>3 DEF ToSet

(* RPOP takes one member and keeps the others (reserve_job and             *)
(* recover_processing_jobs).                                               *)
LEMMA TailKeeps ==
  ASSUME NEW S, NEW s \in Seq(S), s # <<>>
  PROVE  /\ Head(s) \in S /\ Tail(s) \in Seq(S)
         /\ ToSet(s) = ToSet(Tail(s)) \union {Head(s)}
<1>1. /\ Head(s) \in S /\ Tail(s) \in Seq(S)
      /\ Len(Tail(s)) = Len(s) - 1
      /\ \A i \in 1..Len(Tail(s)) : Tail(s)[i] = s[i + 1]
  BY HeadTailProperties
<1>2. Len(s) \in Nat \ {0} /\ Head(s) = s[1]
  OBVIOUS
<1>3. DOMAIN s = 1..Len(s) /\ DOMAIN Tail(s) = 1..Len(s) - 1
  BY <1>1
<1>4. ToSet(s) \subseteq ToSet(Tail(s)) \union {Head(s)}
  <2> SUFFICES ASSUME NEW i \in 1..Len(s) PROVE s[i] \in ToSet(Tail(s)) \union {Head(s)}
    BY <1>3 DEF ToSet
  <2>1. CASE i = 1
    BY <2>1, <1>2
  <2>2. CASE i # 1
    <3>1. i - 1 \in 1..Len(s) - 1 /\ Tail(s)[i - 1] = s[i]
      BY <2>2, <1>1, <1>2
    <3> QED
      BY <3>1, <1>3 DEF ToSet
  <2> QED
    BY <2>1, <2>2
<1>5. ToSet(Tail(s)) \union {Head(s)} \subseteq ToSet(s)
  <2>1. Head(s) \in ToSet(s)
    BY <1>2, <1>3 DEF ToSet
  <2>2. \A i \in 1..Len(s) - 1 : i + 1 \in 1..Len(s)
    BY <1>2
  <2>3. ToSet(Tail(s)) \subseteq ToSet(s)
    BY <1>1, <1>3, <2>2 DEF ToSet
  <2> QED
    BY <2>1, <2>3
<1> QED
  BY <1>1, <1>4, <1>5

(* LREM loses nothing but its argument (acknowledge_job and                *)
(* fail_or_retry_job).                                                     *)
LEMMA RemoveFirstKeeps ==
  ASSUME NEW S, NEW s \in Seq(S), NEW e
  PROVE  /\ RemoveFirst(s, e) \in Seq(S)
         /\ ToSet(RemoveFirst(s, e)) \subseteq ToSet(s)
         /\ ToSet(s) \subseteq ToSet(RemoveFirst(s, e)) \union {e}
<1>0. DOMAIN s = 1..Len(s) /\ Len(s) \in Nat /\ \A i \in 1..Len(s) : s[i] \in S
  OBVIOUS
<1>1. CASE ~ \E i \in 1..Len(s) : s[i] = e
  BY <1>1 DEF RemoveFirst
<1>2. CASE \E i \in 1..Len(s) : s[i] = e
  <2> DEFINE I == {i \in 1..Len(s) : s[i] = e}
             k == SelectInSeq(s, LAMBDA v : v = e)
             a == SubSeq(s, 1, k - 1)
             b == SubSeq(s, k + 1, Len(s))
  <2>1. k = Min(I)
    BY <1>2 DEF SelectInSeq
  <2>2. k \in I
    <3>1. \E x \in I : \A y \in I : x <= y
      <4>1. I \subseteq Nat /\ I # {}
        BY <1>2, <1>0
      <4> HIDE DEF I
      <4>2. PICK x \in I : \A y \in I : ~ (<<y, x>> \in OpToRel(<, Nat))
        BY <4>1, NatLessThanWellFounded, WFMin
      <4>3. \A y \in I : x \in Nat /\ y \in Nat /\ ~ (y < x)
        BY <4>1, <4>2 DEF OpToRel
      <4> QED
        BY <4>3
    <3> QED
      BY <2>1, <3>1 DEF Min
  <2>3. RemoveFirst(s, e) = a \o b
    BY <1>2 DEF RemoveFirst, RemoveAt
  <2>4. k \in 1..Len(s) /\ s[k] = e
    BY <2>2
  <2> HIDE DEF k, I
  <2>5. /\ a \in Seq(S) /\ Len(a) = k - 1
        /\ \A i \in 1..k - 1 : a[i] = s[i]
    BY <2>4, <1>0, SubSeqProperties
  <2>6. /\ b \in Seq(S) /\ Len(b) = Len(s) - k
        /\ \A i \in 1..Len(s) - k : b[i] = s[k + i]
    <3>1. \A i \in k + 1..Len(s) : s[i] \in S
      BY <2>4, <1>0
    <3>2. /\ b \in Seq(S) /\ Len(b) = IF k + 1 <= Len(s) THEN Len(s) - (k + 1) + 1 ELSE 0
          /\ \A i \in 1..Len(s) - (k + 1) + 1 : b[i] = s[k + 1 + i - 1]
      BY <2>4, <1>0, <3>1, SubSeqProperties
    <3> HIDE DEF b
    <3>3. Len(s) - (k + 1) + 1 = Len(s) - k
      BY <2>4, <1>0
    <3>4. Len(b) = Len(s) - k
      <4>1. CASE k + 1 <= Len(s)
        BY <4>1, <3>2, <3>3
      <4>2. CASE k = Len(s)
        <5>1. ~ (k + 1 <= Len(s)) /\ Len(s) - k = 0
          BY <4>2, <1>0
        <5> QED
          BY <3>2, <5>1
      <4> QED
        <5>1. k \in Int /\ Len(s) \in Int /\ k <= Len(s)
          BY <2>4, <1>0
        <5>2. k + 1 <= Len(s) \/ k = Len(s)
          BY <5>1
        <5> QED
          BY <4>1, <4>2, <5>2
    <3>5. ASSUME NEW i \in 1..Len(s) - k PROVE b[i] = s[k + i]
      <4>1. b[i] = s[k + 1 + i - 1]
        BY <3>2, <3>3
      <4>2. k + 1 + i - 1 = k + i
        BY <2>4, <1>0
      <4> QED
        BY <4>1, <4>2
    <3> QED
      BY <3>2, <3>4, <3>5
  <2> HIDE DEF a, b
  <2> DEFINE r == a \o b
  <2>7. /\ r \in Seq(S) /\ DOMAIN r = 1..Len(s) - 1
        /\ \A i \in 1..Len(s) - 1 : r[i] = IF i < k THEN s[i] ELSE s[i + 1]
    <3>1. /\ r \in Seq(S) /\ Len(r) = Len(a) + Len(b)
          /\ \A i \in 1..Len(a) + Len(b) :
               r[i] = IF i <= Len(a) THEN a[i] ELSE b[i - Len(a)]
      BY <2>5, <2>6, ConcatProperties
    <3> HIDE DEF r
    <3>2. Len(a) + Len(b) = Len(s) - 1
      BY <2>4, <2>5, <2>6, <1>0
    <3>3. ASSUME NEW i \in 1..Len(s) - 1
          PROVE  r[i] = IF i < k THEN s[i] ELSE s[i + 1]
      <4>1. CASE i < k
        BY <4>1, <3>1, <3>2, <2>4, <2>5, <1>0
      <4>2. CASE i >= k
        <5>1. i - (k - 1) \in 1..Len(s) - k /\ k + (i - (k - 1)) = i + 1
          BY <4>2, <2>4, <1>0
        <5>2. r[i] = b[i - (k - 1)]
          BY <4>2, <3>1, <3>2, <2>4, <2>5, <1>0
        <5>3. b[i - (k - 1)] = s[i + 1]
          BY <5>1, <2>6
        <5> QED
          BY <4>2, <5>2, <5>3, <2>4, <1>0
      <4> QED
        BY <4>1, <4>2, <2>4, <1>0
    <3> QED
      BY <3>1, <3>2, <3>3
  <2> HIDE DEF r
  <2>8. ToSet(r) \subseteq ToSet(s)
    BY <2>7, <2>4, <1>0 DEF ToSet
  <2>9. ToSet(s) \subseteq ToSet(r) \union {e}
    <3> SUFFICES ASSUME NEW i \in 1..Len(s), i # k PROVE s[i] \in ToSet(r)
      BY <1>0, <2>4 DEF ToSet
    <3>1. CASE i < k
      BY <3>1, <2>7, <2>4, <1>0 DEF ToSet
    <3>2. CASE i > k
      <4>1. i - 1 \in 1..Len(s) - 1 /\ r[i - 1] = s[i]
        BY <3>2, <2>7, <2>4, <1>0
      <4> QED
        BY <4>1, <2>7 DEF ToSet
    <3> QED
      BY <3>1, <3>2, <2>4
  <2> QED
    BY <2>3, <2>7, <2>8, <2>9 DEF r
<1> QED
  BY <1>1, <1>2

-----------------------------------------------------------------------------
(* Types.  TypeOK alone is not inductive: the attempt counter stays in     *)
(* range because a job whose counter is past MaxRetry is only ever in the  *)
(* hand of the worker about to bury it, or dead.                           *)

(* A raw job that still has a delivery to come. *)
Fresh == [id : Jobs, attempts : 0..MaxRetry]

Lists == /\ waiting \in Seq(Fresh) /\ processing \in Seq(Fresh)
         /\ dead \in Seq(Raw)
         /\ retry \subseteq Fresh /\ due \subseteq retry

Loop == /\ pc \in [Workers -> Places]
        /\ hand \in [Workers -> Raw \union {None}]
        /\ batch \in [Workers -> SUBSET Fresh]
        /\ \A w \in Workers :
             /\ pc[w] \in {"drainPush", "run", "ack", "fail"} => hand[w] \in Fresh
             /\ pc[w] = "failPush" => hand[w] \in Raw

History == /\ restarts \in Nat
           /\ arrivals \in Seq(Jobs) /\ succeeded \subseteq Jobs
           /\ deliveries \in [Jobs -> Nat] /\ failures \in [Jobs -> Nat]

TInv == Lists /\ Loop /\ History

(* A job is Fresh exactly while its counter is within the limit. *)
LEMMA FreshIsRaw == Fresh \subseteq Raw /\ (\A raw \in Raw : raw.attempts <= MaxRetry => raw \in Fresh)
  BY QueueAssumption DEF Fresh, Raw

(* The inductive invariant gives the types of the redis lists and of the   *)
(* worker loop.                                                            *)
LEMMA TInvImpliesTypeOK == TInv => TypeOK
<1> SUFFICES ASSUME TInv PROVE TypeOK
  OBVIOUS
<1>1. Seq(Fresh) \subseteq Seq(Raw)
  BY FreshIsRaw, SeqMonotonic
<1>2. \A w \in Workers : pc[w] = "fail" => hand[w].attempts <= MaxRetry
  BY QueueAssumption DEF TInv, Loop, Fresh
<1> QED
  BY <1>1, <1>2, FreshIsRaw DEF TInv, Lists, Loop, History, TypeOK

(* An empty redis and stopped workers are well typed. *)
LEMMA TInvInit == Init => TInv
<1> SUFFICES ASSUME Init PROVE TInv
  OBVIOUS
<1>1. Lists
  BY EmptySeq DEF Init, Lists
<1>2. Loop
  BY DEF Init, Loop, Places
<1>3. History
  BY EmptySeq DEF Init, History
<1> QED
  BY <1>1, <1>2, <1>3 DEF TInv

(* Every command of the API and of the worker loop keeps the types. *)
LEMMA TInvStep == TInv /\ [Next]_vars => TInv'
<1> SUFFICES ASSUME TInv, [Next]_vars PROVE TInv'
  OBVIOUS
<1> USE DEF TInv
<1>1. ASSUME NEW j \in Jobs, Enqueue(j) PROVE TInv'
  <2>1. [id |-> j, attempts |-> 0] \in Fresh
    BY QueueAssumption DEF Fresh
  <2>2. Lists'
    BY <1>1, <2>1, AppendProperties DEF Enqueue, Lists
  <2>3. Loop'
    BY <1>1 DEF Enqueue, Loop
  <2>4. History'
    BY <1>1, AppendProperties DEF Enqueue, History
  <2> QED
    BY <2>2, <2>3, <2>4
<1>2. ASSUME NEW raw \in retry, BecomeDue(raw) PROVE TInv'
  BY <1>2 DEF BecomeDue, history, Lists, Loop, History
<1>3. ASSUME NEW w \in Workers, Start(w) PROVE TInv'
  BY <1>3 DEF Start, Goto, Places, redis, history, Lists, Loop, History
<1>4. ASSUME NEW w \in Workers, RecoverOne(w) PROVE TInv'
  <2>1. Head(processing) \in Fresh /\ Tail(processing) \in Seq(Fresh)
    BY <1>4, TailKeeps DEF RecoverOne, Lists
  <2>2. Lists'
    BY <1>4, <2>1, AppendProperties DEF RecoverOne, Lists
  <2> QED
    BY <1>4, <2>2 DEF RecoverOne, history, Loop, History
<1>5. ASSUME NEW w \in Workers, RecoverDone(w) PROVE TInv'
  BY <1>5 DEF RecoverDone, Goto, Places, redis, history, Lists, Loop, History
<1>6. ASSUME NEW w \in Workers, DrainScan(w) PROVE TInv'
  <2>1. PICK found \in SUBSET due : batch' = [batch EXCEPT ![w] = found]
    BY <1>6 DEF DrainScan
  <2>2. found \subseteq Fresh
    BY DEF Lists
  <2>3. Loop'
    BY <1>6, <2>1, <2>2 DEF DrainScan, Goto, Places, Loop
  <2> QED
    BY <1>6, <2>3 DEF DrainScan, redis, history, Lists, History
<1>7. ASSUME NEW w \in Workers, DrainRemove(w) PROVE TInv'
  <2>1. PICK raw \in batch[w] :
          /\ batch' = [batch EXCEPT ![w] = @ \ {raw}]
          /\ retry' = retry \ {raw}
          /\ due' = due \ {raw}
          /\ IF raw \in retry
             THEN Take(w, raw) /\ Goto(w, "drainPush")
             ELSE UNCHANGED <<hand, pc>>
    BY <1>7 DEF DrainRemove
  <2>2. raw \in Fresh /\ raw \in Raw
    BY FreshIsRaw DEF Loop
  <2>3. Lists'
    BY <1>7, <2>1 DEF DrainRemove, Lists
  <2>4. Loop'
    BY <1>7, <2>1, <2>2 DEF DrainRemove, Take, Goto, Places, Loop
  <2>5. History'
    BY <1>7 DEF DrainRemove, history, History
  <2> QED
    BY <2>3, <2>4, <2>5
<1>8. ASSUME NEW w \in Workers, DrainPush(w) PROVE TInv'
  <2>1. hand[w] \in Fresh
    BY <1>8 DEF DrainPush, Loop
  <2>2. Lists'
    BY <1>8, <2>1, AppendProperties DEF DrainPush, Lists
  <2> QED
    BY <1>8, <2>2 DEF DrainPush, Take, Goto, Places, history, Loop, History
<1>9. ASSUME NEW w \in Workers, DrainDone(w) PROVE TInv'
  BY <1>9 DEF DrainDone, Goto, Places, redis, history, Lists, Loop, History
<1>10. ASSUME NEW w \in Workers, Reserve(w) PROVE TInv'
  <2>1. Head(waiting) \in Fresh /\ Head(waiting) \in Raw /\ Tail(waiting) \in Seq(Fresh)
    BY <1>10, TailKeeps, FreshIsRaw DEF Reserve, Lists
  <2>2. Head(waiting).id \in Jobs
    BY <2>1 DEF Fresh
  <2>3. Lists'
    BY <1>10, <2>1, AppendProperties DEF Reserve, Lists
  <2>4. Loop'
    BY <1>10, <2>1 DEF Reserve, Take, Goto, Places, Loop
  <2>5. History'
    BY <1>10, <2>2 DEF Reserve, History
  <2> QED
    BY <2>3, <2>4, <2>5
<1>11. ASSUME NEW w \in Workers, ReserveTimeout(w) PROVE TInv'
  BY <1>11 DEF ReserveTimeout, Goto, Places, redis, history, Lists, Loop, History
<1>12. ASSUME NEW w \in Workers, DispatchOk(w) PROVE TInv'
  <2>1. hand[w] \in Fresh /\ hand[w].id \in Jobs
    BY <1>12 DEF DispatchOk, Loop, Fresh
  <2> QED
    BY <1>12, <2>1 DEF DispatchOk, Goto, Places, redis, Lists, Loop, History
<1>13. ASSUME NEW w \in Workers, DispatchFail(w) PROVE TInv'
  <2>1. hand[w] \in Fresh /\ hand[w].id \in Jobs
    BY <1>13 DEF DispatchFail, Loop, Fresh
  <2> QED
    BY <1>13, <2>1 DEF DispatchFail, Goto, Places, redis, Lists, Loop, History
<1>14. ASSUME NEW w \in Workers, Acknowledge(w) PROVE TInv'
  <2>1. Lists'
    BY <1>14, RemoveFirstKeeps DEF Acknowledge, Lists
  <2> QED
    BY <1>14, <2>1 DEF Acknowledge, Take, Goto, Places, history, Loop, History
<1>15. ASSUME NEW w \in Workers, FailRemove(w) PROVE TInv'
  <2>1. Lists'
    BY <1>15, RemoveFirstKeeps DEF FailRemove, Lists
  <2>2. hand[w] \in Fresh
    BY <1>15 DEF FailRemove, Loop
  <2>3. [hand[w] EXCEPT !.attempts = @ + 1] \in Raw
    BY <2>2, QueueAssumption DEF Fresh, Raw
  <2>4. Loop'
    BY <1>15, <2>3 DEF FailRemove, Goto, Places, Loop
  <2> QED
    BY <1>15, <2>1, <2>4 DEF FailRemove, history, History
<1>16. ASSUME NEW w \in Workers, ScheduleRetry(w) PROVE TInv'
  <2>1. hand[w] \in Fresh
    BY <1>16, FreshIsRaw DEF ScheduleRetry, Loop
  <2> QED
    BY <1>16, <2>1 DEF ScheduleRetry, Take, Goto, Places, history, Lists, Loop, History
<1>17. ASSUME NEW w \in Workers, DeadLetter(w) PROVE TInv'
  <2>1. hand[w] \in Raw
    BY <1>17 DEF DeadLetter, Loop
  <2>2. Lists'
    BY <1>17, <2>1, AppendProperties DEF DeadLetter, Lists
  <2> QED
    BY <1>17, <2>2 DEF DeadLetter, Take, Goto, Places, history, Loop, History
<1>18. ASSUME NEW w \in Workers, Stop(w) PROVE TInv'
  BY <1>18 DEF Stop, Goto, Places, redis, history, Lists, Loop, History
<1>19. ASSUME NEW w \in Workers, Crash(w) PROVE TInv'
  BY <1>19 DEF Crash, Take, Goto, Places, redis, history, Lists, Loop, History
<1>20. ASSUME UNCHANGED vars PROVE TInv'
  BY <1>20 DEF vars, redis, history, Lists, Loop, History
<1> QED
  BY <1>1, <1>2, <1>3, <1>4, <1>5, <1>6, <1>7, <1>8, <1>9, <1>10, <1>11,
     <1>12, <1>13, <1>14, <1>15, <1>16, <1>17, <1>18, <1>19, <1>20
  DEF Next, WorkerStep, Handle

(* The queue keeps its types, the bound on the attempt counter included    *)
(* (fail_or_retry_job stores no job whose count is past the limit, except  *)
(* as a dead letter).                                                      *)
THEOREM TypeCorrect == Spec => []TypeOK
<1>1. Spec => []TInv
  BY TInvInit, TInvStep, PTL DEF Spec
<1> QED
  BY <1>1, TInvImpliesTypeOK, PTL

-----------------------------------------------------------------------------
(* Dead letters are earned: the attempts a job carries never exceed the    *)
(* deliveries of it that raised, wherever the job is.  While a worker is   *)
(* about to count the latest failure, the failures are one ahead.          *)
Charged(raw) == raw.attempts <= failures[raw.id]

Budget ==
  /\ \A raw \in ToSet(waiting) \union ToSet(processing) \union retry : Charged(raw)
  /\ \A w \in Workers :
       /\ pc[w] \in {"drainPush", "run", "ack", "failPush"} => Charged(hand[w])
       /\ pc[w] = "fail" => hand[w].attempts + 1 <= failures[hand[w].id]

DInv == TInv /\ Budget /\ DeadLetterEarned

(* Nothing is charged at the start. *)
LEMMA DInvInit == Init => DInv
<1> SUFFICES ASSUME Init PROVE DInv
  OBVIOUS
<1>1. ToSet(<<>>) = {}
  BY DEF ToSet
<1> QED
  BY <1>1, TInvInit DEF Init, DInv, Budget, DeadLetterEarned

(* No step charges a job for anything but a failed delivery of it; that is *)
(* where recovery, which moves the raw text unchanged, matters.            *)
LEMMA DInvStep == DInv /\ [Next]_vars => DInv'
<1> SUFFICES ASSUME DInv, [Next]_vars PROVE Budget' /\ DeadLetterEarned'
  BY TInvStep DEF DInv
<1>0. TInv /\ Budget /\ DeadLetterEarned /\ MaxRetry \in Nat
  BY QueueAssumption DEF DInv
<1>a. /\ waiting \in Seq(Fresh) /\ processing \in Seq(Fresh) /\ dead \in Seq(Raw)
      /\ retry \subseteq Fresh
      /\ pc \in [Workers -> Places] /\ hand \in [Workers -> Raw \union {None}]
      /\ failures \in [Jobs -> Nat]
  BY <1>0 DEF TInv, Lists, Loop, History
<1>1. ASSUME NEW j \in Jobs, Enqueue(j) PROVE Budget' /\ DeadLetterEarned'
  <2> DEFINE raw == [id |-> j, attempts |-> 0]
  <2>1. raw \in Fresh /\ raw.attempts <= failures[raw.id]
    BY <1>0, <1>a DEF Fresh
  <2>2. ToSet(waiting') = ToSet(waiting) \union {raw}
    BY <1>1, <2>1, <1>a, AppendKeeps DEF Enqueue
  <2> HIDE DEF raw
  <2> QED
    BY <1>0, <1>1, <2>1, <2>2 DEF Enqueue, Budget, DeadLetterEarned, Charged
<1>2. ASSUME NEW raw \in retry, BecomeDue(raw) PROVE Budget' /\ DeadLetterEarned'
  BY <1>0, <1>2 DEF BecomeDue, history, Budget, DeadLetterEarned, Charged
<1>3. ASSUME NEW w \in Workers, Start(w) PROVE Budget' /\ DeadLetterEarned'
  BY <1>0, <1>a, <1>3 DEF Start, Goto, redis, history, Budget, DeadLetterEarned, Charged
<1>4. ASSUME NEW w \in Workers, RecoverOne(w) PROVE Budget' /\ DeadLetterEarned'
  <2>1. /\ Head(processing) \in Fresh
        /\ ToSet(processing) = ToSet(processing') \union {Head(processing)}
    BY <1>4, <1>a, TailKeeps DEF RecoverOne
  <2>2. ToSet(waiting') = ToSet(waiting) \union {Head(processing)}
    BY <1>4, <2>1, <1>a, AppendKeeps DEF RecoverOne
  <2> QED
    BY <1>0, <1>4, <2>1, <2>2 DEF RecoverOne, history, Budget, DeadLetterEarned, Charged
<1>5. ASSUME NEW w \in Workers, RecoverDone(w) PROVE Budget' /\ DeadLetterEarned'
  BY <1>0, <1>a, <1>5 DEF RecoverDone, Goto, redis, history, Budget, DeadLetterEarned, Charged
<1>6. ASSUME NEW w \in Workers, DrainScan(w) PROVE Budget' /\ DeadLetterEarned'
  BY <1>0, <1>a, <1>6 DEF DrainScan, Goto, redis, history, Budget, DeadLetterEarned, Charged
<1>7. ASSUME NEW w \in Workers, DrainRemove(w) PROVE Budget' /\ DeadLetterEarned'
  <2>1. PICK raw \in batch[w] :
          /\ retry' = retry \ {raw}
          /\ IF raw \in retry
             THEN Take(w, raw) /\ Goto(w, "drainPush")
             ELSE UNCHANGED <<hand, pc>>
    BY <1>7 DEF DrainRemove
  <2>2. raw \in retry => Charged(raw)
    BY <1>0 DEF Budget
  <2> QED
    BY <1>0, <1>a, <1>7, <2>1, <2>2
    DEF DrainRemove, Take, Goto, history, Budget, DeadLetterEarned, Charged
<1>8. ASSUME NEW w \in Workers, DrainPush(w) PROVE Budget' /\ DeadLetterEarned'
  <2>1. hand[w] \in Fresh /\ Charged(hand[w])
    BY <1>0, <1>8 DEF DrainPush, TInv, Loop, Budget
  <2>2. ToSet(waiting') = ToSet(waiting) \union {hand[w]}
    BY <1>8, <2>1, <1>a, AppendKeeps DEF DrainPush
  <2> QED
    BY <1>0, <1>a, <1>8, <2>1, <2>2
    DEF DrainPush, Take, Goto, history, Budget, DeadLetterEarned, Charged
<1>9. ASSUME NEW w \in Workers, DrainDone(w) PROVE Budget' /\ DeadLetterEarned'
  BY <1>0, <1>a, <1>9 DEF DrainDone, Goto, redis, history, Budget, DeadLetterEarned, Charged
<1>10. ASSUME NEW w \in Workers, Reserve(w) PROVE Budget' /\ DeadLetterEarned'
  <2> DEFINE raw == Head(waiting)
  <2>1. raw \in Fresh /\ ToSet(waiting) = ToSet(waiting') \union {raw}
    BY <1>10, <1>a, TailKeeps DEF Reserve
  <2>2. ToSet(processing') = ToSet(processing) \union {raw}
    BY <1>10, <2>1, <1>a, AppendKeeps DEF Reserve
  <2>3. Charged(raw)
    BY <1>0, <2>1 DEF Budget
  <2>4. hand' = [hand EXCEPT ![w] = raw]
    BY <1>10 DEF Reserve, Take
  <2> HIDE DEF raw
  <2> QED
    BY <1>0, <1>a, <1>10, <2>1, <2>2, <2>3, <2>4
    DEF Reserve, Goto, Budget, DeadLetterEarned, Charged
<1>11. ASSUME NEW w \in Workers, ReserveTimeout(w) PROVE Budget' /\ DeadLetterEarned'
  BY <1>0, <1>a, <1>11 DEF ReserveTimeout, Goto, redis, history, Budget, DeadLetterEarned, Charged
<1>12. ASSUME NEW w \in Workers, DispatchOk(w) PROVE Budget' /\ DeadLetterEarned'
  BY <1>0, <1>a, <1>12 DEF DispatchOk, Goto, redis, Budget, DeadLetterEarned, Charged
<1>13. ASSUME NEW w \in Workers, DispatchFail(w) PROVE Budget' /\ DeadLetterEarned'
  <2>1. hand[w] \in Fresh /\ hand[w].id \in Jobs /\ Charged(hand[w])
    BY <1>0, <1>13 DEF DispatchFail, TInv, Loop, Budget, Fresh
  <2>2. \A j \in Jobs : failures[j] \in Nat /\ failures'[j] \in Nat /\ failures[j] <= failures'[j]
    BY <1>a, <1>13 DEF DispatchFail
  <2>3. failures'[hand[w].id] = failures[hand[w].id] + 1
    BY <1>a, <1>13, <2>1 DEF DispatchFail
  <2>4. \A raw \in Raw : raw.id \in Jobs /\ raw.attempts \in Int
    BY <1>0 DEF Raw
  <2>5. \A raw \in Raw : Charged(raw) => Charged(raw)'
    BY <2>2, <2>4 DEF Charged
  <2>6. ToSet(waiting) \subseteq Raw /\ ToSet(processing) \subseteq Raw /\ retry \subseteq Raw /\ ToSet(dead) \subseteq Raw
    BY <1>a, FreshIsRaw DEF ToSet
  <2>7. \A v \in Workers : pc[v] \in {"drainPush", "run", "ack", "fail", "failPush"} => hand[v] \in Raw
    BY <1>0, FreshIsRaw DEF TInv, Loop
  <2>8. DeadLetterEarned'
    <3> SUFFICES ASSUME NEW raw \in ToSet(dead)
                 PROVE  raw.attempts = MaxRetry + 1 /\ failures'[raw.id] >= MaxRetry + 1
      BY <1>13 DEF DispatchFail, redis, DeadLetterEarned
    <3>1. raw.attempts = MaxRetry + 1 /\ failures[raw.id] >= MaxRetry + 1 /\ raw.id \in Jobs
      BY <1>0, <2>4, <2>6 DEF DeadLetterEarned
    <3> QED
      BY <3>1, <2>2, <1>0
  <2>9. ASSUME NEW v \in Workers, pc'[v] \in {"drainPush", "run", "ack", "failPush"}
        PROVE  Charged(hand[v])'
    <3>1. pc[v] = pc'[v]
      BY <2>9, <1>a, <1>13 DEF DispatchFail, Goto
    <3> QED
      BY <3>1, <2>9, <2>5, <2>7, <1>0, <1>13 DEF DispatchFail, Budget, Charged
  <2>10. ASSUME NEW v \in Workers, pc'[v] = "fail"
         PROVE  hand[v].attempts + 1 <= failures'[hand[v].id]
    <3>1. CASE v = w
      BY <3>1, <2>1, <2>3, <1>a DEF Charged, Fresh
    <3>2. CASE v # w
      <4>1. pc[v] = "fail" /\ hand[v] \in Raw
        BY <3>2, <2>10, <2>7, <1>a, <1>13 DEF DispatchFail, Goto
      <4>2. hand[v].attempts + 1 <= failures[hand[v].id]
        BY <4>1, <1>0 DEF Budget
      <4> QED
        BY <4>1, <4>2, <2>2, <2>4
    <3> QED
      BY <3>1, <3>2
  <2>11. \A raw \in ToSet(waiting') \union ToSet(processing') \union retry' : Charged(raw)'
    BY <2>5, <2>6, <1>0, <1>13 DEF DispatchFail, redis, Budget, Charged
  <2>12. hand' = hand
    BY <1>13 DEF DispatchFail
  <2> QED
    BY <2>8, <2>9, <2>10, <2>11, <2>12 DEF Budget
<1>14. ASSUME NEW w \in Workers, Acknowledge(w) PROVE Budget' /\ DeadLetterEarned'
  <2>1. ToSet(processing') \subseteq ToSet(processing)
    BY <1>14, <1>a, RemoveFirstKeeps DEF Acknowledge
  <2> QED
    BY <1>0, <1>a, <1>14, <2>1
    DEF Acknowledge, Take, Goto, history, Budget, DeadLetterEarned, Charged
<1>15. ASSUME NEW w \in Workers, FailRemove(w) PROVE Budget' /\ DeadLetterEarned'
  <2>1. ToSet(processing') \subseteq ToSet(processing)
    BY <1>15, <1>a, RemoveFirstKeeps DEF FailRemove
  <2>2. hand[w] \in Fresh /\ hand[w].attempts + 1 <= failures[hand[w].id]
    BY <1>0, <1>15 DEF FailRemove, TInv, Loop, Budget
  <2>3. /\ hand'[w].id = hand[w].id /\ hand'[w].attempts = hand[w].attempts + 1
        /\ \A v \in Workers \ {w} : hand'[v] = hand[v]
    BY <1>a, <1>15, <2>2 DEF FailRemove, Fresh
  <2> QED
    BY <1>0, <1>a, <1>15, <2>1, <2>2, <2>3
    DEF FailRemove, Goto, history, Budget, DeadLetterEarned, Charged
<1>16. ASSUME NEW w \in Workers, ScheduleRetry(w) PROVE Budget' /\ DeadLetterEarned'
  BY <1>0, <1>a, <1>16 DEF ScheduleRetry, Take, Goto, history, Budget, DeadLetterEarned, Charged
<1>17. ASSUME NEW w \in Workers, DeadLetter(w) PROVE Budget' /\ DeadLetterEarned'
  <2>1. hand[w] \in Raw /\ hand[w].attempts > MaxRetry /\ Charged(hand[w])
    BY <1>0, <1>17 DEF DeadLetter, TInv, Loop, Budget
  <2>2. hand[w].attempts = MaxRetry + 1 /\ hand[w].id \in Jobs
    BY <1>0, <2>1 DEF Raw
  <2>3. failures[hand[w].id] >= MaxRetry + 1
    BY <1>0, <1>a, <2>1, <2>2 DEF Charged
  <2>4. ToSet(dead') = ToSet(dead) \union {hand[w]}
    BY <1>17, <2>1, <1>a, AppendKeeps DEF DeadLetter
  <2> QED
    BY <1>0, <1>a, <1>17, <2>2, <2>3, <2>4
    DEF DeadLetter, Take, Goto, history, Budget, DeadLetterEarned, Charged
<1>18. ASSUME NEW w \in Workers, Stop(w) PROVE Budget' /\ DeadLetterEarned'
  BY <1>0, <1>a, <1>18 DEF Stop, Goto, redis, history, Budget, DeadLetterEarned, Charged
<1>19. ASSUME NEW w \in Workers, Crash(w) PROVE Budget' /\ DeadLetterEarned'
  BY <1>0, <1>a, <1>19 DEF Crash, Take, Goto, redis, history, Budget, DeadLetterEarned, Charged
<1>20. ASSUME UNCHANGED vars PROVE Budget' /\ DeadLetterEarned'
  BY <1>0, <1>20 DEF vars, redis, history, Budget, DeadLetterEarned, Charged
<1> QED
  BY <1>1, <1>2, <1>3, <1>4, <1>5, <1>6, <1>7, <1>8, <1>9, <1>10, <1>11,
     <1>12, <1>13, <1>14, <1>15, <1>16, <1>17, <1>18, <1>19, <1>20
  DEF Next, WorkerStep, Handle

(* Whatever restarts, crashes and concurrent workers do, the dead letter   *)
(* list of fail_or_retry_job holds only jobs that failed MaxRetry + 1      *)
(* times.                                                                  *)
THEOREM DeadLettersAreEarned == Spec => []DeadLetterEarned
<1>1. Spec => []DInv
  BY DInvInit, DInvStep, PTL DEF Spec
<1>2. DInv => DeadLetterEarned
  BY DEF DInv
<1> QED
  BY <1>1, <1>2, PTL

-----------------------------------------------------------------------------
(* No job vanishes.  The invariant adds what makes an acknowledgement      *)
(* safe: the job in the hand of a worker that acknowledges has succeeded.  *)
AckIsSuccess == \A w \in Workers : pc[w] = "ack" => hand[w].id \in succeeded

VInv == TInv /\ AckIsSuccess /\ NoJobVanishes

Somewhere == Stored \union HeldInWindow

(* A step keeps the jobs when each one that was somewhere still is, with   *)
(* whatever attempt count, or has succeeded.                               *)
Kept == \A raw \in Somewhere :
          raw.id \in succeeded' \/ \E copy \in Somewhere' : copy.id = raw.id

(* A step that enqueues nothing and keeps the jobs drops none. *)
LEMMA KeptSuffices ==
  ASSUME NoJobVanishes, ToSet(arrivals') = ToSet(arrivals),
         succeeded \subseteq succeeded', Kept
  PROVE  NoJobVanishes'
<1> SUFFICES ASSUME NEW j \in ToSet(arrivals) \ succeeded'
             PROVE  \E copy \in Somewhere' : copy.id = j
  BY DEF NoJobVanishes, Somewhere
<1>1. PICK raw \in Somewhere : raw.id = j
  BY DEF NoJobVanishes, Somewhere
<1> QED
  BY <1>1 DEF Kept

(* Nothing has been enqueued at the start. *)
LEMMA VInvInit == Init => VInv
<1> SUFFICES ASSUME Init PROVE VInv
  OBVIOUS
<1>1. ToSet(arrivals) = {}
  BY DEF Init, ToSet
<1> QED
  BY <1>1, TInvInit DEF Init, VInv, AckIsSuccess, NoJobVanishes

(* Every command either stores the job before it gives up the other copy,  *)
(* or holds it in a window, or removes a job that succeeded; a process     *)
(* that dies outside the windows holds nothing that redis does not.        *)
LEMMA VInvStep ==
  ASSUME CrashPoints \intersect Windows = {}
  PROVE  VInv /\ [Next]_vars => VInv'
<1> SUFFICES ASSUME VInv, [Next]_vars PROVE AckIsSuccess' /\ NoJobVanishes'
  BY TInvStep DEF VInv
<1>0. TInv /\ AckIsSuccess /\ NoJobVanishes
  BY DEF VInv
<1>a. /\ waiting \in Seq(Fresh) /\ processing \in Seq(Fresh) /\ dead \in Seq(Raw)
      /\ retry \subseteq Fresh /\ arrivals \in Seq(Jobs)
      /\ pc \in [Workers -> Places] /\ hand \in [Workers -> Raw \union {None}]
  BY <1>0 DEF TInv, Lists, Loop, History
<1> USE DEF Windows
<1>1. ASSUME NEW j \in Jobs, Enqueue(j) PROVE AckIsSuccess' /\ NoJobVanishes'
  <2> DEFINE raw == [id |-> j, attempts |-> 0]
  <2>1. raw \in Fresh
    BY QueueAssumption DEF Fresh
  <2>2. /\ ToSet(waiting') = ToSet(waiting) \union {raw}
        /\ ToSet(arrivals') = ToSet(arrivals) \union {j}
    BY <1>1, <2>1, <1>a, AppendKeeps DEF Enqueue
  <2>3. HeldInWindow' = HeldInWindow /\ Stored' = Stored \union {raw}
    BY <1>1, <2>2 DEF Enqueue, HeldInWindow, Stored
  <2>4. raw.id = j
    OBVIOUS
  <2> HIDE DEF raw
  <2>5. NoJobVanishes'
    BY <1>0, <1>1, <2>2, <2>3, <2>4 DEF Enqueue, NoJobVanishes
  <2> QED
    BY <1>0, <1>1, <2>5 DEF Enqueue, AckIsSuccess
<1>2. ASSUME NEW raw \in retry, BecomeDue(raw) PROVE AckIsSuccess' /\ NoJobVanishes'
  BY <1>0, <1>2
  DEF BecomeDue, history, AckIsSuccess, NoJobVanishes, Stored, HeldInWindow
<1>3. ASSUME NEW w \in Workers, Start(w) \/ RecoverDone(w) \/ DrainScan(w)
               \/ DrainDone(w) \/ ReserveTimeout(w) \/ Stop(w)
      PROVE  AckIsSuccess' /\ NoJobVanishes'
  <2>1. /\ UNCHANGED <<redis, hand, history>>
        /\ \E place \in {"recover", "poll", "drain", "reserve", "down"} :
             pc[w] \notin Windows /\ pc' = [pc EXCEPT ![w] = place]
    BY <1>3 DEF Start, RecoverDone, DrainScan, DrainDone, ReserveTimeout, Stop, Goto
  <2>2. \A raw \in HeldInWindow : raw \in HeldInWindow'
    BY <2>1, <1>a DEF HeldInWindow
  <2>3. Kept
    BY <2>1, <2>2 DEF redis, Kept, Somewhere, Stored
  <2>4. NoJobVanishes'
    BY <1>0, <2>1, <2>3, KeptSuffices DEF history
  <2> QED
    BY <1>0, <1>a, <2>1, <2>4 DEF history, AckIsSuccess
<1>4. ASSUME NEW w \in Workers, RecoverOne(w) PROVE AckIsSuccess' /\ NoJobVanishes'
  <2>1. /\ Head(processing) \in Fresh
        /\ ToSet(processing) = ToSet(processing') \union {Head(processing)}
    BY <1>4, <1>a, TailKeeps DEF RecoverOne
  <2>2. ToSet(waiting') = ToSet(waiting) \union {Head(processing)}
    BY <1>4, <2>1, <1>a, AppendKeeps DEF RecoverOne
  <2>3. Somewhere \subseteq Somewhere'
    BY <1>4, <2>1, <2>2 DEF RecoverOne, Somewhere, Stored, HeldInWindow
  <2>4. NoJobVanishes'
    BY <1>0, <1>4, <2>3, KeptSuffices DEF RecoverOne, history, Kept
  <2> QED
    BY <1>0, <1>4, <2>4 DEF RecoverOne, history, AckIsSuccess
<1>5. ASSUME NEW w \in Workers, DrainRemove(w) PROVE AckIsSuccess' /\ NoJobVanishes'
  <2>1. PICK raw \in batch[w] :
          /\ retry' = retry \ {raw}
          /\ IF raw \in retry
             THEN Take(w, raw) /\ Goto(w, "drainPush")
             ELSE UNCHANGED <<hand, pc>>
    BY <1>5 DEF DrainRemove
  <2>2. UNCHANGED <<waiting, processing, dead, history>> /\ pc[w] = "drain"
    BY <1>5 DEF DrainRemove
  <2>3. CASE raw \in retry
    <3>1. raw \in HeldInWindow' /\ HeldInWindow \subseteq HeldInWindow'
      BY <2>1, <2>2, <2>3, <1>a DEF Take, Goto, HeldInWindow
    <3> QED
      BY <2>1, <2>2, <3>1, <1>0, <1>a, KeptSuffices
      DEF Take, Goto, history, Kept, Somewhere, Stored, AckIsSuccess
  <2>4. CASE raw \notin retry
    BY <2>1, <2>2, <2>4, <1>0
    DEF history, NoJobVanishes, Stored, HeldInWindow, AckIsSuccess
  <2> QED
    BY <2>3, <2>4
<1>6. ASSUME NEW w \in Workers, DrainPush(w) PROVE AckIsSuccess' /\ NoJobVanishes'
  <2>1. hand[w] \in Fresh
    BY <1>0, <1>6 DEF DrainPush, TInv, Loop
  <2>2. ToSet(waiting') = ToSet(waiting) \union {hand[w]}
    BY <1>6, <2>1, <1>a, AppendKeeps DEF DrainPush
  <2>3. HeldInWindow \subseteq HeldInWindow' \union {hand[w]}
    BY <1>6, <1>a DEF DrainPush, Take, Goto, HeldInWindow
  <2>4. Somewhere \subseteq Somewhere'
    BY <1>6, <2>2, <2>3 DEF DrainPush, Somewhere, Stored
  <2>5. NoJobVanishes'
    BY <1>0, <1>6, <2>4, KeptSuffices DEF DrainPush, history, Kept
  <2> QED
    BY <1>0, <1>a, <1>6, <2>5 DEF DrainPush, Take, Goto, history, AckIsSuccess
<1>7. ASSUME NEW w \in Workers, Reserve(w) PROVE AckIsSuccess' /\ NoJobVanishes'
  <2> DEFINE raw == Head(waiting)
  <2>1. raw \in Fresh /\ ToSet(waiting) = ToSet(waiting') \union {raw}
    BY <1>7, <1>a, TailKeeps DEF Reserve
  <2>2. ToSet(processing') = ToSet(processing) \union {raw}
    BY <1>7, <2>1, <1>a, AppendKeeps DEF Reserve
  <2>3. hand' = [hand EXCEPT ![w] = raw]
    BY <1>7 DEF Reserve, Take
  <2> HIDE DEF raw
  <2>4. HeldInWindow \subseteq HeldInWindow'
    BY <1>7, <1>a, <2>3 DEF Reserve, Goto, HeldInWindow
  <2>5. Somewhere \subseteq Somewhere'
    BY <1>7, <2>1, <2>2, <2>4 DEF Reserve, Somewhere, Stored
  <2>6. NoJobVanishes'
    BY <1>0, <1>7, <2>5, KeptSuffices DEF Reserve, Kept
  <2> QED
    BY <1>0, <1>a, <1>7, <2>3, <2>6 DEF Reserve, Goto, AckIsSuccess
<1>8. ASSUME NEW w \in Workers, Handle(w) PROVE AckIsSuccess' /\ NoJobVanishes'
  <2>1. /\ UNCHANGED <<redis, hand, arrivals>> /\ pc[w] = "run"
        /\ \/ pc' = [pc EXCEPT ![w] = "ack"] /\ succeeded' = succeeded \union {hand[w].id}
           \/ pc' = [pc EXCEPT ![w] = "fail"] /\ succeeded' = succeeded
    BY <1>8 DEF Handle, DispatchOk, DispatchFail, Goto
  <2>2. HeldInWindow \subseteq HeldInWindow'
    BY <1>a, <2>1 DEF HeldInWindow
  <2>3. Somewhere \subseteq Somewhere'
    BY <2>1, <2>2 DEF redis, Somewhere, Stored
  <2>4. NoJobVanishes'
    BY <1>0, <2>1, <2>3, KeptSuffices DEF Kept
  <2> QED
    BY <1>0, <1>a, <2>1, <2>4 DEF AckIsSuccess
<1>9. ASSUME NEW w \in Workers, Acknowledge(w) PROVE AckIsSuccess' /\ NoJobVanishes'
  <2>1. ToSet(processing) \subseteq ToSet(processing') \union {hand[w]}
    BY <1>9, <1>a, RemoveFirstKeeps DEF Acknowledge
  <2>2. HeldInWindow \subseteq HeldInWindow'
    BY <1>9, <1>a DEF Acknowledge, Take, Goto, HeldInWindow
  <2>3. hand[w].id \in succeeded
    BY <1>0, <1>9 DEF Acknowledge, AckIsSuccess
  <2>4. Kept
    BY <1>9, <2>1, <2>2, <2>3 DEF Acknowledge, history, Kept, Somewhere, Stored
  <2>5. NoJobVanishes'
    BY <1>0, <1>9, <2>4, KeptSuffices DEF Acknowledge, history
  <2> QED
    BY <1>0, <1>a, <1>9, <2>5 DEF Acknowledge, Take, Goto, history, AckIsSuccess
<1>10. ASSUME NEW w \in Workers, FailRemove(w) PROVE AckIsSuccess' /\ NoJobVanishes'
  <2>1. ToSet(processing) \subseteq ToSet(processing') \union {hand[w]}
    BY <1>10, <1>a, RemoveFirstKeeps DEF FailRemove
  <2>2. hand[w] \in Fresh
    BY <1>0, <1>10 DEF FailRemove, TInv, Loop
  <2>3. hand'[w].id = hand[w].id /\ \A v \in Workers \ {w} : hand'[v] = hand[v]
    BY <1>10, <1>a, <2>2 DEF FailRemove, Fresh
  <2>4. pc[w] = "fail" /\ pc' = [pc EXCEPT ![w] = "failPush"]
    BY <1>10 DEF FailRemove, Goto
  <2>5. HeldInWindow \subseteq HeldInWindow' /\ hand'[w] \in HeldInWindow'
    BY <2>3, <2>4, <1>a DEF HeldInWindow
  <2>6. Kept
    BY <1>10, <2>1, <2>3, <2>5 DEF FailRemove, history, Kept, Somewhere, Stored
  <2>7. NoJobVanishes'
    BY <1>0, <1>10, <2>6, KeptSuffices DEF FailRemove, history
  <2> QED
    BY <1>0, <1>a, <1>10, <2>3, <2>4, <2>7 DEF FailRemove, history, AckIsSuccess
<1>11. ASSUME NEW w \in Workers, ScheduleRetry(w) PROVE AckIsSuccess' /\ NoJobVanishes'
  <2>1. HeldInWindow \subseteq HeldInWindow' \union {hand[w]}
    BY <1>11, <1>a DEF ScheduleRetry, Take, Goto, HeldInWindow
  <2>2. Somewhere \subseteq Somewhere'
    BY <1>11, <2>1 DEF ScheduleRetry, Somewhere, Stored
  <2>3. NoJobVanishes'
    BY <1>0, <1>11, <2>2, KeptSuffices DEF ScheduleRetry, history, Kept
  <2> QED
    BY <1>0, <1>a, <1>11, <2>3 DEF ScheduleRetry, Take, Goto, history, AckIsSuccess
<1>12. ASSUME NEW w \in Workers, DeadLetter(w) PROVE AckIsSuccess' /\ NoJobVanishes'
  <2>1. hand[w] \in Raw
    BY <1>0, <1>12 DEF DeadLetter, TInv, Loop
  <2>2. ToSet(dead') = ToSet(dead) \union {hand[w]}
    BY <1>12, <2>1, <1>a, AppendKeeps DEF DeadLetter
  <2>3. HeldInWindow \subseteq HeldInWindow' \union {hand[w]}
    BY <1>12, <1>a DEF DeadLetter, Take, Goto, HeldInWindow
  <2>4. Somewhere \subseteq Somewhere'
    BY <1>12, <2>2, <2>3 DEF DeadLetter, Somewhere, Stored
  <2>5. NoJobVanishes'
    BY <1>0, <1>12, <2>4, KeptSuffices DEF DeadLetter, history, Kept
  <2> QED
    BY <1>0, <1>a, <1>12, <2>5 DEF DeadLetter, Take, Goto, history, AckIsSuccess
<1>13. ASSUME NEW w \in Workers, Crash(w) PROVE AckIsSuccess' /\ NoJobVanishes'
  <2>1. pc[w] \notin Windows /\ pc' = [pc EXCEPT ![w] = "down"]
        /\ hand' = [hand EXCEPT ![w] = None]
    BY <1>13 DEF Crash, Goto, Take
  <2>2. HeldInWindow \subseteq HeldInWindow'
    BY <2>1, <1>a DEF HeldInWindow
  <2>3. Somewhere \subseteq Somewhere'
    BY <1>13, <2>2 DEF Crash, redis, Somewhere, Stored
  <2>4. NoJobVanishes'
    BY <1>0, <1>13, <2>3, KeptSuffices DEF Crash, history, Kept
  <2> QED
    BY <1>0, <1>a, <1>13, <2>1, <2>4 DEF Crash, history, AckIsSuccess
<1>14. ASSUME UNCHANGED vars PROVE AckIsSuccess' /\ NoJobVanishes'
  BY <1>0, <1>14 DEF vars, redis, history, AckIsSuccess, NoJobVanishes, Stored, HeldInWindow
<1> QED
  BY <1>1, <1>2, <1>3, <1>4, <1>5, <1>6, <1>7, <1>8, <1>9, <1>10, <1>11,
     <1>12, <1>13, <1>14
  DEF Next, WorkerStep

(* If no process dies between the two commands of fail_or_retry_job or of  *)
(* drain_retry_queue, then no enqueued job is ever dropped, for any number *)
(* of workers, restarts and crashes elsewhere.                             *)
THEOREM JobsNeverVanish ==
  ASSUME CrashPoints \intersect Windows = {}
  PROVE  Spec => []NoJobVanishes
<1>1. Spec => []VInv
  BY VInvInit, VInvStep, PTL DEF Spec
<1>2. VInv => NoJobVanishes
  BY DEF VInv
<1> QED
  BY <1>1, <1>2, PTL

-----------------------------------------------------------------------------
(* First deliveries. *)

(* Outside the waiting list a job has been delivered before. *)
Tried ==
  /\ \A raw \in ToSet(processing) \union retry : deliveries[raw.id] > 0
  /\ \A w \in Workers : hand[w] # None => deliveries[hand[w].id] > 0

(* A job arrives once, before anything else happens to it. *)
Arrived ==
  /\ \A i, k \in DOMAIN arrivals : arrivals[i] = arrivals[k] => i = k
  /\ \A raw \in ToSet(waiting) : raw.id \in ToSet(arrivals)
  /\ \A j \in Jobs : deliveries[j] > 0 => j \in ToSet(arrivals)

Untried(i) == i \in DOMAIN arrivals /\ deliveries[arrivals[i]] = 0

(* The jobs that were not tried yet wait in the order of their arrival,    *)
(* whatever lies between them.                                             *)
UntriedInOrder ==
  /\ \A i \in DOMAIN arrivals :
       Untried(i) => \E p \in DOMAIN waiting : waiting[p].id = arrivals[i]
  /\ \A i, k \in DOMAIN arrivals : \A q \in DOMAIN waiting :
       i < k /\ Untried(i) /\ Untried(k) /\ waiting[q].id = arrivals[k]
         => \E p \in DOMAIN waiting : p < q /\ waiting[p].id = arrivals[i]

OInv == TInv /\ Tried /\ Arrived /\ UntriedInOrder /\ FirstDeliveryInOrder

-----------------------------------------------------------------------------
(* One worker. *)

OneEach(list) == \A i, k \in DOMAIN list : list[i].id = list[k].id => i = k
Apart(S, T)   == \A a \in S, b \in T : a.id # b.id

(* In no place a job twice, ... *)
Single ==
  /\ OneEach(waiting) /\ OneEach(processing) /\ OneEach(dead)
  /\ \A a, b \in retry : a.id = b.id => a = b

(* ... and in no two places. *)
Separate ==
  /\ Apart(ToSet(waiting), ToSet(processing) \union ToSet(dead) \union retry \union HeldInWindow)
  /\ Apart(ToSet(processing), ToSet(dead) \union retry \union HeldInWindow)
  /\ Apart(ToSet(dead), retry \union HeldInWindow)
  /\ Apart(retry, HeldInWindow)

(* What a worker that has recovered is about is all there is in the        *)
(* processing list.                                                        *)
InHand ==
  \A w \in Workers :
    /\ pc[w] \in {"run", "ack", "fail"} => processing = <<hand[w]>>
    /\ pc[w] \in {"poll", "drain", "drainPush", "reserve", "failPush"}
         => processing = <<>>

(* Only what arrived is anywhere. *)
Known == \A raw \in Somewhere : raw.id \in ToSet(arrivals)

SInv == TInv /\ Single /\ Separate /\ InHand /\ Known

(* A job that waits for a delivery, or whose delivery is over, has had no  *)
(* more of them than failures and restarts.                                *)
Paid(raw) == deliveries[raw.id] <= failures[raw.id] + restarts

Causes ==
  /\ \A j \in Jobs \ ToSet(arrivals) : deliveries[j] = 0
  /\ \A raw \in ToSet(waiting) \union retry \union HeldInWindow : Paid(raw)
  /\ \A w \in Workers : pc[w] \in {"down", "recover", "fail"}
                          => \A raw \in ToSet(processing) : Paid(raw)

-----------------------------------------------------------------------------
(* First deliveries keep the order of arrival. *)

(* Nothing has arrived at the start. *)
LEMMA OInvInit == Init => OInv
<1> SUFFICES ASSUME Init PROVE OInv
  OBVIOUS
<1>1. ToSet(waiting) = {} /\ ToSet(processing) = {} /\ DOMAIN arrivals = {}
  BY DEF Init, ToSet
<1> QED
  BY <1>1, TInvInit DEF Init, OInv, Tried, Arrived, UntriedInOrder, FirstDeliveryInOrder

(* A job that was tried before goes to the end of the waiting list. *)
LEMMA OldJobWaits ==
  ASSUME TInv, Arrived, UntriedInOrder, FirstDeliveryInOrder,
         NEW raw \in Fresh, deliveries[raw.id] > 0,
         waiting' = Append(waiting, raw), UNCHANGED <<arrivals, deliveries>>
  PROVE  Arrived' /\ UntriedInOrder' /\ FirstDeliveryInOrder'
<1>0. waiting \in Seq(Fresh) /\ raw.id \in Jobs
  BY DEF TInv, Lists, Fresh
<1>1. /\ DOMAIN waiting = 1..Len(waiting) /\ DOMAIN waiting' = 1..Len(waiting) + 1
      /\ Len(waiting) \in Nat
      /\ \A p \in 1..Len(waiting) : waiting'[p] = waiting[p]
      /\ waiting'[Len(waiting) + 1] = raw
  BY <1>0, AppendProperties
<1>2. Arrived'
  BY <1>0, AppendKeeps DEF Arrived
<1>3. \A q \in DOMAIN waiting' : q \in DOMAIN waiting \/ waiting'[q] = raw
  BY <1>1
<1>4. \A p \in DOMAIN waiting : p \in DOMAIN waiting' /\ waiting'[p] = waiting[p]
  BY <1>1
<1>5. UntriedInOrder'
  BY <1>3, <1>4 DEF UntriedInOrder, Untried
<1> QED
  BY <1>2, <1>5 DEF FirstDeliveryInOrder

(* A new job goes there as well, as the latest arrival. *)
LEMMA NewJobWaits ==
  ASSUME OInv, NEW j \in Jobs, Enqueue(j)
  PROVE  Arrived' /\ UntriedInOrder' /\ FirstDeliveryInOrder'
<1> DEFINE raw == [id |-> j, attempts |-> 0]
           n == Len(arrivals) + 1
           m == Len(waiting) + 1
<1>0. /\ waiting \in Seq(Fresh) /\ arrivals \in Seq(Jobs) /\ raw \in Fresh /\ raw.id = j
      /\ deliveries \in [Jobs -> Nat]
      /\ waiting' = Append(waiting, raw) /\ arrivals' = Append(arrivals, j)
      /\ deliveries' = deliveries /\ j \notin ToSet(arrivals)
  BY QueueAssumption DEF OInv, TInv, Lists, History, Fresh, Enqueue
<1>1. /\ DOMAIN waiting = 1..Len(waiting) /\ DOMAIN waiting' = 1..m
      /\ Len(waiting) \in Nat
      /\ \A p \in 1..Len(waiting) : waiting'[p] = waiting[p]
      /\ waiting'[m] = raw
  BY <1>0, AppendProperties
<1>2. /\ DOMAIN arrivals = 1..Len(arrivals) /\ DOMAIN arrivals' = 1..n
      /\ Len(arrivals) \in Nat
      /\ \A i \in 1..Len(arrivals) : arrivals'[i] = arrivals[i]
      /\ arrivals'[n] = j
  BY <1>0, AppendProperties
<1>3. deliveries[j] = 0 /\ \A i \in DOMAIN arrivals : arrivals[i] # j /\ arrivals[i] \in Jobs
  <2>1. deliveries[j] = 0
    BY <1>0 DEF OInv, Arrived
  <2> QED
    BY <1>0, <2>1 DEF ToSet
<1>4. \A p \in DOMAIN waiting : waiting[p].id # j
  BY <1>0 DEF OInv, Arrived, ToSet
<1> HIDE DEF raw
<1>5. Arrived'
  <2>1. ToSet(waiting') = ToSet(waiting) \union {raw} /\ ToSet(arrivals') = ToSet(arrivals) \union {j}
    BY <1>0, AppendKeeps
  <2>2. \A i, k \in DOMAIN arrivals' : arrivals'[i] = arrivals'[k] => i = k
    BY <1>2, <1>3 DEF OInv, Arrived
  <2> QED
    BY <1>0, <2>1, <2>2 DEF OInv, Arrived
<1>6. /\ \A p \in DOMAIN waiting : p \in DOMAIN waiting' /\ waiting'[p] = waiting[p] /\ p < m
      /\ \A q \in DOMAIN waiting' : q \in DOMAIN waiting \/ q = m
      /\ m \in DOMAIN waiting' /\ m \notin DOMAIN waiting /\ waiting'[m].id = j
  BY <1>0, <1>1
<1>7. /\ \A i \in DOMAIN arrivals : /\ i \in DOMAIN arrivals' /\ arrivals'[i] = arrivals[i]
                                    /\ i < n
      /\ \A k \in DOMAIN arrivals' : k \in DOMAIN arrivals \/ k = n
      /\ n \in DOMAIN arrivals' /\ arrivals'[n] = j
      /\ \A i \in DOMAIN arrivals' : ~ (n < i)
  BY <1>2
<1> HIDE DEF n, m
<1>8. \A i \in DOMAIN arrivals : Untried(i)' <=> Untried(i)
  BY <1>0, <1>7 DEF Untried
<1>9. UntriedInOrder'
  <2>1. ASSUME NEW i \in DOMAIN arrivals', Untried(i)'
        PROVE  \E p \in DOMAIN waiting' : waiting'[p].id = arrivals'[i]
    BY <1>6, <1>7, <1>8, <2>1 DEF OInv, UntriedInOrder
  <2>2. ASSUME NEW i \in DOMAIN arrivals', NEW k \in DOMAIN arrivals',
               NEW q \in DOMAIN waiting', i < k, Untried(i)', Untried(k)',
               waiting'[q].id = arrivals'[k]
        PROVE  \E p \in DOMAIN waiting' : p < q /\ waiting'[p].id = arrivals'[i]
    <3>1. i \in DOMAIN arrivals /\ Untried(i) /\ arrivals'[i] = arrivals[i]
      BY <1>7, <1>8, <2>2
    <3>2. CASE q = m
      <4>1. PICK p \in DOMAIN waiting : waiting[p].id = arrivals[i]
        BY <3>1 DEF OInv, UntriedInOrder
      <4> QED
        BY <1>6, <3>1, <3>2, <4>1
    <3>3. CASE q \in DOMAIN waiting
      <4>1. k # n
        BY <1>4, <1>6, <1>7, <2>2, <3>3
      <4>2. k \in DOMAIN arrivals /\ Untried(k) /\ waiting[q].id = arrivals[k]
        BY <1>6, <1>7, <1>8, <2>2, <3>3, <4>1
      <4>3. PICK p \in DOMAIN waiting : p < q /\ waiting[p].id = arrivals[i]
        BY <2>2, <3>1, <3>3, <4>2 DEF OInv, UntriedInOrder
      <4> QED
        BY <1>6, <3>1, <4>3
    <3> QED
      BY <1>6, <3>2, <3>3
  <2> QED
    BY <2>1, <2>2 DEF UntriedInOrder
<1>10. FirstDeliveryInOrder'
  <2>1. ASSUME NEW i \in DOMAIN arrivals', NEW k \in DOMAIN arrivals', i < k,
               deliveries[arrivals'[k]] > 0
        PROVE  deliveries[arrivals'[i]] > 0
    <3>1. k # n
      BY <1>3, <1>7, <2>1
    <3>2. i \in DOMAIN arrivals /\ k \in DOMAIN arrivals
      BY <1>7, <2>1, <3>1
    <3> QED
      BY <1>7, <2>1, <3>2 DEF OInv, FirstDeliveryInOrder
  <2> QED
    BY <1>0, <2>1 DEF FirstDeliveryInOrder
<1> QED
  BY <1>5, <1>9, <1>10

(* The head of the waiting list is the first of the jobs not tried yet, or *)
(* was tried before.                                                       *)
LEMMA HeadIsDelivered ==
  ASSUME OInv, NEW w \in Workers, Reserve(w)
  PROVE  Tried' /\ Arrived' /\ UntriedInOrder' /\ FirstDeliveryInOrder'
<1> DEFINE raw == Head(waiting)
<1>0. /\ waiting \in Seq(Fresh) /\ waiting # <<>> /\ processing \in Seq(Fresh)
      /\ retry \subseteq Fresh /\ arrivals \in Seq(Jobs) /\ deliveries \in [Jobs -> Nat]
      /\ hand \in [Workers -> Raw \union {None}]
      /\ waiting' = Tail(waiting) /\ arrivals' = arrivals /\ retry' = retry
      /\ processing' = Append(processing, raw) /\ hand' = [hand EXCEPT ![w] = raw]
      /\ deliveries' = [deliveries EXCEPT ![raw.id] = @ + 1]
  BY DEF OInv, TInv, Lists, Loop, History, Reserve, Take
<1>1. /\ raw \in Fresh /\ raw = waiting[1] /\ Len(waiting) \in Nat \ {0}
      /\ DOMAIN waiting = 1..Len(waiting) /\ DOMAIN waiting' = 1..Len(waiting) - 1
      /\ \A p \in 1..Len(waiting) - 1 : waiting'[p] = waiting[p + 1]
  BY <1>0, HeadTailProperties
<1> HIDE DEF raw
<1>2. raw.id \in Jobs
  BY <1>1 DEF Fresh
<1>3. /\ \A j \in Jobs : j # raw.id => deliveries'[j] = deliveries[j]
      /\ deliveries'[raw.id] = deliveries[raw.id] + 1 /\ deliveries'[raw.id] > 0
      /\ \A j \in Jobs : deliveries[j] > 0 => deliveries'[j] > 0
  BY <1>0, <1>2
<1>4. Tried'
  <2>1. \A r \in ToSet(processing) \union retry \union {raw} : r.id \in Jobs /\ deliveries'[r.id] > 0
    <3>1. ToSet(processing) \subseteq Fresh
      BY <1>0 DEF ToSet
    <3> QED
      BY <1>0, <1>1, <1>3, <3>1 DEF OInv, Tried, Fresh
  <2>2. ToSet(processing') = ToSet(processing) \union {raw}
    BY <1>0, <1>1, AppendKeeps
  <2>3. \A v \in Workers : hand'[v] # None => deliveries'[hand'[v].id] > 0
    BY <1>0, <1>3 DEF OInv, Tried, Raw
  <2> QED
    BY <1>0, <2>1, <2>2, <2>3 DEF Tried
<1>5. Arrived'
  <2>1. raw \in ToSet(waiting) /\ ToSet(waiting') \subseteq ToSet(waiting)
    BY <1>0, <1>1, TailKeeps DEF raw
  <2> QED
    BY <1>0, <1>3, <2>1 DEF OInv, Arrived
<1>6. /\ \A i \in DOMAIN arrivals : arrivals[i] \in Jobs
      /\ \A i \in DOMAIN arrivals : Untried(i)' => Untried(i) /\ arrivals[i] # raw.id
      /\ \A i \in DOMAIN arrivals : Untried(i) <=> ~ (deliveries[arrivals[i]] > 0)
      /\ DOMAIN arrivals = 1..Len(arrivals) /\ Len(arrivals) \in Nat
  <2>1. \A i \in DOMAIN arrivals : arrivals[i] \in Jobs
    BY <1>0
  <2> QED
    BY <1>0, <1>3, <2>1 DEF Untried
<1>7. UntriedInOrder'
  <2>1. ASSUME NEW i \in DOMAIN arrivals, Untried(i)', NEW p \in DOMAIN waiting,
               waiting[p].id = arrivals[i]
        PROVE  p - 1 \in DOMAIN waiting' /\ waiting'[p - 1] = waiting[p] /\ p # 1
    <3>1. p # 1
      BY <1>1, <1>6, <2>1
    <3> QED
      BY <1>1, <3>1
  <2>2. ASSUME NEW i \in DOMAIN arrivals, Untried(i)'
        PROVE  \E p \in DOMAIN waiting' : waiting'[p].id = arrivals[i]
    <3>1. PICK p \in DOMAIN waiting : waiting[p].id = arrivals[i]
      BY <1>6, <2>2 DEF OInv, UntriedInOrder
    <3> QED
      BY <2>1, <2>2, <3>1
  <2>3. ASSUME NEW i \in DOMAIN arrivals, NEW k \in DOMAIN arrivals,
               NEW q \in DOMAIN waiting', i < k, Untried(i)', Untried(k)',
               waiting'[q].id = arrivals[k]
        PROVE  \E p \in DOMAIN waiting' : p < q /\ waiting'[p].id = arrivals[i]
    <3>1. q + 1 \in DOMAIN waiting /\ waiting[q + 1].id = arrivals[k]
      BY <1>1, <2>3
    <3>2. PICK p \in DOMAIN waiting : p < q + 1 /\ waiting[p].id = arrivals[i]
      BY <1>6, <2>3, <3>1 DEF OInv, UntriedInOrder
    <3>3. p - 1 < q
      BY <1>1, <2>3, <3>1, <3>2
    <3> QED
      BY <2>1, <2>3, <3>2, <3>3
  <2> QED
    BY <1>0, <2>2, <2>3 DEF UntriedInOrder
<1>8. FirstDeliveryInOrder'
  <2> SUFFICES ASSUME NEW i \in DOMAIN arrivals, NEW k \in DOMAIN arrivals, i < k,
                      deliveries'[arrivals[k]] > 0
               PROVE  deliveries'[arrivals[i]] > 0
    BY <1>0 DEF FirstDeliveryInOrder
  <2>1. CASE deliveries[arrivals[k]] > 0
    BY <1>3, <1>6, <2>1 DEF OInv, FirstDeliveryInOrder
  <2>2. CASE ~ (deliveries[arrivals[k]] > 0)
    <3>1. arrivals[k] = raw.id /\ Untried(k)
      BY <1>0, <1>3, <1>6, <2>2
    <3>2. CASE Untried(i)
      <4>1. PICK p \in DOMAIN waiting : p < 1 /\ waiting[p].id = arrivals[i]
        BY <1>1, <3>1, <3>2 DEF OInv, UntriedInOrder
      <4> QED
        BY <1>1, <4>1
    <3> QED
      BY <1>3, <1>6, <3>2
  <2> QED
    BY <2>1, <2>2
<1> QED
  BY <1>4, <1>5, <1>7, <1>8

(* Only the head of the waiting list is delivered, and it is the oldest of   *)
(* the jobs not yet tried.                                                 *)
LEMMA OInvStep == OInv /\ [Next]_vars => OInv'
<1> SUFFICES ASSUME OInv, [Next]_vars PROVE (Tried /\ Arrived /\ UntriedInOrder /\ FirstDeliveryInOrder)'
  BY TInvStep DEF OInv
<1> DEFINE Goal == (Tried /\ Arrived /\ UntriedInOrder /\ FirstDeliveryInOrder)'
<1>0. /\ waiting \in Seq(Fresh) /\ processing \in Seq(Fresh) /\ retry \subseteq Fresh
      /\ hand \in [Workers -> Raw \union {None}]
      /\ \A w \in Workers : pc[w] \in {"drainPush", "run", "ack", "fail"} => hand[w] \in Fresh
      /\ \A w \in Workers : pc[w] = "failPush" => hand[w] \in Raw
      /\ None \notin Raw /\ Fresh \subseteq Raw
  BY NoneAssumption, FreshIsRaw DEF OInv, TInv, Lists, Loop
(* What has no part in the order of arrival. *)
<1>1. ASSUME UNCHANGED <<waiting, arrivals, deliveries>>, Tried' PROVE Goal
  BY <1>1 DEF OInv, Arrived, UntriedInOrder, Untried, FirstDeliveryInOrder
<1>2. ASSUME NEW j \in Jobs, Enqueue(j) PROVE Goal
  BY <1>2, NewJobWaits DEF Enqueue, OInv, Tried
<1>3. ASSUME NEW w \in Workers, Reserve(w) PROVE Goal
  BY <1>3, HeadIsDelivered
<1>4. ASSUME NEW w \in Workers, RecoverOne(w) PROVE Goal
  <2>1. /\ Head(processing) \in Fresh /\ deliveries[Head(processing).id] > 0
        /\ ToSet(processing') \subseteq ToSet(processing)
    BY <1>0, <1>4, TailKeeps DEF RecoverOne, OInv, Tried
  <2>2. Tried'
    BY <1>4, <2>1 DEF RecoverOne, history, OInv, Tried
  <2> QED
    BY <1>4, <2>1, <2>2, OldJobWaits DEF RecoverOne, history, OInv
<1>5. ASSUME NEW w \in Workers, DrainPush(w) PROVE Goal
  <2>1. hand[w] \in Fresh /\ deliveries[hand[w].id] > 0
    BY <1>0, <1>5 DEF DrainPush, OInv, Tried
  <2>2. Tried'
    BY <1>0, <1>5 DEF DrainPush, Take, history, OInv, Tried
  <2> QED
    BY <1>5, <2>1, <2>2, OldJobWaits DEF DrainPush, history, OInv
<1>6. ASSUME NEW w \in Workers, DrainRemove(w) PROVE Goal
  <2>1. PICK raw \in batch[w] :
          /\ retry' = retry \ {raw}
          /\ IF raw \in retry THEN Take(w, raw) ELSE UNCHANGED hand
    BY <1>6 DEF DrainRemove
  <2>2. Tried'
    BY <1>0, <1>6, <2>1 DEF DrainRemove, Take, history, OInv, Tried
  <2> QED
    BY <1>1, <1>6, <2>2 DEF DrainRemove, history
<1>7. ASSUME NEW w \in Workers, Acknowledge(w) PROVE Goal
  <2>1. ToSet(processing') \subseteq ToSet(processing)
    BY <1>0, <1>7, RemoveFirstKeeps DEF Acknowledge
  <2>2. Tried'
    BY <1>0, <1>7, <2>1 DEF Acknowledge, Take, history, OInv, Tried
  <2> QED
    BY <1>1, <1>7, <2>2 DEF Acknowledge, history
<1>8. ASSUME NEW w \in Workers, FailRemove(w) PROVE Goal
  <2>1. ToSet(processing') \subseteq ToSet(processing)
    BY <1>0, <1>8, RemoveFirstKeeps DEF FailRemove
  <2>2. /\ hand'[w].id = hand[w].id /\ hand[w] # None
        /\ \A v \in Workers \ {w} : hand'[v] = hand[v]
    BY <1>0, <1>8 DEF FailRemove, Fresh
  <2>3. Tried'
    BY <1>8, <2>1, <2>2 DEF FailRemove, history, OInv, Tried
  <2> QED
    BY <1>1, <1>8, <2>3 DEF FailRemove, history
<1>9. ASSUME NEW w \in Workers, ScheduleRetry(w) \/ DeadLetter(w) PROVE Goal
  <2>1. hand[w] # None /\ hand' = [hand EXCEPT ![w] = None]
    BY <1>0, <1>9 DEF ScheduleRetry, DeadLetter, Take
  <2>2. processing' = processing /\ retry' \subseteq retry \union {hand[w]}
    BY <1>9 DEF ScheduleRetry, DeadLetter
  <2>3. UNCHANGED <<waiting, history>>
    BY <1>9 DEF ScheduleRetry, DeadLetter
  <2>4. Tried'
    BY <1>0, <2>1, <2>2, <2>3 DEF history, OInv, Tried
  <2> QED
    BY <1>1, <2>3, <2>4 DEF history
<1>10. ASSUME NEW w \in Workers, Crash(w) PROVE Goal
  <2>1. Tried'
    BY <1>0, <1>10 DEF Crash, Take, redis, history, OInv, Tried
  <2> QED
    BY <1>1, <1>10, <2>1 DEF Crash, redis, history
<1>11. ASSUME NEW w \in Workers,
              \/ Start(w) \/ RecoverDone(w) \/ DrainScan(w) \/ DrainDone(w)
              \/ ReserveTimeout(w) \/ Handle(w) \/ Stop(w)
       PROVE  Goal
  <2>1. UNCHANGED <<redis, hand, arrivals, deliveries>>
    BY <1>11
    DEF Start, RecoverDone, DrainScan, DrainDone, ReserveTimeout, Handle, DispatchOk,
        DispatchFail, Stop, history
  <2> QED
    BY <1>1, <2>1 DEF redis, OInv, Tried
<1>12. ASSUME (\E raw \in retry : BecomeDue(raw)) \/ UNCHANGED vars PROVE Goal
  <2>1. UNCHANGED <<waiting, processing, retry, hand, arrivals, deliveries>>
    BY <1>12 DEF BecomeDue, vars, redis, history
  <2> QED
    BY <1>1, <2>1 DEF OInv, Tried
<1> QED
  BY <1>2, <1>3, <1>4, <1>5, <1>6, <1>7, <1>8, <1>9, <1>10, <1>11, <1>12
  DEF Next, WorkerStep

(* Whatever is retried or recovered, and whoever reserves it, no job is    *)
(* delivered for the first time before one that was enqueued earlier       *)
(* (LPUSH of enqueue_job, BRPOPLPUSH of reserve_job).                      *)
THEOREM FirstDeliveriesKeepTheOrder == Spec => []FirstDeliveryInOrder
<1>1. OInv => FirstDeliveryInOrder
  BY DEF OInv
<1> QED
  BY <1>1, OInvInit, OInvStep, PTL DEF Spec

-----------------------------------------------------------------------------
(* Lists that hold a job once. *)

(* LPUSH of a job that is not in the list. *)
LEMMA AppendOneEach ==
  ASSUME NEW s \in Seq(Raw), NEW e \in Raw, OneEach(s), Apart(ToSet(s), {e})
  PROVE  OneEach(Append(s, e))
<1>1. /\ DOMAIN s = 1..Len(s) /\ Len(s) \in Nat
      /\ DOMAIN Append(s, e) = 1..Len(s) + 1
      /\ \A i \in 1..Len(s) : Append(s, e)[i] = s[i]
      /\ Append(s, e)[Len(s) + 1] = e
  BY AppendProperties
<1>2. \A i \in 1..Len(s) + 1 : i \in 1..Len(s) \/ i = Len(s) + 1
  BY <1>1
<1>3. \A i \in 1..Len(s) : s[i].id # e.id
  BY <1>1 DEF Apart, ToSet
<1> QED
  BY <1>1, <1>2, <1>3 DEF OneEach

(* RPOP of a list with each job once: the job it takes is gone from it. *)
LEMMA TailOneEach ==
  ASSUME NEW s \in Seq(Raw), s # <<>>, OneEach(s)
  PROVE  OneEach(Tail(s)) /\ Apart(ToSet(Tail(s)), {Head(s)})
<1>1. /\ Len(s) \in Nat \ {0} /\ Head(s) = s[1]
      /\ DOMAIN s = 1..Len(s) /\ DOMAIN Tail(s) = 1..Len(s) - 1
      /\ \A i \in 1..Len(s) - 1 : Tail(s)[i] = s[i + 1]
  BY HeadTailProperties
<1>2. \A i \in 1..Len(s) - 1 : i + 1 \in 1..Len(s) /\ i + 1 # 1 /\ 1 \in 1..Len(s)
  BY <1>1
<1>3. Apart(ToSet(Tail(s)), {Head(s)})
  BY <1>1, <1>2 DEF Apart, ToSet, OneEach
<1>4. \A i, k \in 1..Len(s) - 1 : i + 1 = k + 1 => i = k
  BY <1>1
<1>5. OneEach(Tail(s))
  BY <1>1, <1>2, <1>4 DEF OneEach
<1> QED
  BY <1>3, <1>5

(* LREM of the one member. *)
LEMMA RemoveOnly == ASSUME NEW e PROVE RemoveFirst(<<e>>, e) = <<>>
<1> DEFINE s == <<e>>
           I == {i \in 1..Len(s) : s[i] = e}
           k == SelectInSeq(s, LAMBDA v : v = e)
<1>1. Len(s) = 1 /\ s[1] = e /\ I = {1}
  OBVIOUS
<1>2. k = Min(I)
  BY <1>1 DEF SelectInSeq
<1>3. k = 1
  <2> HIDE DEF k, I
  <2>1. k \in {1}
    BY <1>1, <1>2 DEF Min
  <2> QED
    BY <2>1
<1>4. RemoveFirst(s, e) = SubSeq(s, 1, k - 1) \o SubSeq(s, k + 1, Len(s))
  <2>1. \E i \in 1..Len(s) : s[i] = e
    BY <1>1
  <2> HIDE DEF s
  <2> QED
    BY <2>1 DEF RemoveFirst, RemoveAt
<1> HIDE DEF k
<1>5. SubSeq(s, 1, 0) = <<>> /\ SubSeq(s, 2, 1) = <<>>
  OBVIOUS
<1> QED
  BY <1>1, <1>3, <1>4, <1>5

(* What is held in a window when there is one worker. *)
LEMMA OneWindow ==
  ASSUME NEW w, Workers = {w}
  PROVE  HeldInWindow = IF pc[w] \in Windows THEN {hand[w]} ELSE {}
BY DEF HeldInWindow

-----------------------------------------------------------------------------
(* One worker: no job is in two places. *)

(* Every place is empty at the start. *)
LEMMA SInvInit == Init => SInv
<1> SUFFICES ASSUME Init PROVE SInv
  OBVIOUS
<1>1. /\ ToSet(waiting) = {} /\ ToSet(processing) = {} /\ ToSet(dead) = {}
      /\ retry = {} /\ HeldInWindow = {}
  BY DEF Init, ToSet, HeldInWindow, Windows
<1>2. Single /\ InHand
  BY DEF Init, Single, OneEach, InHand
<1> QED
  BY <1>1, <1>2, TInvInit DEF SInv, Separate, Apart, Known, Somewhere, Stored

(* Every command moves the job it is about from one place to another.      *)
LEMMA SInvStep ==
  ASSUME NEW w, Workers = {w}
  PROVE  SInv /\ [Next]_vars => SInv'
<1> SUFFICES ASSUME SInv, [Next]_vars PROVE (Single /\ Separate /\ InHand /\ Known)'
  BY TInvStep DEF SInv
<1> DEFINE Goal == (Single /\ Separate /\ InHand /\ Known)'
<1>0. /\ Single /\ Separate /\ InHand /\ Known
      /\ waiting \in Seq(Fresh) /\ processing \in Seq(Fresh) /\ dead \in Seq(Raw)
      /\ waiting \in Seq(Raw) /\ processing \in Seq(Raw)
      /\ retry \subseteq Fresh /\ arrivals \in Seq(Jobs) /\ Fresh \subseteq Raw
      /\ pc \in [{w} -> Places] /\ hand \in [{w} -> Raw \union {None}]
      /\ pc[w] \in {"drainPush", "run", "ack", "fail"} => hand[w] \in Fresh
      /\ pc[w] = "failPush" => hand[w] \in Raw
  <2>1. Seq(Fresh) \subseteq Seq(Raw)
    BY FreshIsRaw, SeqMonotonic
  <2> QED
    BY <2>1, FreshIsRaw DEF SInv, TInv, Lists, Loop, History
<1>a. HeldInWindow = IF pc[w] \in Windows THEN {hand[w]} ELSE {}
  BY OneWindow
<1>b. HeldInWindow' = IF pc'[w] \in Windows THEN {hand'[w]} ELSE {}
  BY DEF HeldInWindow
<1> USE DEF Windows
<1>1. ASSUME NEW j \in Jobs, Enqueue(j) PROVE Goal
  <2> DEFINE raw == [id |-> j, attempts |-> 0]
  <2>1. raw \in Raw /\ raw.id = j
    BY QueueAssumption DEF Raw
  <2>2. /\ ToSet(waiting') = ToSet(waiting) \union {raw}
        /\ ToSet(arrivals') = ToSet(arrivals) \union {j}
        /\ UNCHANGED <<processing, retry, dead, pc, hand>>
    BY <1>0, <1>1, <2>1, AppendKeeps DEF Enqueue
  <2>3. HeldInWindow' = HeldInWindow
    BY <1>a, <1>b, <2>2
  <2>4. Apart(Somewhere, {raw})
    BY <1>0, <1>1, <2>1 DEF Enqueue, Known, Apart
  <2>5. OneEach(waiting')
    <3>1. Apart(ToSet(waiting), {raw})
      BY <2>4 DEF Apart, Somewhere, Stored
    <3> HIDE DEF raw
    <3> QED
      BY <1>0, <1>1, <2>1, <3>1, AppendOneEach DEF Enqueue, Single, raw
  <2> HIDE DEF raw
  <2>6. Single' /\ InHand'
    BY <1>0, <2>2, <2>5 DEF Single, InHand
  <2>7. Separate'
    BY <1>0, <2>2, <2>3, <2>4 DEF Separate, Apart, Somewhere, Stored
  <2>8. Known'
    BY <1>0, <2>1, <2>2, <2>3 DEF Known, Somewhere, Stored
  <2> QED
    BY <2>6, <2>7, <2>8
(* Steps that only move the worker. *)
<1>2. ASSUME UNCHANGED <<waiting, processing, retry, dead, hand, arrivals>>,
             NEW place \in Places, pc' = [pc EXCEPT ![w] = place],
             pc[w] \notin Windows, place \notin Windows,
             place \in {"run", "ack", "fail"} => pc[w] \in {"run", "ack", "fail"},
             place \in {"poll", "drain", "reserve"}
               => pc[w] \in {"poll", "drain", "reserve"} \/ processing = <<>>
      PROVE  Goal
  <2>1. pc'[w] = place
    BY <1>0, <1>2
  <2>2. HeldInWindow' = HeldInWindow
    BY <1>a, <1>b, <1>2, <2>1
  <2>3. Single' /\ Separate' /\ Known'
    BY <1>0, <1>2, <2>2 DEF Single, Separate, Known, Somewhere, Stored
  <2>4. InHand'
    BY <1>0, <1>2, <2>1 DEF InHand
  <2> QED
    BY <2>3, <2>4
<1>3. ASSUME \/ Start(w) \/ RecoverDone(w) \/ DrainScan(w) \/ DrainDone(w)
             \/ ReserveTimeout(w) \/ Handle(w) \/ Stop(w)
      PROVE  Goal
  <2>1. UNCHANGED <<waiting, processing, retry, dead, hand, arrivals>>
    BY <1>3
    DEF Start, RecoverDone, DrainScan, DrainDone, ReserveTimeout, Handle, DispatchOk,
        DispatchFail, Stop, redis, history
  <2>2. CASE Start(w) \/ Stop(w) \/ RecoverDone(w)
    BY <1>2, <2>1, <2>2 DEF Start, Stop, RecoverDone, Goto, Places
  <2>3. CASE DrainScan(w) \/ DrainDone(w) \/ ReserveTimeout(w)
    BY <1>2, <2>1, <2>3 DEF DrainScan, DrainDone, ReserveTimeout, Goto, Places
  <2>4. CASE Handle(w)
    BY <1>2, <2>1, <2>4 DEF Handle, DispatchOk, DispatchFail, Goto, Places
  <2> QED
    BY <1>3, <2>2, <2>3, <2>4
<1>4. ASSUME RecoverOne(w) PROVE Goal
  <2> DEFINE raw == Head(processing)
  <2>1. /\ raw \in Fresh /\ raw \in ToSet(processing)
        /\ ToSet(processing) = ToSet(processing') \union {raw}
        /\ ToSet(waiting') = ToSet(waiting) \union {raw}
        /\ UNCHANGED <<retry, dead, pc, hand, arrivals>> /\ pc[w] = "recover"
    <3>1. raw \in Fresh /\ ToSet(processing) = ToSet(processing') \union {raw}
      BY <1>0, <1>4, TailKeeps DEF RecoverOne
    <3> QED
      BY <1>0, <1>4, <3>1, AppendKeeps DEF RecoverOne, history
  <2>2. OneEach(processing') /\ Apart(ToSet(processing'), {raw})
    BY <1>0, <1>4, TailOneEach DEF RecoverOne, Single
  <2>3. OneEach(waiting')
    <3>1. Apart(ToSet(waiting), {raw})
      BY <1>0, <2>1 DEF Separate, Apart
    <3> HIDE DEF raw
    <3> QED
      BY <1>0, <1>4, <2>1, <3>1, AppendOneEach DEF RecoverOne, Single, raw
  <2> HIDE DEF raw
  <2>4. HeldInWindow' = HeldInWindow
    BY <1>a, <1>b, <2>1
  <2>5. Single' /\ InHand'
    BY <1>0, <2>1, <2>2, <2>3 DEF Single, InHand
  <2>6. Separate'
    BY <1>0, <2>1, <2>2, <2>4 DEF Separate, Apart
  <2>7. Known'
    BY <1>0, <2>1, <2>4 DEF Known, Somewhere, Stored
  <2> QED
    BY <2>5, <2>6, <2>7
<1>5. ASSUME DrainRemove(w) PROVE Goal
  <2>1. PICK raw \in batch[w] :
          /\ retry' = retry \ {raw}
          /\ IF raw \in retry
             THEN Take(w, raw) /\ Goto(w, "drainPush")
             ELSE UNCHANGED <<hand, pc>>
    BY <1>5 DEF DrainRemove
  <2>2. UNCHANGED <<waiting, processing, dead, arrivals>> /\ pc[w] = "drain"
    BY <1>5 DEF DrainRemove, history
  <2>3. CASE raw \in retry
    <3>1. hand'[w] = raw /\ pc'[w] = "drainPush" /\ HeldInWindow' = {raw} /\ HeldInWindow = {}
      BY <1>0, <1>a, <1>b, <2>1, <2>2, <2>3 DEF Take, Goto
    <3>2. Single' /\ InHand'
      BY <1>0, <2>1, <2>2, <3>1 DEF Single, InHand
    <3>3. Separate'
      BY <1>0, <2>1, <2>2, <2>3, <3>1 DEF Separate, Single, Apart
    <3>4. Known'
      BY <1>0, <2>1, <2>2, <2>3, <3>1 DEF Known, Somewhere, Stored
    <3> QED
      BY <3>2, <3>3, <3>4
  <2>4. CASE raw \notin retry
    <3>1. UNCHANGED <<retry, hand, pc>>
      BY <2>1, <2>4
    <3>2. HeldInWindow' = HeldInWindow
      BY <1>a, <1>b, <3>1
    <3> QED
      BY <1>0, <2>2, <3>1, <3>2
      DEF Single, Separate, InHand, Known, Somewhere, Stored
  <2> QED
    BY <2>3, <2>4
<1>6. ASSUME DrainPush(w) PROVE Goal
  <2>1. /\ hand[w] \in Fresh /\ HeldInWindow = {hand[w]} /\ HeldInWindow' = {}
        /\ pc'[w] = "drain" /\ pc[w] = "drainPush"
        /\ UNCHANGED <<processing, retry, dead, arrivals>>
    BY <1>0, <1>a, <1>b, <1>6 DEF DrainPush, Goto, history
  <2>2. ToSet(waiting') = ToSet(waiting) \union {hand[w]}
    BY <1>0, <1>6, <2>1, AppendKeeps DEF DrainPush
  <2>3. OneEach(waiting')
    <3>1. Apart(ToSet(waiting), {hand[w]})
      BY <1>0, <2>1 DEF Separate, Apart
    <3> QED
      BY <1>0, <1>6, <2>1, <3>1, AppendOneEach DEF DrainPush, Single
  <2>4. Single' /\ InHand'
    BY <1>0, <2>1, <2>3 DEF Single, InHand
  <2>5. Separate'
    BY <1>0, <2>1, <2>2 DEF Separate, Apart
  <2>6. Known'
    BY <1>0, <2>1, <2>2 DEF Known, Somewhere, Stored
  <2> QED
    BY <2>4, <2>5, <2>6
<1>7. ASSUME Reserve(w) PROVE Goal
  <2> DEFINE raw == Head(waiting)
  <2>1. /\ raw \in Raw /\ raw \in ToSet(waiting)
        /\ ToSet(waiting) = ToSet(waiting') \union {raw}
        /\ UNCHANGED <<retry, dead, arrivals>> /\ pc[w] = "reserve"
    <3>1. raw \in Fresh /\ ToSet(waiting) = ToSet(waiting') \union {raw}
      BY <1>0, <1>7, TailKeeps DEF Reserve
    <3> QED
      BY <1>0, <1>7, <3>1 DEF Reserve
  <2>2. OneEach(waiting') /\ Apart(ToSet(waiting'), {raw})
    BY <1>0, <1>7, TailOneEach DEF Reserve, Single
  <2>3. /\ hand'[w] = raw /\ pc'[w] = "run" /\ HeldInWindow' = {} /\ HeldInWindow = {}
        /\ processing = <<>> /\ processing' = <<raw>>
    <3>1. processing = <<>>
      BY <1>0, <2>1 DEF InHand
    <3> QED
      BY <1>0, <1>a, <1>b, <1>7, <3>1 DEF Reserve, Take, Goto
  <2> HIDE DEF raw
  <2>4. ToSet(processing') = {raw} /\ OneEach(processing')
    BY <2>3 DEF ToSet, OneEach
  <2>5. Single' /\ InHand'
    BY <1>0, <2>1, <2>2, <2>3, <2>4 DEF Single, InHand
  <2>6. Separate'
    BY <1>0, <2>1, <2>2, <2>3, <2>4 DEF Separate, Apart
  <2>7. Known'
    BY <1>0, <2>1, <2>3, <2>4 DEF Known, Somewhere, Stored
  <2> QED
    BY <2>5, <2>6, <2>7
<1>8. ASSUME Acknowledge(w) \/ FailRemove(w) PROVE Goal
  <2>1. /\ processing = <<hand[w]>> /\ hand[w] \in Fresh
        /\ processing' = RemoveFirst(processing, hand[w])
        /\ UNCHANGED <<waiting, retry, dead, arrivals>>
        /\ pc[w] \in {"ack", "fail"}
    BY <1>0, <1>8 DEF Acknowledge, FailRemove, InHand, history
  <2>2. processing' = <<>>
    BY <2>1, RemoveOnly
  <2>3. ToSet(processing) = {hand[w]} /\ ToSet(processing') = {}
    BY <2>1, <2>2 DEF ToSet
  <2>4. /\ HeldInWindow = {}
        /\ HeldInWindow' = {} \/ (HeldInWindow' = {hand'[w]} /\ hand'[w].id = hand[w].id)
        /\ pc'[w] \in {"poll", "failPush"}
    <3>1. CASE Acknowledge(w)
      BY <1>0, <1>a, <1>b, <3>1 DEF Acknowledge, Goto
    <3>2. CASE FailRemove(w)
      <4>1. hand'[w].id = hand[w].id /\ pc'[w] = "failPush" /\ pc[w] = "fail"
        BY <1>0, <2>1, <3>2 DEF FailRemove, Goto, Fresh
      <4> QED
        BY <1>a, <1>b, <4>1
    <3> QED
      BY <1>8, <3>1, <3>2
  <2>5. Single' /\ InHand'
    BY <1>0, <2>1, <2>2, <2>4 DEF Single, InHand, OneEach
  <2>6. Separate'
    BY <1>0, <2>1, <2>3, <2>4 DEF Separate, Apart
  <2>7. Known'
    BY <1>0, <2>1, <2>3, <2>4 DEF Known, Somewhere, Stored
  <2> QED
    BY <2>5, <2>6, <2>7
<1>9. ASSUME ScheduleRetry(w) PROVE Goal
  <2>1. /\ hand[w] \in Raw /\ HeldInWindow = {hand[w]} /\ HeldInWindow' = {}
        /\ pc[w] = "failPush" /\ pc'[w] = "poll" /\ retry' = retry \union {hand[w]}
        /\ UNCHANGED <<waiting, processing, dead, arrivals>>
    BY <1>0, <1>a, <1>b, <1>9 DEF ScheduleRetry, Goto, history
  <2>2. Single' /\ InHand'
    BY <1>0, <2>1 DEF Single, Separate, Apart, InHand
  <2>3. Separate'
    BY <1>0, <2>1 DEF Separate, Apart
  <2>4. Known'
    BY <1>0, <2>1 DEF Known, Somewhere, Stored
  <2> QED
    BY <2>2, <2>3, <2>4
<1>10. ASSUME DeadLetter(w) PROVE Goal
  <2>1. /\ hand[w] \in Raw /\ HeldInWindow = {hand[w]} /\ HeldInWindow' = {}
        /\ pc[w] = "failPush" /\ pc'[w] = "poll" /\ dead' = Append(dead, hand[w])
        /\ UNCHANGED <<waiting, processing, retry, arrivals>>
    BY <1>0, <1>a, <1>b, <1>10 DEF DeadLetter, Goto, history
  <2>2. ToSet(dead') = ToSet(dead) \union {hand[w]}
    BY <1>0, <2>1, AppendKeeps
  <2>3. OneEach(dead')
    <3>1. Apart(ToSet(dead), {hand[w]})
      BY <1>0, <2>1 DEF Separate, Apart
    <3> QED
      BY <1>0, <2>1, <3>1, AppendOneEach DEF Single
  <2>4. Single' /\ InHand'
    BY <1>0, <2>1, <2>3 DEF Single, InHand
  <2>5. Separate'
    BY <1>0, <2>1, <2>2 DEF Separate, Apart
  <2>6. Known'
    BY <1>0, <2>1, <2>2 DEF Known, Somewhere, Stored
  <2> QED
    BY <2>4, <2>5, <2>6
<1>11. ASSUME Crash(w) PROVE Goal
  <2>1. /\ pc'[w] = "down" /\ HeldInWindow' = {}
        /\ UNCHANGED <<waiting, processing, retry, dead, arrivals>>
    BY <1>0, <1>b, <1>11 DEF Crash, Goto, redis, history
  <2> QED
    BY <1>0, <2>1 DEF Single, Separate, Apart, InHand, Known, Somewhere, Stored
<1>12. ASSUME (\E raw \in retry : BecomeDue(raw)) \/ UNCHANGED vars PROVE Goal
  <2>1. UNCHANGED <<waiting, processing, retry, dead, pc, hand, arrivals>>
    BY <1>12 DEF BecomeDue, vars, redis, history
  <2>2. HeldInWindow' = HeldInWindow
    BY <1>a, <1>b, <2>1
  <2> QED
    BY <1>0, <2>1, <2>2 DEF Single, Separate, InHand, Known, Somewhere, Stored
<1> QED
  BY <1>1, <1>3, <1>4, <1>5, <1>6, <1>7, <1>8, <1>9, <1>10, <1>11, <1>12
  DEF Next, WorkerStep

-----------------------------------------------------------------------------
(* A list that holds each job once has no or one occurrence of it. *)
LEMMA OccursOnce ==
  ASSUME NEW s \in Seq(Raw), OneEach(s), NEW j
  PROVE  /\ Occurrences(s, j) \in {0, 1}
         /\ Occurrences(s, j) = 1 => \E raw \in ToSet(s) : raw.id = j
<1> DEFINE I == {i \in DOMAIN s : s[i].id = j}
<1>1. CASE I = {}
  <2>1. Occurrences(s, j) = Cardinality(I)
    BY DEF Occurrences
  <2> HIDE DEF I
  <2> QED
    BY <1>1, <2>1, FS_EmptySet
<1>2. CASE I # {}
  <2>1. PICK i \in DOMAIN s : s[i].id = j
    BY <1>2
  <2>2. I = {i}
    BY <2>1 DEF OneEach
  <2>3. Occurrences(s, j) = 1
    BY <2>2, FS_Singleton DEF Occurrences
  <2> QED
    BY <2>1, <2>3 DEF ToSet
<1> QED
  BY <1>1, <1>2

(* So does a set of jobs in which no two are the same. *)
LEMMA AtMostOne ==
  ASSUME NEW S, \A a, b \in S : a = b
  PROVE  Cardinality(S) \in {0, 1} /\ (Cardinality(S) = 1 => S # {})
<1>1. CASE S = {}
  BY <1>1, FS_EmptySet
<1>2. CASE S # {}
  <2>1. PICK x : S = {x}
    BY <1>2
  <2> QED
    BY <2>1, FS_Singleton
<1> QED
  BY <1>1, <1>2

(* A job in one place, once, is counted once. *)
LEMMA SInvImpliesOneCopy ==
  ASSUME NEW w, Workers = {w}, SInv
  PROVE  OneCopy
<1> SUFFICES ASSUME NEW j \in Jobs
             PROVE  Occurrences(waiting, j) + Occurrences(processing, j)
                      + Occurrences(dead, j)
                      + Cardinality({raw \in retry : raw.id = j})
                      + Cardinality({v \in Workers : pc[v] \in Windows /\ hand[v].id = j}) <= 1
  BY DEF OneCopy
<1> DEFINE a == Occurrences(waiting, j)
           b == Occurrences(processing, j)
           c == Occurrences(dead, j)
           R == {raw \in retry : raw.id = j}
           H == {v \in Workers : pc[v] \in Windows /\ hand[v].id = j}
<1>1. /\ waiting \in Seq(Raw) /\ processing \in Seq(Raw) /\ dead \in Seq(Raw)
      /\ Single /\ Separate
  BY FreshIsRaw, SeqMonotonic DEF SInv, TInv, Lists
<1>2. /\ a \in {0, 1} /\ (a = 1 => \E raw \in ToSet(waiting) : raw.id = j)
      /\ b \in {0, 1} /\ (b = 1 => \E raw \in ToSet(processing) : raw.id = j)
      /\ c \in {0, 1} /\ (c = 1 => \E raw \in ToSet(dead) : raw.id = j)
  BY <1>1, OccursOnce DEF Single
<1>3. /\ Cardinality(R) \in {0, 1}
      /\ Cardinality(R) = 1 => \E raw \in retry : raw.id = j
  <2>1. \A x, y \in R : x = y
    BY <1>1 DEF Single
  <2> HIDE DEF R
  <2>2. Cardinality(R) \in {0, 1} /\ (Cardinality(R) = 1 => R # {})
    BY <2>1, AtMostOne
  <2> QED
    BY <2>2 DEF R
<1>4. /\ Cardinality(H) \in {0, 1}
      /\ Cardinality(H) = 1 => \E raw \in HeldInWindow : raw.id = j
  <2>1. \A x, y \in H : x = y
    OBVIOUS
  <2> HIDE DEF H
  <2>2. Cardinality(H) \in {0, 1} /\ (Cardinality(H) = 1 => H # {})
    BY <2>1, AtMostOne
  <2> QED
    BY <2>2 DEF H, HeldInWindow
<1> HIDE DEF a, b, c, R, H
<1>5. /\ ~ (a = 1 /\ b = 1) /\ ~ (a = 1 /\ c = 1) /\ ~ (a = 1 /\ Cardinality(R) = 1)
      /\ ~ (a = 1 /\ Cardinality(H) = 1)
  BY <1>1, <1>2, <1>3, <1>4 DEF Separate, Apart
<1>6. /\ ~ (b = 1 /\ c = 1) /\ ~ (b = 1 /\ Cardinality(R) = 1) /\ ~ (b = 1 /\ Cardinality(H) = 1)
      /\ ~ (c = 1 /\ Cardinality(R) = 1) /\ ~ (c = 1 /\ Cardinality(H) = 1)
      /\ ~ (Cardinality(R) = 1 /\ Cardinality(H) = 1)
  BY <1>1, <1>2, <1>3, <1>4 DEF Separate, Apart
<1>7. a + b + c + Cardinality(R) + Cardinality(H) <= 1
  BY <1>2, <1>3, <1>4, <1>5, <1>6
<1> QED
  BY <1>7 DEF a, b, c, R, H

(* The one worker never makes two copies of a job: neither a recovery      *)
(* after a crash in whatever command, nor the drain, nor a retry does.     *)
THEOREM OneWorkerKeepsOneCopy ==
  ASSUME NEW CONSTANT w, Workers = {w}
  PROVE  Spec => []OneCopy
<1>1. Spec => []SInv
  BY SInvInit, SInvStep, PTL DEF Spec
<1>2. SInv => OneCopy
  BY SInvImpliesOneCopy
<1> QED
  BY <1>1, <1>2, PTL

-----------------------------------------------------------------------------
(* One worker: every redelivery has a cause. *)

RInv == SInv /\ Causes /\ RedeliveryHasCause

(* Nothing has been delivered at the start. *)
LEMMA RInvInit == Init => RInv
<1> SUFFICES ASSUME Init PROVE RInv
  OBVIOUS
<1>1. /\ ToSet(waiting) = {} /\ ToSet(processing) = {} /\ retry = {} /\ HeldInWindow = {}
  BY DEF Init, ToSet, HeldInWindow, Windows
<1> QED
  BY <1>1, SInvInit DEF Init, RInv, Causes, RedeliveryHasCause

(* A job returns to the waiting list only by a failure or a restart, each  *)
(* of which pays for one more delivery.                                    *)
LEMMA RInvStep ==
  ASSUME NEW w, Workers = {w}
  PROVE  RInv /\ [Next]_vars => RInv'
<1> SUFFICES ASSUME RInv, [Next]_vars PROVE Causes' /\ RedeliveryHasCause'
  BY SInvStep DEF RInv
<1>0. /\ SInv /\ Single /\ Separate /\ InHand /\ Known /\ Causes /\ RedeliveryHasCause
      /\ waiting \in Seq(Fresh) /\ processing \in Seq(Fresh) /\ waiting \in Seq(Raw)
      /\ retry \subseteq Fresh /\ arrivals \in Seq(Jobs) /\ Fresh \subseteq Raw
      /\ pc \in [{w} -> Places] /\ hand \in [{w} -> Raw \union {None}]
      /\ pc[w] \in {"drainPush", "run", "ack", "fail"} => hand[w] \in Fresh
      /\ pc[w] = "failPush" => hand[w] \in Raw
      /\ deliveries \in [Jobs -> Nat] /\ failures \in [Jobs -> Nat] /\ restarts \in Nat
      /\ \A raw \in Raw : raw.id \in Jobs
  <2>1. Seq(Fresh) \subseteq Seq(Raw)
    BY FreshIsRaw, SeqMonotonic
  <2> QED
    BY <2>1, FreshIsRaw DEF RInv, SInv, TInv, Lists, Loop, History, Raw
<1>a. HeldInWindow = IF pc[w] \in Windows THEN {hand[w]} ELSE {}
  BY OneWindow
<1>b. HeldInWindow' = IF pc'[w] \in Windows THEN {hand'[w]} ELSE {}
  BY DEF HeldInWindow
<1>c. /\ ToSet(waiting) \subseteq Raw /\ ToSet(processing) \subseteq Raw
      /\ HeldInWindow \subseteq Raw
  <2>1. HeldInWindow \subseteq Raw
    BY <1>0, <1>a DEF Windows
  <2> QED
    BY <1>0, <2>1 DEF ToSet
<1> USE DEF Windows
(* The counters stay: it is enough that what waits was paid for.           *)
<1>1. ASSUME UNCHANGED <<deliveries, failures>>, restarts' \in {restarts, restarts + 1},
             ToSet(arrivals) \subseteq ToSet(arrivals'),
             \A raw \in ToSet(waiting') \union retry' \union HeldInWindow' :
               raw \in Raw /\ Paid(raw)',
             pc'[w] \in {"down", "recover", "fail"}
               => \A raw \in ToSet(processing') : Paid(raw)'
      PROVE  Causes' /\ RedeliveryHasCause'
  <2>1. RedeliveryHasCause'
    BY <1>0, <1>1 DEF RedeliveryHasCause
  <2>2. Causes'
    BY <1>0, <1>1 DEF Causes
  <2> QED
    BY <2>1, <2>2
<1>2. ASSUME UNCHANGED <<deliveries, failures, restarts>>, NEW raw, Paid(raw)
      PROVE  Paid(raw)'
  BY <1>2 DEF Paid
<1>3. ASSUME NEW j \in Jobs, Enqueue(j) PROVE Causes' /\ RedeliveryHasCause'
  <2> DEFINE raw == [id |-> j, attempts |-> 0]
  <2>1. raw \in Fresh /\ raw \in Raw /\ raw.id = j
    BY QueueAssumption DEF Fresh, Raw
  <2>2. /\ ToSet(waiting') = ToSet(waiting) \union {raw}
        /\ ToSet(arrivals') = ToSet(arrivals) \union {j}
        /\ UNCHANGED <<processing, retry, pc, hand, deliveries, failures, restarts>>
    BY <1>0, <1>3, <2>1, AppendKeeps DEF Enqueue
  <2>3. Paid(raw)
    <3>1. deliveries[j] = 0
      BY <1>0, <1>3 DEF Enqueue, Causes
    <3> QED
      BY <1>0, <2>1, <3>1 DEF Paid
  <2>4. HeldInWindow' = HeldInWindow
    BY <1>a, <1>b, <2>2
  <2> HIDE DEF raw
  <2>5. \A r \in ToSet(waiting') \union retry' \union HeldInWindow' : r \in Raw /\ Paid(r)'
    BY <1>0, <1>2, <1>c, <2>1, <2>2, <2>3, <2>4 DEF Causes
  <2>6. pc'[w] \in {"down", "recover", "fail"} => \A r \in ToSet(processing') : Paid(r)'
    BY <1>0, <1>2, <2>2 DEF Causes
  <2> QED
    BY <1>1, <2>2, <2>5, <2>6
(* Steps that only move the worker, the job with it perhaps.               *)
<1>4. ASSUME UNCHANGED <<deliveries, failures, restarts, arrivals>>,
             ToSet(waiting') \union retry' \union HeldInWindow'
               \subseteq ToSet(waiting) \union retry \union HeldInWindow,
             pc'[w] \in {"down", "recover", "fail"}
               => pc[w] \in {"down", "recover", "fail"}
                    /\ ToSet(processing') \subseteq ToSet(processing)
      PROVE  Causes' /\ RedeliveryHasCause'
  <2>1. \A r \in ToSet(waiting') \union retry' \union HeldInWindow' : r \in Raw /\ Paid(r)'
    BY <1>0, <1>2, <1>4, <1>c DEF Causes
  <2>2. pc'[w] \in {"down", "recover", "fail"} => \A r \in ToSet(processing') : Paid(r)'
    BY <1>0, <1>2, <1>4 DEF Causes
  <2> QED
    BY <1>1, <1>4, <2>1, <2>2
<1>5. ASSUME \/ Start(w) \/ RecoverDone(w) \/ DrainScan(w) \/ DrainDone(w)
             \/ ReserveTimeout(w) \/ DispatchOk(w)
      PROVE  Causes' /\ RedeliveryHasCause'
  <2>1. UNCHANGED <<waiting, processing, retry, hand, arrivals, deliveries, failures, restarts>>
    BY <1>5
    DEF Start, RecoverDone, DrainScan, DrainDone, ReserveTimeout, DispatchOk, redis, history
  <2>2. /\ pc[w] \notin Windows /\ pc'[w] \notin Windows
        /\ pc'[w] \in {"down", "recover", "fail"} => pc[w] = "down"
    BY <1>0, <1>5
    DEF Start, RecoverDone, DrainScan, DrainDone, ReserveTimeout, DispatchOk, Goto
  <2>3. HeldInWindow' = {}
    BY <1>b, <2>2
  <2> QED
    BY <1>4, <2>1, <2>2, <2>3
<1>6. ASSUME RecoverOne(w) PROVE Causes' /\ RedeliveryHasCause'
  <2>1. /\ Head(processing) \in Raw /\ Head(processing) \in ToSet(processing)
        /\ ToSet(processing') \subseteq ToSet(processing)
        /\ ToSet(waiting') = ToSet(waiting) \union {Head(processing)}
    <3>1. /\ Head(processing) \in Fresh
          /\ ToSet(processing) = ToSet(processing') \union {Head(processing)}
      BY <1>0, <1>6, TailKeeps DEF RecoverOne
    <3> QED
      BY <1>0, <1>6, <3>1, AppendKeeps DEF RecoverOne
  <2>2. /\ UNCHANGED <<retry, pc, hand, arrivals, deliveries, failures, restarts>>
        /\ pc[w] = "recover"
    BY <1>6 DEF RecoverOne, history
  <2>3. HeldInWindow' = HeldInWindow
    BY <1>a, <1>b, <2>2
  <2>4. \A r \in ToSet(waiting') \union retry' \union HeldInWindow' : r \in Raw /\ Paid(r)'
    BY <1>0, <1>2, <1>c, <2>1, <2>2, <2>3 DEF Causes
  <2>5. \A r \in ToSet(processing') : Paid(r)'
    BY <1>0, <1>2, <2>1, <2>2 DEF Causes
  <2> QED
    BY <1>1, <2>2, <2>4, <2>5
<1>7. ASSUME DrainRemove(w) PROVE Causes' /\ RedeliveryHasCause'
  <2>1. PICK raw \in batch[w] :
          /\ retry' = retry \ {raw}
          /\ IF raw \in retry
             THEN Take(w, raw) /\ Goto(w, "drainPush")
             ELSE UNCHANGED <<hand, pc>>
    BY <1>7 DEF DrainRemove
  <2>2. /\ UNCHANGED <<waiting, arrivals, deliveries, failures, restarts>>
        /\ pc[w] = "drain" /\ pc'[w] \in {"drain", "drainPush"}
    BY <1>0, <1>7, <2>1 DEF DrainRemove, Goto, history
  <2>3. HeldInWindow' \subseteq retry
    BY <1>0, <1>b, <2>1, <2>2 DEF Take
  <2> QED
    BY <1>4, <2>1, <2>2, <2>3
<1>8. ASSUME DrainPush(w) PROVE Causes' /\ RedeliveryHasCause'
  <2>1. /\ hand[w] \in Fresh /\ HeldInWindow = {hand[w]} /\ HeldInWindow' = {}
        /\ pc'[w] = "drain"
        /\ UNCHANGED <<retry, arrivals, deliveries, failures, restarts>>
    BY <1>0, <1>a, <1>b, <1>8 DEF DrainPush, Goto, history
  <2>2. ToSet(waiting') = ToSet(waiting) \union {hand[w]}
    BY <1>0, <1>8, <2>1, AppendKeeps DEF DrainPush
  <2> QED
    BY <1>4, <2>1, <2>2
<1>9. ASSUME Reserve(w) PROVE Causes' /\ RedeliveryHasCause'
  <2> DEFINE raw == Head(waiting)
  <2>1. /\ raw \in Raw /\ raw \in ToSet(waiting) /\ ToSet(waiting') \subseteq ToSet(waiting)
    BY <1>0, <1>9, TailKeeps DEF Reserve
  <2>2. Apart(ToSet(waiting'), {raw}) /\ Apart(retry, {raw})
    <3>1. Apart(ToSet(waiting'), {raw})
      BY <1>0, <1>9, TailOneEach DEF Reserve, Single
    <3> QED
      BY <1>0, <2>1, <3>1 DEF Separate, Apart
  <2>3. /\ UNCHANGED <<retry, arrivals, failures, restarts>> /\ pc'[w] = "run"
        /\ deliveries' = [deliveries EXCEPT ![raw.id] = @ + 1] /\ HeldInWindow' = {}
    BY <1>0, <1>b, <1>9 DEF Reserve, Goto
  <2>4. raw.id \in Jobs /\ raw.id \in ToSet(arrivals) /\ Paid(raw)
    BY <1>0, <2>1 DEF Known, Somewhere, Stored, Causes
  <2> HIDE DEF raw
  <2>5. /\ \A j \in Jobs \ {raw.id} : deliveries'[j] = deliveries[j]
        /\ deliveries'[raw.id] = deliveries[raw.id] + 1
    BY <1>0, <2>3, <2>4
  <2>6. RedeliveryHasCause'
    BY <1>0, <2>3, <2>4, <2>5 DEF RedeliveryHasCause, Paid
  <2>7. \A r \in ToSet(waiting') \union retry' \union HeldInWindow' : Paid(r)'
    <3> SUFFICES ASSUME NEW r \in ToSet(waiting') \union retry PROVE Paid(r)'
      BY <2>3
    <3>1. r.id \in Jobs /\ r.id # raw.id /\ Paid(r)
      BY <1>0, <1>c, <2>1, <2>2 DEF Apart, Causes
    <3> QED
      BY <2>3, <2>5, <3>1 DEF Paid
  <2>8. \A j \in Jobs \ ToSet(arrivals') : deliveries'[j] = 0
    BY <1>0, <2>3, <2>4, <2>5 DEF Causes
  <2>9. Causes'
    BY <2>3, <2>7, <2>8 DEF Causes
  <2> QED
    BY <2>6, <2>9
<1>10. ASSUME DispatchFail(w) PROVE Causes' /\ RedeliveryHasCause'
  <2>1. /\ UNCHANGED <<waiting, processing, retry, arrivals, deliveries, restarts>>
        /\ hand[w] \in Fresh /\ hand[w].id \in Jobs /\ processing = <<hand[w]>>
        /\ failures' = [failures EXCEPT ![hand[w].id] = @ + 1] /\ HeldInWindow' = {}
    BY <1>0, <1>b, <1>10 DEF DispatchFail, Goto, redis, InHand
  <2>2. ToSet(processing') = {hand[w]}
    BY <2>1 DEF ToSet
  <2>3. /\ \A j \in Jobs : failures'[j] >= failures[j] /\ failures'[j] \in Nat
        /\ failures'[hand[w].id] = failures[hand[w].id] + 1
    BY <1>0, <2>1
  <2>4. RedeliveryHasCause'
    BY <1>0, <2>1, <2>3 DEF RedeliveryHasCause
  <2>5. \A r \in ToSet(waiting) \union retry : Paid(r)'
    <3> SUFFICES ASSUME NEW r \in ToSet(waiting) \union retry PROVE Paid(r)'
      OBVIOUS
    <3>1. r.id \in Jobs /\ Paid(r)
      BY <1>0, <1>c DEF Causes
    <3> QED
      BY <1>0, <2>1, <2>3, <3>1 DEF Paid
  <2>7. \A r \in ToSet(processing') : Paid(r)'
    BY <1>0, <2>1, <2>2, <2>3 DEF RedeliveryHasCause, Paid
  <2>8. Causes'
    BY <1>0, <2>1, <2>5, <2>7 DEF Causes
  <2> QED
    BY <2>4, <2>8
<1>11. ASSUME Acknowledge(w) PROVE Causes' /\ RedeliveryHasCause'
  <2>1. /\ UNCHANGED <<waiting, retry, arrivals, deliveries, failures, restarts>>
        /\ HeldInWindow' = {} /\ pc'[w] = "poll"
    BY <1>0, <1>b, <1>11 DEF Acknowledge, Goto, history
  <2> QED
    BY <1>4, <2>1
<1>12. ASSUME FailRemove(w) PROVE Causes' /\ RedeliveryHasCause'
  <2>1. /\ UNCHANGED <<waiting, retry, arrivals, deliveries, failures, restarts>>
        /\ hand[w] \in Fresh /\ processing = <<hand[w]>> /\ pc[w] = "fail"
        /\ pc'[w] = "failPush" /\ HeldInWindow' = {hand'[w]}
    BY <1>0, <1>b, <1>12 DEF FailRemove, Goto, InHand, history
  <2>2. hand'[w].id = hand[w].id /\ hand'[w] \in Raw
    <3>1. hand'[w] = [hand[w] EXCEPT !.attempts = @ + 1]
      BY <1>0, <1>12 DEF FailRemove
    <3> QED
      BY <2>1, <3>1, QueueAssumption DEF Fresh, Raw
  <2>3. Paid(hand[w])
    <3>1. hand[w] \in ToSet(processing)
      BY <2>1 DEF ToSet
    <3> QED
      BY <1>0, <2>1, <3>1 DEF Causes
  <2>4. \A r \in ToSet(waiting') \union retry' \union HeldInWindow' : r \in Raw /\ Paid(r)'
    <3>1. \A r \in HeldInWindow' : r \in Raw /\ Paid(r)'
      BY <2>1, <2>2, <2>3 DEF Paid
    <3> QED
      BY <1>0, <1>2, <1>c, <2>1, <3>1 DEF Causes
  <2> QED
    BY <1>1, <2>1, <2>4
<1>13. ASSUME ScheduleRetry(w) \/ DeadLetter(w) PROVE Causes' /\ RedeliveryHasCause'
  <2>1. /\ HeldInWindow = {hand[w]} /\ HeldInWindow' = {} /\ pc'[w] = "poll"
        /\ retry' \subseteq retry \union {hand[w]}
        /\ UNCHANGED <<waiting, arrivals, deliveries, failures, restarts>>
    BY <1>0, <1>a, <1>b, <1>13 DEF ScheduleRetry, DeadLetter, Goto, history
  <2> QED
    BY <1>4, <2>1
<1>14. ASSUME Stop(w) \/ Crash(w) PROVE Causes' /\ RedeliveryHasCause'
  <2>1. /\ UNCHANGED <<waiting, processing, retry, arrivals, deliveries, failures>>
        /\ restarts' = restarts + 1 /\ HeldInWindow' = {}
    BY <1>0, <1>b, <1>14 DEF Stop, Crash, Goto, redis, history
  <2>2. \A r \in Raw : Paid(r)'
    BY <1>0, <2>1 DEF RedeliveryHasCause, Paid
  <2> QED
    BY <1>0, <1>1, <1>c, <2>1, <2>2
<1>15. ASSUME (\E raw \in retry : BecomeDue(raw)) \/ UNCHANGED vars
       PROVE  Causes' /\ RedeliveryHasCause'
  <2>1. UNCHANGED <<waiting, processing, retry, pc, hand, arrivals, deliveries, failures, restarts>>
    BY <1>15 DEF BecomeDue, vars, redis, history
  <2>2. HeldInWindow' = HeldInWindow
    BY <1>a, <1>b, <2>1
  <2> QED
    BY <1>4, <2>1, <2>2
<1> QED
  BY <1>3, <1>5, <1>6, <1>7, <1>8, <1>9, <1>10, <1>11, <1>12, <1>13, <1>14, <1>15
  DEF Next, WorkerStep, Handle

(* With one worker no delivery is repeated for nothing: each one after the *)
(* first is due to a delivery that raised or to a worker that stopped.     *)
THEOREM RedeliveriesHaveCauses ==
  ASSUME NEW CONSTANT w, Workers = {w}
  PROVE  Spec => []RedeliveryHasCause
<1>1. Spec => []RInv
  BY RInvInit, RInvStep, PTL DEF Spec
<1>2. RInv => RedeliveryHasCause
  BY DEF RInv
<1> QED
  BY <1>1, <1>2, PTL

-----------------------------------------------------------------------------
(* One worker: the queue implements JobDelivery. *)

(* The places as JobDelivery tells them apart. *)
Pending == ToSet(waiting) \union retry \union DrainWindow

(* What the refinement mapping makes of a job, from where its copy is. *)
Abstracted(k) ==
  /\ k \notin ToSet(arrivals) => JobState(k) = "new" /\ JobTries(k) = 0
  /\ \A raw \in ToSet(processing) :
       raw.id = k => JobState(k) = "active" /\ JobTries(k) = raw.attempts
  /\ \A raw \in FailWindow :
       raw.id = k => JobState(k) = "active" /\ JobTries(k) = raw.attempts - 1
  /\ \A raw \in Pending :
       raw.id = k => JobState(k) = "pending" /\ JobTries(k) = raw.attempts
  /\ \A raw \in ToSet(dead) :
       raw.id = k => JobState(k) = "dead" /\ JobTries(k) = raw.attempts
  /\ k \in ToSet(arrivals) /\ (\A raw \in Somewhere : raw.id # k)
       => JobState(k) = (IF k \in succeeded THEN "done" ELSE "lost") /\ JobTries(k) = 0

(* A job that a step leaves in the same of these places. *)
Unmoved(k) ==
  /\ k \in ToSet(arrivals') <=> k \in ToSet(arrivals)
  /\ (k \in succeeded' <=> k \in succeeded) \/ \E raw \in Somewhere : raw.id = k
  /\ \A raw : raw.id = k =>
       /\ raw \in Pending' <=> raw \in Pending
       /\ raw \in ToSet(processing') <=> raw \in ToSet(processing)
       /\ raw \in FailWindow' <=> raw \in FailWindow
       /\ raw \in ToSet(dead') <=> raw \in ToSet(dead)

(* The places of JobDelivery are all there are. *)
LEMMA PlacesOfJobs ==
  Somewhere = Pending \union ToSet(processing) \union FailWindow \union ToSet(dead)
<1>1. HeldInWindow = DrainWindow \union FailWindow
  BY DEF HeldInWindow, DrainWindow, FailWindow, Windows
<1> QED
  BY <1>1 DEF Somewhere, Stored, Pending

(* Only what arrived succeeds. *)
Accepted == succeeded \subseteq ToSet(arrivals)

(* The mapping is what it says: a job has one copy, which CopyOf finds. *)
LEMMA MappingOfCopies ==
  ASSUME NEW w, Workers = {w}
  PROVE  SInv /\ Accepted => \A k \in Jobs : Abstracted(k)
<1> SUFFICES ASSUME SInv, Accepted, NEW k \in Jobs PROVE Abstracted(k)
  OBVIOUS
<1> DEFINE P == ToSet(processing)
           D == ToSet(dead)
<1>0. Single /\ Separate /\ Known
  BY DEF SInv
<1>1. /\ DrainWindow \subseteq HeldInWindow /\ FailWindow \subseteq HeldInWindow
      /\ \A a, b \in HeldInWindow : a = b
      /\ DrainWindow = {} \/ FailWindow = {}
  BY DEF DrainWindow, FailWindow, HeldInWindow, Windows
<1>2. /\ \A a, b \in ToSet(waiting) : a.id = b.id => a = b
      /\ \A a, b \in P : a.id = b.id => a = b
      /\ \A a, b \in D : a.id = b.id => a = b
      /\ \A a, b \in retry : a.id = b.id => a = b
  BY <1>0 DEF Single, OneEach, ToSet
<1>3. /\ Apart(Pending, P) /\ Apart(Pending, D) /\ Apart(Pending, FailWindow)
      /\ Apart(P, D) /\ Apart(P, FailWindow) /\ Apart(D, FailWindow)
  <2>1. Apart(Pending, P) /\ Apart(Pending, D)
    BY <1>0, <1>1 DEF Separate, Apart, Pending
  <2>2. Apart(Pending, FailWindow)
    BY <1>0, <1>1 DEF Separate, Apart, Pending
  <2> QED
    BY <1>0, <1>1, <2>1, <2>2 DEF Separate, Apart
<1>4. \A a, b \in Pending : a.id = b.id => a = b
  BY <1>0, <1>1, <1>2 DEF Separate, Apart, Pending
<1> HIDE DEF P, D
<1>5. Somewhere = Pending \union P \union FailWindow \union D
  BY PlacesOfJobs DEF P, D
<1>6. \A a, b \in Somewhere : a.id = b.id => a = b
  BY <1>1, <1>2, <1>3, <1>4, <1>5 DEF Apart
<1>7. ASSUME NEW raw \in Somewhere, raw.id = k PROVE CopyOf(k) = raw
  BY <1>6, <1>7 DEF CopyOf, Somewhere
<1>8. /\ \A S : k \in IdsIn(S) <=> \E raw \in S : raw.id = k
  BY DEF IdsIn
<1>9. \A raw \in Somewhere : raw.id = k => k \in ToSet(arrivals)
  BY <1>0 DEF Known
<1>10. Somewhere = Stored \union HeldInWindow
  BY DEF Somewhere
<1> DEFINE act  == k \in IdsIn(P \union FailWindow)
           pend == k \in IdsIn(Pending)
           dd   == k \in IdsIn(D)
           some == k \in IdsIn(Somewhere)
           fw   == k \in IdsIn(FailWindow)
<1>11. /\ JobState(k) = CASE k \notin ToSet(arrivals) -> "new"
                          [] act -> "active"
                          [] pend -> "pending"
                          [] dd -> "dead"
                          [] k \in succeeded /\ ~some -> "done"
                          [] OTHER -> "lost"
       /\ JobTries(k) = IF fw THEN CopyOf(k).attempts - 1
                        ELSE IF some THEN CopyOf(k).attempts ELSE 0
  BY <1>10 DEF JobState, JobTries, Pending, P, D
<1>12. /\ act <=> \E raw \in P \union FailWindow : raw.id = k
       /\ pend <=> \E raw \in Pending : raw.id = k
       /\ dd <=> \E raw \in D : raw.id = k
       /\ some <=> \E raw \in Somewhere : raw.id = k
       /\ fw <=> \E raw \in FailWindow : raw.id = k
  BY <1>8
<1> HIDE DEF act, pend, dd, some, fw
<1>13. ASSUME k \notin ToSet(arrivals) PROVE JobState(k) = "new" /\ JobTries(k) = 0
  <2>1. ~act /\ ~pend /\ ~dd /\ ~some /\ ~fw /\ k \notin succeeded
    BY <1>5, <1>9, <1>12, <1>13 DEF Accepted
  <2> QED
    BY <1>11, <1>13, <2>1
<1>14. ASSUME NEW raw \in P, raw.id = k
       PROVE  JobState(k) = "active" /\ JobTries(k) = raw.attempts
  <2>1. act /\ ~pend /\ ~dd /\ ~fw /\ some /\ CopyOf(k) = raw /\ k \in ToSet(arrivals)
    BY <1>3, <1>5, <1>7, <1>9, <1>12, <1>14 DEF Apart
  <2> QED
    BY <1>11, <2>1
<1>15. ASSUME NEW raw \in FailWindow, raw.id = k
       PROVE  JobState(k) = "active" /\ JobTries(k) = raw.attempts - 1
  <2>1. act /\ ~pend /\ ~dd /\ fw /\ some /\ CopyOf(k) = raw /\ k \in ToSet(arrivals)
    BY <1>3, <1>5, <1>7, <1>9, <1>12, <1>15 DEF Apart
  <2> QED
    BY <1>11, <2>1
<1>16. ASSUME NEW raw \in Pending, raw.id = k
       PROVE  JobState(k) = "pending" /\ JobTries(k) = raw.attempts
  <2>1. ~act /\ pend /\ ~dd /\ ~fw /\ some /\ CopyOf(k) = raw /\ k \in ToSet(arrivals)
    BY <1>3, <1>5, <1>7, <1>9, <1>12, <1>16 DEF Apart
  <2> QED
    BY <1>11, <2>1
<1>17. ASSUME NEW raw \in D, raw.id = k
       PROVE  JobState(k) = "dead" /\ JobTries(k) = raw.attempts
  <2>1. ~act /\ ~pend /\ dd /\ ~fw /\ some /\ CopyOf(k) = raw /\ k \in ToSet(arrivals)
    BY <1>3, <1>5, <1>7, <1>9, <1>12, <1>17 DEF Apart
  <2> QED
    BY <1>11, <2>1
<1>18. ASSUME k \in ToSet(arrivals), \A raw \in Somewhere : raw.id # k
       PROVE  JobState(k) = (IF k \in succeeded THEN "done" ELSE "lost") /\ JobTries(k) = 0
  <2>1. ~act /\ ~pend /\ ~dd /\ ~fw /\ ~some
    BY <1>5, <1>12, <1>18
  <2> QED
    BY <1>11, <1>18, <2>1
<1> QED
  BY <1>13, <1>14, <1>15, <1>16, <1>17, <1>18 DEF Abstracted, P, D

(* A job that no step touched looks the same to JobDelivery. *)
LEMMA UnmovedStays ==
  ASSUME NEW CONSTANT w, Workers = {w}
  PROVE  SInv /\ SInv' /\ Accepted /\ Accepted' =>
           \A k \in Jobs : Unmoved(k) => /\ JobState(k)' = JobState(k)
                                        /\ JobTries(k)' = JobTries(k)
<1>1. SInv /\ Accepted => \A k \in Jobs : Abstracted(k)
  BY MappingOfCopies
<1>2. (SInv /\ Accepted => \A k \in Jobs : Abstracted(k))'
  BY <1>1, PTL
<1> SUFFICES ASSUME SInv, SInv', Accepted, Accepted', NEW CONSTANT k \in Jobs, Unmoved(k)
             PROVE  JobState(k)' = JobState(k) /\ JobTries(k)' = JobTries(k)
  OBVIOUS
<1>a. Abstracted(k)
  BY <1>1
<1>3. Abstracted(k)'
  BY <1>2
<1>4. /\ Somewhere = Pending \union ToSet(processing) \union FailWindow \union ToSet(dead)
      /\ Somewhere' = Pending' \union ToSet(processing') \union FailWindow' \union ToSet(dead')
  <2>1. (Somewhere = Pending \union ToSet(processing) \union FailWindow \union ToSet(dead))'
    BY PlacesOfJobs, PTL
  <2> QED
    BY <2>1, PlacesOfJobs
<1>5. CASE k \notin ToSet(arrivals)
  BY <1>a, <1>3, <1>5 DEF Unmoved, Abstracted
<1>6. CASE k \in ToSet(arrivals) /\ \A raw \in Somewhere : raw.id # k
  <2>1. \A raw \in Somewhere' : raw.id # k
    BY <1>4, <1>6 DEF Unmoved
  <2> QED
    BY <1>a, <1>3, <1>6, <2>1 DEF Unmoved, Abstracted
<1>7. ASSUME NEW raw \in Somewhere, raw.id = k
      PROVE  JobState(k)' = JobState(k) /\ JobTries(k)' = JobTries(k)
  BY <1>a, <1>3, <1>4, <1>7 DEF Unmoved, Abstracted
<1> QED
  BY <1>5, <1>6, <1>7

(* The invariant of the refinement: no job vanishes, none is in two       *)
(* places, none that was not enqueued succeeds.                            *)
RefInv == VInv /\ SInv /\ Accepted

(* No job is there to be counted at the start. *)
LEMMA RefInvInit == Init => RefInv
<1>1. Init => Accepted
  BY DEF Init, Accepted
<1> QED
  BY <1>1, VInvInit, SInvInit DEF RefInv

(* Only DispatchOk adds to the successes, and its job is in processing.    *)
LEMMA RefInvStep ==
  ASSUME NEW w, Workers = {w}, CrashPoints \intersect Windows = {}
  PROVE  RefInv /\ [Next]_vars => RefInv'
<1> SUFFICES ASSUME RefInv, [Next]_vars PROVE Accepted'
  BY VInvStep, SInvStep DEF RefInv
<1>0. /\ SInv /\ Accepted /\ InHand /\ Known /\ arrivals \in Seq(Jobs)
  BY DEF RefInv, SInv, TInv, History
<1>1. ASSUME NEW j \in Jobs, Enqueue(j) PROVE Accepted'
  <2>1. ToSet(arrivals') = ToSet(arrivals) \union {j} /\ succeeded' = succeeded
    BY <1>0, <1>1, AppendKeeps DEF Enqueue
  <2> QED
    BY <1>0, <2>1 DEF Accepted
<1>2. ASSUME DispatchOk(w) PROVE Accepted'
  <2>1. processing = <<hand[w]>> /\ arrivals' = arrivals
        /\ succeeded' = succeeded \union {hand[w].id}
    BY <1>0, <1>2 DEF DispatchOk, InHand
  <2>2. hand[w] \in ToSet(processing)
    BY <2>1 DEF ToSet
  <2> QED
    BY <1>0, <2>1, <2>2 DEF Accepted, Known, Somewhere, Stored
<1>3. ASSUME UNCHANGED <<succeeded, arrivals>> PROVE Accepted'
  BY <1>0, <1>3 DEF Accepted
<1>4. ASSUME WorkerStep(w) \/ Stop(w) \/ Crash(w), ~DispatchOk(w)
      PROVE  UNCHANGED <<succeeded, arrivals>>
  BY <1>4
  DEF WorkerStep, Handle, Start, RecoverOne, RecoverDone, DrainScan, DrainRemove, DrainPush,
      DrainDone, Reserve, ReserveTimeout, DispatchFail, Acknowledge, FailRemove,
      ScheduleRetry, DeadLetter, Stop, Crash, history
<1>5. ASSUME NEW raw \in retry, BecomeDue(raw) PROVE UNCHANGED <<succeeded, arrivals>>
  BY <1>5 DEF BecomeDue, history
<1>6. CASE UNCHANGED vars
  BY <1>3, <1>6 DEF vars, history
<1> QED
  BY <1>1, <1>2, <1>3, <1>4, <1>5, <1>6 DEF Next

(* How JobDelivery sees a step of one job while the others stay. *)
Elsewhere(k) == \A j \in Jobs \ {k} : JobState(j)' = JobState(j) /\ JobTries(j)' = JobTries(j)

(* The change of the one job that moves. *)
LEMMA MoveOfOne ==
  ASSUME NEW k \in Jobs, Elsewhere(k), NEW from, NEW to,
         JobState(k) = from, JobState(k)' = to
  PROVE  Delivery!Move(k, from, to)
<1>1. \A j \in Jobs \ {k} : JobState(j)' = JobState(j)
  BY DEF Elsewhere
<1> DEFINE f == [j \in Jobs |-> JobState(j)]
           g == [j \in Jobs |-> JobState(j)']
<1>2. g = [f EXCEPT ![k] = to] /\ f[k] = from
  BY <1>1
<1> QED
  BY <1>2 DEF Delivery!Move

(* The same for the counters. *)
LEMMA TriesOfOne ==
  ASSUME NEW k \in Jobs, Elsewhere(k), NEW n, JobTries(k)' = n
  PROVE  /\ [j \in Jobs |-> JobTries(j)]' = [[j \in Jobs |-> JobTries(j)] EXCEPT ![k] = n]
         /\ n = JobTries(k) => [j \in Jobs |-> JobTries(j)]' = [j \in Jobs |-> JobTries(j)]
  BY DEF Elsewhere

(* A step that changes no job is a stutter. *)
LEMMA NothingSeen ==
  ASSUME \A j \in Jobs : JobState(j)' = JobState(j) /\ JobTries(j)' = JobTries(j)
  PROVE  UNCHANGED Delivery!vars
  BY DEF Delivery!vars

(* At the start no job has arrived. *)
LEMMA NewAtFirst ==
  ASSUME NEW w, Workers = {w}
  PROVE  Init => Delivery!Init
<1> SUFFICES ASSUME Init PROVE Delivery!Init
  OBVIOUS
<1>1. ToSet(arrivals) = {}
  BY DEF Init, ToSet
<1>2. \A k \in Jobs : JobState(k) = "new" /\ JobTries(k) = 0
  BY <1>1, RefInvInit, MappingOfCopies DEF RefInv, Abstracted
<1> QED
  BY <1>2 DEF Delivery!Init

(* Each step of the queue is one of JobDelivery, or none: the two halves   *)
(* of fail_or_retry_job are one failure, and the drain is nothing at all.  *)
LEMMA RefinementStep ==
  ASSUME NEW CONSTANT w, Workers = {w}, CrashPoints \intersect Windows = {}
  PROVE  RefInv /\ RefInv' /\ [Next]_vars => [Delivery!Next]_(Delivery!vars)
<1>1. SInv /\ Accepted => \A k \in Jobs : Abstracted(k)
  BY MappingOfCopies
<1>2. (SInv /\ Accepted => \A k \in Jobs : Abstracted(k))'
  BY <1>1, PTL
<1> SUFFICES ASSUME RefInv, RefInv', [Next]_vars PROVE [Delivery!Next]_(Delivery!vars)
  OBVIOUS
<1> DEFINE Goal == [Delivery!Next]_(Delivery!vars)
<1>0. /\ Single /\ Separate /\ InHand /\ Known /\ AckIsSuccess
      /\ waiting \in Seq(Fresh) /\ processing \in Seq(Fresh) /\ dead \in Seq(Raw)
      /\ retry \subseteq Fresh /\ arrivals \in Seq(Jobs)
      /\ pc \in [{w} -> Places] /\ hand \in [{w} -> Raw \union {None}]
      /\ pc[w] \in {"drainPush", "run", "ack", "fail"} => hand[w] \in Fresh
      /\ pc[w] = "failPush" => hand[w] \in Raw
  BY DEF RefInv, VInv, SInv, TInv, Lists, Loop, History
<1>a. \A k \in Jobs : Abstracted(k) /\ Abstracted(k)'
  BY <1>1, <1>2 DEF RefInv
<1>b. \A k \in Jobs : Unmoved(k) => JobState(k)' = JobState(k) /\ JobTries(k)' = JobTries(k)
  BY UnmovedStays DEF RefInv
<1>c. /\ DrainWindow = IF pc[w] = "drainPush" THEN {hand[w]} ELSE {}
      /\ DrainWindow' = IF pc'[w] = "drainPush" THEN {hand'[w]} ELSE {}
  BY DEF DrainWindow
<1>d. /\ FailWindow = IF pc[w] = "failPush" THEN {hand[w]} ELSE {}
      /\ FailWindow' = IF pc'[w] = "failPush" THEN {hand'[w]} ELSE {}
  BY DEF FailWindow
<1>e. /\ Pending = ToSet(waiting) \union retry \union DrainWindow
      /\ Pending' = ToSet(waiting') \union retry' \union DrainWindow'
  BY DEF Pending
<1>f. ASSUME \A k \in Jobs : Unmoved(k) PROVE Goal
  BY <1>b, <1>f, NothingSeen
<1>g. ASSUME NEW k \in Jobs, \A j \in Jobs \ {k} : Unmoved(j) PROVE Elsewhere(k)
  BY <1>b, <1>g DEF Elsewhere
<1>h. \A raw \in Raw : raw.id \in Jobs /\ raw.attempts \in 0..MaxRetry + 1
  BY DEF Raw
<1>i. \A raw \in Fresh : raw.id \in Jobs /\ raw.attempts \in 0..MaxRetry
  BY DEF Fresh
<1>j. Somewhere = Pending \union ToSet(processing) \union FailWindow \union ToSet(dead)
  BY PlacesOfJobs
(* Steps that move no job. *)
<1>3. ASSUME UNCHANGED <<waiting, processing, retry, dead, arrivals, succeeded>>,
             DrainWindow' = DrainWindow, FailWindow' = FailWindow
      PROVE  Goal
  <2>1. Pending' = Pending
    BY <1>e, <1>3
  <2> QED
    BY <1>3, <1>f, <2>1 DEF Unmoved
<1>4. ASSUME \/ Start(w) \/ RecoverDone(w) \/ DrainScan(w) \/ DrainDone(w)
             \/ ReserveTimeout(w) \/ DispatchFail(w) \/ Stop(w)
      PROVE  Goal
  <2>1. UNCHANGED <<waiting, processing, retry, dead, arrivals, succeeded>>
    BY <1>4
    DEF Start, RecoverDone, DrainScan, DrainDone, ReserveTimeout, DispatchFail, Stop,
        redis, history
  <2>2. /\ pc[w] \notin {"drainPush", "failPush"}
        /\ pc'[w] \notin {"drainPush", "failPush"}
    BY <1>0, <1>4
    DEF Start, RecoverDone, DrainScan, DrainDone, ReserveTimeout, DispatchFail, Stop, Goto
  <2> QED
    BY <1>3, <1>c, <1>d, <2>1, <2>2
<1>5. ASSUME Crash(w) PROVE Goal
  <2>1. UNCHANGED <<waiting, processing, retry, dead, arrivals, succeeded>>
    BY <1>5 DEF Crash, redis, history
  <2>2. pc[w] \notin {"drainPush", "failPush"} /\ pc'[w] = "down"
    BY <1>0, <1>5 DEF Crash, Goto, Windows
  <2> QED
    BY <1>3, <1>c, <1>d, <2>1, <2>2
<1>6. ASSUME NEW raw \in retry, BecomeDue(raw) PROVE Goal
  <2>1. UNCHANGED <<waiting, processing, retry, dead, arrivals, succeeded, pc, hand>>
    BY <1>6 DEF BecomeDue, history
  <2> QED
    BY <1>3, <1>c, <1>d, <2>1
<1>7. ASSUME UNCHANGED vars PROVE Goal
  <2>1. UNCHANGED <<waiting, processing, retry, dead, arrivals, succeeded, pc, hand>>
    BY <1>7 DEF vars, redis, history
  <2> QED
    BY <1>3, <1>c, <1>d, <2>1
<1>8. ASSUME DispatchOk(w) PROVE Goal
  <2>1. /\ UNCHANGED <<waiting, processing, retry, dead, arrivals>>
        /\ succeeded' = succeeded \union {hand[w].id}
        /\ pc[w] = "run" /\ pc'[w] = "ack" /\ processing = <<hand[w]>>
    BY <1>0, <1>8 DEF DispatchOk, Goto, InHand, redis
  <2>2. /\ hand[w] \in Somewhere /\ DrainWindow' = DrainWindow /\ FailWindow' = FailWindow
    <3>1. hand[w] \in ToSet(processing)
      BY <2>1 DEF ToSet
    <3> QED
      BY <1>c, <1>d, <1>j, <2>1, <3>1
  <2>3. Pending' = Pending
    BY <1>e, <2>1, <2>2
  <2> QED
    BY <1>f, <2>1, <2>2, <2>3 DEF Unmoved
<1>9. ASSUME DrainRemove(w) PROVE Goal
  <2>1. /\ UNCHANGED <<waiting, processing, dead, arrivals, succeeded>> /\ pc[w] = "drain"
        /\ \E raw \in batch[w] :
             /\ retry' = retry \ {raw}
             /\ IF raw \in retry THEN hand'[w] = raw /\ pc'[w] = "drainPush"
                                 ELSE hand' = hand /\ pc' = pc
    BY <1>0, <1>9 DEF DrainRemove, Take, Goto, history
  <2>2. Pending' = Pending /\ FailWindow' = FailWindow
    BY <1>c, <1>d, <1>e, <2>1
  <2> QED
    BY <1>f, <2>1, <2>2 DEF Unmoved
<1>10. ASSUME DrainPush(w) PROVE Goal
  <2>1. /\ UNCHANGED <<processing, retry, dead, arrivals, succeeded>>
        /\ pc[w] = "drainPush" /\ pc'[w] = "drain"
        /\ ToSet(waiting') = ToSet(waiting) \union {hand[w]}
    BY <1>0, <1>10, AppendKeeps DEF DrainPush, Goto, history
  <2>2. Pending' = Pending /\ FailWindow' = FailWindow
    BY <1>c, <1>d, <1>e, <2>1
  <2> QED
    BY <1>f, <2>1, <2>2 DEF Unmoved
(* A delivery that failed: LREM first, still the same delivery. *)
<1>11. ASSUME FailRemove(w) PROVE Goal
  <2>1. /\ hand[w] \in Fresh /\ pc[w] = "fail" /\ pc'[w] = "failPush"
        /\ processing = <<hand[w]>>
        /\ UNCHANGED <<waiting, retry, dead, arrivals, succeeded>>
    BY <1>0, <1>11 DEF FailRemove, InHand, Goto, history
  <2>0. PICK k \in Jobs : k = hand[w].id
    BY <1>i, <2>1
  <2>2. hand'[w].id = k /\ hand'[w].attempts = hand[w].attempts + 1
    BY <1>0, <1>11, <2>0, <2>1 DEF FailRemove, Fresh
  <2>3. ToSet(processing) = {hand[w]} /\ ToSet(processing') = {}
    BY <1>11, <2>1, RemoveOnly DEF FailRemove, ToSet
  <2>4. /\ Pending' = Pending /\ FailWindow = {} /\ FailWindow' = {hand'[w]}
    BY <1>c, <1>d, <1>e, <2>1
  <2>5. \A j \in Jobs \ {k} : Unmoved(j)
    BY <2>0, <2>1, <2>2, <2>3, <2>4 DEF Unmoved
  <2>6. JobState(k) = "active" /\ JobTries(k) = hand[w].attempts
    BY <1>a, <2>0, <2>3, <2>4 DEF Abstracted
  <2>7. JobState(k)' = "active" /\ JobTries(k)' = hand'[w].attempts - 1
    BY <1>a, <2>2, <2>4 DEF Abstracted
  <2>8. JobTries(k)' = JobTries(k)
    BY <1>i, <2>1, <2>2, <2>6, <2>7, QueueAssumption
  <2> QED
    BY <1>b, <2>5, <2>6, <2>7, <2>8, NothingSeen
(* Steps of one job. *)
<1>12. ASSUME NEW k \in Jobs, Enqueue(k) PROVE Goal
  <2> DEFINE raw == [id |-> k, attempts |-> 0]
  <2>1. /\ k \notin ToSet(arrivals) /\ raw \in Fresh /\ raw.id = k /\ raw.attempts = 0
        /\ UNCHANGED <<processing, retry, dead, pc, hand, succeeded>>
        /\ ToSet(waiting') = ToSet(waiting) \union {raw}
        /\ ToSet(arrivals') = ToSet(arrivals) \union {k}
    <3>1. raw \in Fresh
      BY QueueAssumption DEF Fresh
    <3> QED
      BY <1>0, <1>12, <3>1, AppendKeeps DEF Enqueue
  <2> HIDE DEF raw
  <2>2. Pending' = Pending \union {raw} /\ FailWindow' = FailWindow
    BY <1>c, <1>d, <1>e, <2>1
  <2>3. Elsewhere(k)
    BY <1>g, <2>1, <2>2 DEF Unmoved
  <2>4. JobState(k) = "new" /\ JobTries(k) = 0
    BY <1>a, <2>1 DEF Abstracted
  <2>5. JobState(k)' = "pending" /\ JobTries(k)' = 0
    BY <1>a, <2>1, <2>2 DEF Abstracted
  <2>6. Delivery!Submit(k)
    BY <2>3, <2>4, <2>5, MoveOfOne, TriesOfOne DEF Delivery!Submit
  <2> QED
    BY <2>6 DEF Delivery!Next
<1>13. ASSUME RecoverOne(w) PROVE Goal
  <2> DEFINE raw == Head(processing)
  <2>1. /\ raw \in Fresh /\ raw \in ToSet(processing)
        /\ ToSet(processing) = ToSet(processing') \union {raw}
        /\ ToSet(waiting') = ToSet(waiting) \union {raw}
        /\ UNCHANGED <<retry, dead, pc, hand, arrivals, succeeded>> /\ pc[w] = "recover"
    <3>1. raw \in Fresh /\ ToSet(processing) = ToSet(processing') \union {raw}
      BY <1>0, <1>13, TailKeeps DEF RecoverOne
    <3> QED
      BY <1>0, <1>13, <3>1, AppendKeeps DEF RecoverOne, history
  <2> HIDE DEF raw
  <2>0. PICK k \in Jobs : k = raw.id
    BY <1>i, <2>1
  <2>2. Pending' = Pending \union {raw} /\ FailWindow' = FailWindow
    BY <1>c, <1>d, <1>e, <2>1
  <2>3. Elsewhere(k)
    BY <1>g, <2>0, <2>1, <2>2 DEF Unmoved
  <2>4. JobState(k) = "active" /\ JobTries(k) = raw.attempts
    BY <1>a, <2>0, <2>1, <2>2 DEF Abstracted
  <2>5. JobState(k)' = "pending" /\ JobTries(k)' = raw.attempts
    BY <1>a, <2>0, <2>2 DEF Abstracted
  <2>6. Delivery!Abort(k)
    BY <2>3, <2>4, <2>5, MoveOfOne, TriesOfOne DEF Delivery!Abort
  <2> QED
    BY <2>6 DEF Delivery!Next
<1>14. ASSUME Reserve(w) PROVE Goal
  <2> DEFINE raw == Head(waiting)
  <2>1. /\ raw \in Fresh /\ raw \in ToSet(waiting)
        /\ ToSet(waiting) = ToSet(waiting') \union {raw}
        /\ ToSet(processing') = ToSet(processing) \union {raw}
        /\ UNCHANGED <<retry, dead, arrivals, succeeded>>
        /\ pc[w] = "reserve" /\ pc'[w] = "run"
    <3>1. raw \in Fresh /\ ToSet(waiting) = ToSet(waiting') \union {raw}
      BY <1>0, <1>14, TailKeeps DEF Reserve
    <3> QED
      BY <1>0, <1>14, <3>1, AppendKeeps DEF Reserve, Goto
  <2> HIDE DEF raw
  <2>0. PICK k \in Jobs : k = raw.id
    BY <1>i, <2>1
  <2>2. Pending = Pending' \union {raw} /\ FailWindow' = FailWindow
    BY <1>c, <1>d, <1>e, <2>1
  <2>3. Elsewhere(k)
    BY <1>g, <2>0, <2>1, <2>2 DEF Unmoved
  <2>4. JobState(k) = "pending" /\ JobTries(k) = raw.attempts
    BY <1>a, <2>0, <2>2 DEF Abstracted
  <2>5. JobState(k)' = "active" /\ JobTries(k)' = raw.attempts
    BY <1>a, <2>0, <2>1, <2>2 DEF Abstracted
  <2>6. Delivery!Deliver(k)
    BY <2>3, <2>4, <2>5, MoveOfOne, TriesOfOne DEF Delivery!Deliver
  <2> QED
    BY <2>6 DEF Delivery!Next
(* The job in hand leaves the processing list and is nowhere else. *)
<1>15. ASSUME Acknowledge(w) PROVE Goal
  <2>1. /\ hand[w] \in Fresh /\ pc[w] = "ack" /\ pc'[w] = "poll" /\ hand[w].id \in succeeded
        /\ processing = <<hand[w]>>
        /\ UNCHANGED <<waiting, retry, dead, arrivals, succeeded>>
    BY <1>0, <1>15 DEF Acknowledge, InHand, Goto, AckIsSuccess, history
  <2>0. PICK k \in Jobs : k = hand[w].id
    BY <1>i, <2>1
  <2>2. ToSet(processing) = {hand[w]} /\ ToSet(processing') = {}
    BY <1>15, <2>1, RemoveOnly DEF Acknowledge, ToSet
  <2>3. /\ Pending' = Pending /\ FailWindow = {} /\ FailWindow' = {} /\ DrainWindow = {}
    BY <1>c, <1>d, <1>e, <2>1
  <2>4. Elsewhere(k)
    BY <1>g, <2>0, <2>1, <2>2, <2>3 DEF Unmoved
  <2>5. JobState(k) = "active"
    BY <1>a, <2>0, <2>2, <2>3 DEF Abstracted
  <2>6. k \in ToSet(arrivals')
    BY <1>0, <1>j, <2>0, <2>1, <2>2 DEF Known
  <2>7. \A raw \in Somewhere' : raw.id # k
    <3>1. Somewhere' = Pending' \union ToSet(processing') \union FailWindow' \union ToSet(dead')
      <4>1. (Somewhere = Pending \union ToSet(processing) \union FailWindow \union ToSet(dead))'
        BY PlacesOfJobs, PTL
      <4> QED
        BY <4>1
    <3>2. Somewhere' = ToSet(waiting) \union retry \union ToSet(dead)
      BY <1>e, <2>1, <2>2, <2>3, <3>1
    <3> QED
      BY <1>0, <2>0, <2>2, <3>2 DEF Separate, Apart
  <2>8. JobState(k)' = "done" /\ JobTries(k)' = 0
    BY <1>a, <2>0, <2>1, <2>3, <2>6, <2>7 DEF Abstracted
  <2>9. Delivery!Settle(k)
    BY <2>4, <2>5, <2>8, MoveOfOne, TriesOfOne DEF Delivery!Settle
  <2> QED
    BY <2>9 DEF Delivery!Next
<1>16. ASSUME ScheduleRetry(w) PROVE Goal
  <2> DEFINE n == hand[w].attempts
  <2>1. /\ hand[w] \in Raw /\ pc[w] = "failPush" /\ pc'[w] = "poll" /\ n <= MaxRetry
        /\ retry' = retry \union {hand[w]}
        /\ UNCHANGED <<waiting, processing, dead, arrivals, succeeded>>
    BY <1>0, <1>16 DEF ScheduleRetry, Goto, history
  <2>0. PICK k \in Jobs : k = hand[w].id
    BY <1>h, <2>1
  <2>2. /\ Pending' = Pending \union {hand[w]} /\ FailWindow = {hand[w]} /\ FailWindow' = {}
        /\ n \in Nat
    BY <1>c, <1>d, <1>e, <1>h, <2>1, QueueAssumption
  <2>3. Elsewhere(k)
    BY <1>g, <2>0, <2>1, <2>2 DEF Unmoved
  <2>4. JobState(k) = "active" /\ JobTries(k) = n - 1
    BY <1>a, <2>0, <2>2 DEF Abstracted
  <2>5. JobState(k)' = "pending" /\ JobTries(k)' = n
    BY <1>a, <2>0, <2>2 DEF Abstracted
  <2>6. n = (n - 1) + 1 /\ n - 1 < MaxRetry
    BY <2>1, <2>2, QueueAssumption
  <2>7. Delivery!Fail(k)
    BY <2>3, <2>4, <2>5, <2>6, MoveOfOne, TriesOfOne DEF Delivery!Fail
  <2> QED
    BY <2>7 DEF Delivery!Next
<1>17. ASSUME DeadLetter(w) PROVE Goal
  <2> DEFINE n == hand[w].attempts
  <2>1. /\ hand[w] \in Raw /\ pc[w] = "failPush" /\ pc'[w] = "poll" /\ n > MaxRetry
        /\ ToSet(dead') = ToSet(dead) \union {hand[w]}
        /\ UNCHANGED <<waiting, processing, retry, arrivals, succeeded>>
    BY <1>0, <1>17, AppendKeeps DEF DeadLetter, Goto, history
  <2>0. PICK k \in Jobs : k = hand[w].id
    BY <1>h, <2>1
  <2>2. /\ Pending' = Pending /\ FailWindow = {hand[w]} /\ FailWindow' = {}
        /\ n \in 0..MaxRetry + 1
    BY <1>c, <1>d, <1>e, <1>h, <2>1
  <2>3. Elsewhere(k)
    BY <1>g, <2>0, <2>1, <2>2 DEF Unmoved
  <2>4. JobState(k) = "active" /\ JobTries(k) = n - 1
    BY <1>a, <2>0, <2>2 DEF Abstracted
  <2>5. JobState(k)' = "dead" /\ JobTries(k)' = n
    BY <1>a, <2>0, <2>1, <2>2 DEF Abstracted
  <2>6. n = (n - 1) + 1 /\ n - 1 = MaxRetry
    BY <2>1, <2>2, QueueAssumption
  <2>7. Delivery!Fail(k)
    BY <2>3, <2>4, <2>5, <2>6, MoveOfOne, TriesOfOne DEF Delivery!Fail
  <2> QED
    BY <2>7 DEF Delivery!Next
<1> HIDE DEF Goal
<1>18. ASSUME WorkerStep(w) \/ Stop(w) \/ Crash(w) PROVE Goal
  BY <1>4, <1>8, <1>9, <1>10, <1>11, <1>13, <1>14, <1>15, <1>16, <1>17, <1>5, <1>18
  DEF WorkerStep, Handle
<1>19. Goal
  BY <1>12, <1>6, <1>7, <1>18 DEF Next
<1> QED
  BY <1>19 DEF Goal

(* The queue as docker-compose.yml runs it, one worker that may die        *)
(* wherever a job is stored in redis, delivers each job as JobDelivery     *)
(* promises: one delivery at a time, repeated when it is cut short, until  *)
(* one succeeds or MaxRetry + 1 of them have failed.                       *)
THEOREM QueueImplementsDelivery ==
  ASSUME NEW CONSTANT w, Workers = {w}, CrashPoints \intersect Windows = {}
  PROVE  Spec => ImplementsDelivery
<1>1. Spec => []RefInv
  BY RefInvInit, RefInvStep, PTL DEF Spec
<1>2. Init => Delivery!Init
  BY NewAtFirst
<1>3. RefInv /\ RefInv' /\ [Next]_vars => [Delivery!Next]_(Delivery!vars)
  BY RefinementStep
<1> QED
  BY <1>1, <1>2, <1>3, PTL DEF Spec, ImplementsDelivery, Delivery!Spec
=============================================================================
