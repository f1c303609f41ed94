------------------------ MODULE LaunchTrackerProofs ------------------------
(* Proofs about LaunchTracker, for any pids, any number of launches, and   *)
(* any capacities: whatever the kernel loses, repeats or has to drop, and  *)
(* whatever pids it reuses, an exit closes the launch it belongs to unless *)
(* the events that would tell them apart are gone.                         *)
EXTENDS LaunchTracker, FiniteSetTheorems, SequenceTheorems, TLAPS

StartOf(n) == [kind |-> "start", launch |-> n]
StopOf(n)  == [kind |-> "stop", launch |-> n]
AgainOf(n) == [kind |-> "again", launch |-> n]

Awaited(e) == \E i \in 1..Len(queue) : queue[i] = e
Due(e)     == Awaited(e) \/ e \in lost
SamePid(n, m) == pidOf[n] = pidOf[m]
Running(n)    == \E p \in Pids : live[p] = n

(* The kernel: launches start in the order of their numbers, and a pid     *)
(* runs one at a time, its newest.                                         *)
KernelInv ==
  /\ \A n \in Launches : Started(n) => \A m \in 1..n : Started(m)
  /\ \A p \in Pids, n \in Launches : live[p] = n =>
       pidOf[n] = p /\ \A x \in Launches : pidOf[x] = p => x <= n

(* Of the pid of launch n, the tracker has seen nothing later than n.      *)
Ahead(n) ==
  /\ Started(n)
  /\ \A x \in Launches : SamePid(x, n) /\ x > n => Due(StartOf(x))
  /\ \A x \in Launches : SamePid(x, n) /\ Tracked(x) => x <= n

(* The exit of launch n is still to come, or will never come.              *)
Ends(n) == Running(n) \/ Due(StopOf(n))

(* The events of one pid wait in the order they happened in, but for the   *)
(* starts that come again.                                                 *)
InOrder ==
  \A i, j \in 1..Len(queue), n, m \in Launches :
    /\ i < j /\ SamePid(n, m) /\ queue[j].kind # "again"
    /\ queue[i].launch = n /\ queue[j].launch = m
    => n <= m /\ (n = m => queue[i].kind = "start")

QueueInv ==
  /\ InOrder
  /\ \A n \in Launches : Awaited(StartOf(n)) => Ahead(n) /\ Ends(n)
  /\ \A n \in Launches : Awaited(StopOf(n)) => Ahead(n) /\ ~Running(n)
  /\ \A n \in Launches : Awaited(AgainOf(n)) => Started(n) /\ ~Running(n) /\ Late(n)

(* What may have closed launch n: its own exit, or one that is all the     *)
(* queue let through since.                                                *)
MayClose(n, m) ==
  /\ Started(n) /\ ~Running(n) /\ Started(m)
  /\ m # n =>
      /\ m > n /\ SamePid(m, n) /\ StopOf(n) \in lost
      /\ \A x \in (n + 1)..m : SamePid(x, n) => StartOf(x) \in lost

(* Of a launch whose start comes again after its exit, the tracker knows   *)
(* nothing but that it started.                                            *)
TrackerInv ==
  /\ \A n \in Launches : Tracked(n) => Started(n)
  /\ \A p \in Pids, n \in Launches : pidIndex[p] = n /\ ~Late(n) => Ahead(n) /\ Ends(n)
  /\ \A n, m \in Launches : Tracked(n) /\ pending[n].exit = m /\ ~Late(n) =>
       MayClose(n, m) /\ ~Awaited(StartOf(n))

(* A launch with a final row is over and done with.                        *)
Over(n) == Started(n) /\ ~Running(n) /\ ~Tracked(n) /\ ~Awaited(StartOf(n))

RowsInv ==
  \A n \in Launches : ~Late(n) =>
    /\ \A m \in Launches : rows[n].exit = m => MayClose(n, m)
    /\ Final(rows[n]) => Over(n)

LaunchInv == TypeOK /\ KernelInv /\ QueueInv /\ TrackerInv /\ RowsInv

-----------------------------------------------------------------------------
(* Events, and the queue they wait in.                                     *)
LEMMA LaunchNumbers == ASSUME NEW n \in Launches PROVE n \in 1..N /\ n \in Nat /\ n # 0
BY LaunchConstants DEF Launches

LEMMA EventOfLaunch ==
  ASSUME NEW n \in Launches
  PROVE  /\ StartOf(n) \in Events /\ StartOf(n).kind = "start" /\ StartOf(n).launch = n
         /\ StopOf(n) \in Events /\ StopOf(n).kind = "stop" /\ StopOf(n).launch = n
         /\ AgainOf(n) \in Events /\ AgainOf(n).kind = "again" /\ AgainOf(n).launch = n
         /\ StartOf(n) \in Starts /\ AgainOf(n) \in Agains
         /\ Late(n) <=> AgainOf(n) \in repeated
         /\ StartOf(n) # StopOf(n) /\ AgainOf(n) # StartOf(n) /\ AgainOf(n) # StopOf(n)
BY DEF StartOf, StopOf, AgainOf, Events, Starts, Stops, Agains, Late

LEMMA EventIsOf ==
  ASSUME NEW e \in Events
  PROVE  /\ e.launch \in Launches /\ e.kind \in {"start", "stop", "again"}
         /\ e.kind = "start" => e = StartOf(e.launch)
         /\ e.kind = "stop" => e = StopOf(e.launch)
         /\ e.kind = "again" => e = AgainOf(e.launch)
BY DEF StartOf, StopOf, AgainOf, Events, Starts, Stops, Agains

LEMMA InQueue ==
  ASSUME TypeOK, NEW i \in 1..Len(queue)
  PROVE  /\ queue[i] \in Events
         /\ queue[i].launch \in Launches /\ queue[i].kind \in {"start", "stop", "again"}
         /\ queue[i].kind = "start" => queue[i] = StartOf(queue[i].launch)
         /\ queue[i].kind = "stop" => queue[i] = StopOf(queue[i].launch)
         /\ queue[i].kind = "again" => queue[i] = AgainOf(queue[i].launch)
<1>1. queue[i] \in Events
  BY ElementOfSeq DEF TypeOK
<1>2. QED
  BY <1>1, EventIsOf

(* What is offered joins the queue at its end or is lost.                  *)
LEMMA OfferedQueue ==
  ASSUME TypeOK, NEW e \in Events, Offer(e)
  PROVE  /\ queue' \in Seq(Events) /\ Len(queue') <= QueueCap
         /\ lost' \subseteq Events /\ lost \subseteq lost'
         /\ Len(queue) \in Nat /\ Len(queue') \in Nat /\ Len(queue) <= Len(queue')
         /\ \A i \in 1..Len(queue) : i \in 1..Len(queue') /\ queue'[i] = queue[i]
         /\ \A i \in 1..Len(queue') : i \notin 1..Len(queue) => queue'[i] = e
         /\ Len(queue') <= Len(queue) + 1
         /\ e \in lost' \/ \E i \in 1..Len(queue') : queue'[i] = e
<1> USE DEF TypeOK
<1>0. Len(queue) \in Nat /\ QueueCap \in Nat
  BY LaunchConstants
<1>1. CASE Queued(e)
  <2>1. queue' = Append(queue, e) /\ lost' = lost /\ Len(queue) < QueueCap
    BY <1>1 DEF Queued
  <2>2. queue' \in Seq(Events) /\ Len(queue') = Len(queue) + 1
    BY <2>1, AppendProperties
  <2>3. \A i \in 1..Len(queue) : queue'[i] = queue[i]
    BY <2>1, AppendProperties
  <2>4. queue'[Len(queue) + 1] = e
    BY <2>1, AppendProperties
  <2>5. \A i \in 1..Len(queue') : i \notin 1..Len(queue) => i = Len(queue) + 1
    BY <1>0, <2>2
  <2>6. Len(queue) + 1 \in 1..Len(queue') /\ \A i \in 1..Len(queue) : i \in 1..Len(queue')
    BY <1>0, <2>2
  <2>7. Len(queue') <= QueueCap /\ Len(queue') \in Nat
    BY <1>0, <2>1, <2>2
  <2>8. QED
    BY <1>0, <2>1, <2>2, <2>3, <2>4, <2>5, <2>6, <2>7
<1>2. CASE Dropped(e)
  BY <1>0, <1>2 DEF Dropped
<1>3. QED
  BY <1>1, <1>2 DEF Offer

(* The loop takes the head.                                                *)
LEMMA TakenQueue ==
  ASSUME TypeOK, queue # << >>, queue' = Tail(queue), lost' = lost
  PROVE  /\ queue' \in Seq(Events) /\ Len(queue') <= QueueCap
         /\ Len(queue) \in Nat \ {0} /\ Len(queue') = Len(queue) - 1
         /\ 1 \in 1..Len(queue) /\ Head(queue) = queue[1]
         /\ \A i \in 1..Len(queue') :
              i + 1 \in 1..Len(queue) /\ 1 < i + 1 /\ queue'[i] = queue[i + 1]
         /\ \A x : Awaited(x)' => Awaited(x)
         /\ \A x : x # Head(queue) /\ Due(x) => Due(x)'
<1>1. queue \in Seq(Events) /\ Len(queue) <= QueueCap /\ QueueCap \in Nat
  BY LaunchConstants DEF TypeOK
<1>2. /\ Head(queue) = queue[1] /\ Len(queue) \in Nat \ {0}
      /\ queue' \in Seq(Events) /\ Len(queue') = Len(queue) - 1
      /\ \A i \in 1..Len(queue') : queue'[i] = queue[i + 1]
  BY <1>1, EmptySeq, HeadTailProperties
<1>3. \A i \in 1..Len(queue') : i + 1 \in 1..Len(queue) /\ 1 < i + 1
  BY <1>2
<1>4. \A x : Awaited(x)' => Awaited(x)
  BY <1>2, <1>3 DEF Awaited
<1>5. \A j \in 1..Len(queue) : j = 1 \/ (j - 1 \in 1..Len(queue') /\ queue'[j - 1] = queue[j])
  <2> SUFFICES ASSUME NEW j \in 1..Len(queue), j # 1
               PROVE  j - 1 \in 1..Len(queue') /\ queue'[j - 1] = queue[j]
    OBVIOUS
  <2>1. j - 1 \in 1..Len(queue') /\ (j - 1) + 1 = j
    BY <1>2
  <2>2. QED
    BY <1>2, <2>1
<1>6. \A x : x # Head(queue) /\ Due(x) => Due(x)'
  BY <1>2, <1>5 DEF Due, Awaited
<1>7. QED
  BY <1>1, <1>2, <1>3, <1>4, <1>6

-----------------------------------------------------------------------------
(* What the tracker holds and what the table says stay true of a kernel    *)
(* that only moves on.                                                     *)
MovesOn ==
  /\ \A x \in Launches : Started(x) => pidOf'[x] = pidOf[x] /\ (Running(x)' => Running(x))
  /\ lost \subseteq lost' /\ repeated \subseteq repeated'

LEMMA MayCloseStays ==
  ASSUME KernelInv, MovesOn, NEW n \in Launches, NEW m \in Launches, MayClose(n, m)
  PROVE  MayClose(n, m)'
<1>1. Started(n) /\ Started(m) /\ pidOf'[n] = pidOf[n] /\ pidOf'[m] = pidOf[m]
  BY DEF MayClose, MovesOn
<1>2. Started(n)' /\ ~Running(n)' /\ Started(m)'
  BY <1>1 DEF Started, MayClose, MovesOn
<1>3. \A x \in (n + 1)..m : x \in Launches /\ pidOf'[x] = pidOf[x]
  <2> SUFFICES ASSUME NEW x \in (n + 1)..m PROVE x \in Launches /\ pidOf'[x] = pidOf[x]
    OBVIOUS
  <2>1. x \in Launches /\ x \in 1..m
    BY LaunchNumbers, LaunchConstants DEF Launches
  <2>2. Started(x)
    BY <1>1, <2>1 DEF KernelInv
  <2>3. QED
    BY <2>1, <2>2 DEF MovesOn
<1>4. QED
  BY <1>1, <1>2, <1>3 DEF MayClose, SamePid, MovesOn

LEMMA LateStays == ASSUME MovesOn, NEW n PROVE ~Late(n)' => ~Late(n)
BY DEF MovesOn, Late

LEMMA OverStays ==
  ASSUME MovesOn, NEW n \in Launches, Over(n), Tracked(n)' => Tracked(n),
         Awaited(StartOf(n))' => Awaited(StartOf(n))
  PROVE  Over(n)'
BY DEF MovesOn, Over, Started

LEMMA ExitNumbers ==
  ASSUME TypeOK, NEW n \in Launches
  PROVE  /\ Tracked(n) /\ Closed(n) => pending[n].exit \in Launches
         /\ rows[n].exit # 0 => rows[n].exit \in Launches
         /\ Tracked(n) => pending[n] \in Pendings
         /\ rows[n] \in Rows \cup {NoRow}
<1>1. pending[n] \in Pendings \cup {Untracked} /\ rows[n] \in Rows \cup {NoRow}
  BY DEF TypeOK
<1>2. Tracked(n) => pending[n] \in Pendings /\ pending[n].exit \in 0..N
  BY <1>1 DEF Tracked, Pendings
<1>3. rows[n].exit \in 0..N
  <2>1. CASE rows[n] \in Rows
    BY <2>1 DEF Rows
  <2>2. CASE rows[n] = NoRow
    BY <2>2, LaunchConstants DEF NoRow
  <2>3. QED
    BY <1>1, <2>1, <2>2
<1>4. \A k \in 0..N : k # 0 => k \in Launches
  BY LaunchConstants DEF Launches
<1>5. QED
  BY <1>1, <1>2, <1>3, <1>4 DEF Closed

(* TypeOK's last word about the index, without its LET.                    *)
IndexLeads ==
  \A p \in Pids, n \in Launches : pidIndex[p] = n => pidOf[n] = p /\ Tracked(n) /\ ~Closed(n)

ExceptIndex ==
  /\ pidOf \in [Launches -> Pids \cup {NoPid}]
  /\ live \in [Pids -> 0..N]
  /\ age \in [Launches -> Young..Stale]
  /\ queue \in Seq(Events) /\ Len(queue) <= QueueCap
  /\ lost \subseteq Events /\ repeated \subseteq Starts \cup Agains
  /\ pc \in {"idle", "collected"}
  /\ sweep \in [Launches -> Sights]
  /\ pending \in [Launches -> Pendings \cup {Untracked}]
  /\ pidIndex \in [Pids -> 0..N]
  /\ stopsSeen \in Nat /\ orphanStops \in Nat /\ persisted \in Nat
  /\ stalePendingEvicted \in Nat
  /\ rows \in [Launches -> Rows \cup {NoRow}]

LEMMA TypeIs == TypeOK <=> ExceptIndex /\ IndexLeads
<1>1. \A k \in 0..N : k # 0 <=> k \in Launches
  BY LaunchConstants DEF Launches
<1>2. ExceptIndex => \A p \in Pids : pidIndex[p] \in 0..N
  BY DEF ExceptIndex
<1>3. ExceptIndex =>
        (IndexLeads <=> \A p \in Pids : pidIndex[p] # 0 =>
           LET n == pidIndex[p] IN pidOf[n] = p /\ Tracked(n) /\ ~Closed(n))
  BY <1>1, <1>2 DEF IndexLeads
<1>4. QED
  BY <1>3 DEF TypeOK, ExceptIndex

LEMMA NextTypeIs == ExceptIndex' /\ IndexLeads' => TypeOK'
<1> SUFFICES ASSUME ExceptIndex', IndexLeads', NEW p \in Pids, pidIndex'[p] # 0
             PROVE  /\ pidOf'[pidIndex'[p]] = p
                    /\ pending'[pidIndex'[p]] # Untracked
                    /\ ~(pending'[pidIndex'[p]].exit # 0)
  BY DEF TypeOK, ExceptIndex, Tracked, Closed
<1>1. pidIndex'[p] \in Launches
  BY LaunchConstants DEF Launches, ExceptIndex
<1>2. QED
  BY <1>1 DEF IndexLeads, Tracked, Closed

LEMMA PidOfStarted == ASSUME TypeOK, NEW n \in Launches, Started(n) PROVE pidOf[n] \in Pids
BY DEF TypeOK, Started

-----------------------------------------------------------------------------
(* A process starts.                                                       *)
LEMMA NewestStarts ==
  ASSUME TypeOK, KernelInv, NEW n \in Launches, ~Started(n)
  PROVE  \A x \in Launches : Started(x) => x < n
<1> SUFFICES ASSUME NEW x \in Launches, Started(x), ~(x < n) PROVE FALSE
  OBVIOUS
<1>1. n \in 1..x
  BY LaunchNumbers
<1>2. QED
  BY <1>1 DEF KernelInv

LEMMA StartsType ==
  ASSUME LaunchInv, NEW n \in Launches, NEW p \in Pids, ProcessStarts(n, p)
  PROVE  TypeOK'
<1>1. /\ TypeOK /\ ExceptIndex /\ IndexLeads
      /\ UNCHANGED <<repeated, age, pc, sweep, pending, pidIndex, stopsSeen, orphanStops,
                     persisted, stalePendingEvicted, rows>>
  BY TypeIs DEF LaunchInv, ProcessStarts, trackerVars, counterVars
<1>2. Offer(StartOf(n)) /\ pidOf' = [pidOf EXCEPT ![n] = p] /\ live' = [live EXCEPT ![p] = n]
  BY DEF ProcessStarts, StartOf
<1>3. queue' \in Seq(Events) /\ Len(queue') <= QueueCap /\ lost' \subseteq Events
  BY <1>1, <1>2, OfferedQueue, EventOfLaunch
<1>4. pidOf' \in [Launches -> Pids \cup {NoPid}] /\ live' \in [Pids -> 0..N]
  BY <1>1, <1>2, LaunchNumbers DEF ExceptIndex
<1>5. ExceptIndex'
  BY <1>1, <1>3, <1>4 DEF ExceptIndex
<1>6. pidOf[n] \notin Pids /\ \A x \in Launches : x # n => pidOf'[x] = pidOf[x]
  BY <1>1, <1>2, LaunchConstants DEF ProcessStarts, Started, ExceptIndex
<1>7. IndexLeads'
  BY <1>1, <1>6 DEF IndexLeads, Tracked, Closed
<1>8. QED
  BY <1>5, <1>7, NextTypeIs

LEMMA StartsKeeps ==
  ASSUME LaunchInv, NEW n \in Launches, NEW p \in Pids, ProcessStarts(n, p)
  PROVE  LaunchInv'
<1> USE DEF LaunchInv
<1>1. UNCHANGED <<repeated, pending, pidIndex, rows>> /\ live[p] = 0 /\ ~Started(n)
  BY DEF ProcessStarts, trackerVars
<1>2. Offer(StartOf(n)) /\ pidOf' = [pidOf EXCEPT ![n] = p] /\ live' = [live EXCEPT ![p] = n]
  BY DEF ProcessStarts, StartOf
<1>3. /\ pidOf'[n] = p /\ \A x \in Launches : x # n => pidOf'[x] = pidOf[x]
      /\ live'[p] = n /\ \A q \in Pids : q # p => live'[q] = live[q]
  BY <1>2 DEF TypeOK
<1>4. \A x \in Launches : (Started(x) => x < n /\ x # n) /\ (Started(x)' <=> Started(x) \/ x = n)
  BY <1>1, <1>3, NewestStarts, LaunchNumbers, LaunchConstants DEF Started
<1>5. \A x \in Launches : Running(x)' <=> Running(x) \/ x = n
  BY <1>1, <1>3, LaunchNumbers DEF Running
<1>6. MovesOn
  BY <1>1, <1>2, <1>3, <1>4, <1>5, OfferedQueue, EventOfLaunch DEF MovesOn
<1>7. /\ Len(queue) \in Nat /\ Len(queue') \in Nat /\ lost \subseteq lost'
      /\ \A i \in 1..Len(queue) : i \in 1..Len(queue') /\ queue'[i] = queue[i]
      /\ \A i \in 1..Len(queue') : i \notin 1..Len(queue) => queue'[i] = StartOf(n)
      /\ StartOf(n) \in lost' \/ \E i \in 1..Len(queue') : queue'[i] = StartOf(n)
  BY <1>2, OfferedQueue, EventOfLaunch
<1>8. /\ Due(StartOf(n))'
      /\ \A x \in Events : (Due(x) => Due(x)') /\ (Awaited(x)' => x = StartOf(n) \/ Awaited(x))
  BY <1>7 DEF Due, Awaited
<1>9. /\ StartOf(n).launch = n /\ StartOf(n).kind = "start"
      /\ \A x \in Launches : /\ StartOf(x) \in Events /\ StopOf(x) \in Events
                             /\ AgainOf(x) \in Events /\ AgainOf(x) # StartOf(n)
                             /\ StopOf(x) # StartOf(n) /\ (x # n => StartOf(x) # StartOf(n))
  BY EventOfLaunch DEF StartOf, StopOf, AgainOf
<1>10. \A x, y \in Launches : x # n /\ y # n => (SamePid(x, y)' <=> SamePid(x, y))
  BY <1>3 DEF SamePid
<1>11. KernelInv'
  <2>1. \A x \in Launches : Started(x)' => \A y \in 1..x : Started(y)'
    <3> SUFFICES ASSUME NEW x \in Launches, Started(x)', NEW y \in 1..x PROVE Started(y)'
      OBVIOUS
    <3>1. y \in Launches /\ y \in Nat
      BY LaunchConstants DEF Launches
    <3>2. CASE x # n
      BY <1>4, <3>1, <3>2 DEF KernelInv
    <3>3. CASE x = n
      <4>1. y = n \/ y \in 1..(n - 1)
        BY <3>1, <3>3, LaunchNumbers
      <4>2. QED
        BY <1>4, <3>1, <4>1 DEF ProcessStarts
    <3>4. QED
      BY <3>2, <3>3
  <2>2. ASSUME NEW q \in Pids, NEW x \in Launches, live'[q] = x
        PROVE  pidOf'[x] = q /\ \A y \in Launches : pidOf'[y] = q => y <= x
    <3>1. CASE q = p
      <4>1. x = n
        BY <1>3, <2>2, <3>1
      <4>2. \A y \in Launches : Started(y)' => y <= n
        BY <1>4, LaunchNumbers
      <4>3. \A y \in Launches : pidOf'[y] = p => Started(y)'
        BY LaunchConstants DEF Started
      <4>4. QED
        BY <1>3, <3>1, <4>1, <4>2, <4>3
    <3>2. CASE q # p
      <4>1. pidOf[x] = q /\ \A y \in Launches : pidOf[y] = q => y <= x
        BY <1>3, <2>2, <3>2 DEF KernelInv
      <4>2. x # n
        BY <4>1, <1>1, LaunchConstants DEF Started
      <4>3. QED
        BY <1>3, <3>2, <4>1, <4>2
    <3>3. QED
      BY <3>1, <3>2
  <2>3. QED
    BY <2>1, <2>2 DEF KernelInv
<1>12. ASSUME NEW k \in Launches, Ahead(k) PROVE Ahead(k)'
  <2>1. k # n /\ k < n /\ Started(k)'
    BY <1>4, <1>12 DEF Ahead
  <2>2. \A x \in Launches : SamePid(x, k)' /\ x > k => Due(StartOf(x))'
    BY <1>8, <1>9, <1>10, <1>12, <2>1 DEF Ahead
  <2>3. \A x \in Launches : SamePid(x, k)' /\ Tracked(x)' => x <= k
    <3>1. \A x \in Launches : Tracked(x)' => Tracked(x) /\ x # n
      BY <1>1, <1>4 DEF Tracked, TrackerInv
    <3>2. QED
      BY <1>10, <1>12, <2>1, <3>1 DEF Ahead
  <2>4. QED
    BY <2>1, <2>2, <2>3 DEF Ahead
<1>13. ASSUME NEW k \in Launches, Ends(k) PROVE Ends(k)'
  BY <1>5, <1>8, <1>9, <1>13 DEF Ends
<1>14. Ahead(n)'
  <2>1. \A x \in Launches : SamePid(x, n)' => Started(x)'
    BY <1>3, LaunchConstants DEF SamePid, Started
  <2>2. \A x \in Launches : Started(x)' => x <= n
    BY <1>4, LaunchNumbers
  <2>3. QED
    BY <1>4, <2>1, <2>2, LaunchNumbers DEF Ahead
<1>15. QueueInv'
  <2>1. ASSUME NEW i \in 1..Len(queue), NEW x \in Launches, queue[i].launch = x
        PROVE  Started(x) /\ x # n /\ x < n
    <3>1. Awaited(StartOf(x)) \/ Awaited(StopOf(x)) \/ Awaited(AgainOf(x))
      BY <2>1, InQueue DEF Awaited
    <3>2. QED
      BY <1>4, <3>1 DEF QueueInv, Ahead
  <2>2. InOrder'
    <3> SUFFICES ASSUME NEW i \in 1..Len(queue'), NEW j \in 1..Len(queue'),
                        NEW x \in Launches, NEW y \in Launches, i < j, SamePid(x, y)',
                        queue'[j].kind # "again", queue'[i].launch = x, queue'[j].launch = y
                 PROVE  x <= y /\ (x = y => queue'[i].kind = "start")
      BY DEF InOrder
    <3>1. CASE i \notin 1..Len(queue)
      <4>1. j \notin 1..Len(queue)
        BY <1>7, <3>1
      <4>2. QED
        BY <1>7, <1>9, <3>1, <4>1, LaunchNumbers
    <3>2. CASE i \in 1..Len(queue) /\ j \notin 1..Len(queue)
      <4>1. y = n /\ x < n
        BY <1>7, <1>9, <2>1, <3>2
      <4>2. QED
        BY <4>1, LaunchNumbers
    <3>3. CASE i \in 1..Len(queue) /\ j \in 1..Len(queue)
      <4>1. queue'[i] = queue[i] /\ queue'[j] = queue[j] /\ x # n /\ y # n
        BY <1>7, <2>1, <3>3
      <4>2. QED
        BY <1>10, <3>3, <4>1 DEF QueueInv, InOrder
    <3>4. QED
      BY <3>1, <3>2, <3>3
  <2>3. \A k \in Launches : Awaited(StartOf(k))' => Ahead(k)' /\ Ends(k)'
    <3>1. Ends(n)'
      BY <1>5 DEF Ends
    <3>2. QED
      BY <1>8, <1>9, <1>12, <1>13, <1>14, <3>1 DEF QueueInv
  <2>4. \A k \in Launches : Awaited(StopOf(k))' => Ahead(k)' /\ ~Running(k)'
    <3>1. \A k \in Launches : Awaited(StopOf(k))' => Awaited(StopOf(k))
      BY <1>8, <1>9
    <3>2. \A k \in Launches : Ahead(k) => k # n
      BY <1>4 DEF Ahead
    <3>3. QED
      BY <1>5, <1>12, <3>1, <3>2 DEF QueueInv
  <2>5. \A k \in Launches : Awaited(AgainOf(k))' => Started(k)' /\ ~Running(k)' /\ Late(k)'
    <3>1. \A k \in Launches : Awaited(AgainOf(k))' => Awaited(AgainOf(k))
      BY <1>8, <1>9
    <3>2. QED
      BY <1>1, <1>4, <1>5, <3>1 DEF QueueInv, Late
  <2>6. QED
    BY <2>2, <2>3, <2>4, <2>5 DEF QueueInv
<1>16. \A k \in Launches : Started(k) /\ ~Awaited(StartOf(k)) => Started(k)' /\ ~Awaited(StartOf(k))'
  BY <1>4, <1>8, <1>9
<1>17. TrackerInv'
  <2>1. \A k \in Launches : Tracked(k)' => Started(k)'
    BY <1>1, <1>4 DEF TrackerInv, Tracked
  <2>2. \A q \in Pids, k \in Launches : pidIndex'[q] = k /\ ~Late(k)' => Ahead(k)' /\ Ends(k)'
    BY <1>1, <1>6, <1>12, <1>13, LateStays DEF TrackerInv
  <2>3. \A k, m \in Launches : Tracked(k)' /\ pending'[k].exit = m /\ ~Late(k)' =>
          MayClose(k, m)' /\ ~Awaited(StartOf(k))'
    BY <1>1, <1>6, <1>16, MayCloseStays, LateStays DEF TrackerInv, Tracked
  <2>4. QED
    BY <2>1, <2>2, <2>3 DEF TrackerInv
<1>18. RowsInv'
  <2>1. \A k, m \in Launches : ~Late(k)' /\ rows'[k].exit = m => MayClose(k, m)'
    BY <1>1, <1>6, MayCloseStays, LateStays DEF RowsInv
  <2>2. \A k \in Launches : ~Late(k)' /\ Final(rows[k])' => Over(k)'
    <3>1. \A k \in Launches : Over(k) => Over(k)'
      BY <1>1, <1>6, <1>16, OverStays DEF Over, Tracked
    <3>2. QED
      BY <1>1, <1>6, <3>1, LateStays DEF RowsInv
  <2>3. QED
    BY <2>1, <2>2 DEF RowsInv
<1>19. QED
  BY <1>11, <1>15, <1>17, <1>18, StartsType

-----------------------------------------------------------------------------
(* A process exits.                                                        *)
LEMMA ExitsType ==
  ASSUME LaunchInv, NEW p \in Pids, NEW n \in Launches, live[p] = n, ProcessExits(p)
  PROVE  TypeOK'
<1>1. /\ TypeOK /\ ExceptIndex /\ IndexLeads
      /\ UNCHANGED <<pidOf, repeated, age, pc, sweep, pending, pidIndex, stopsSeen, orphanStops,
                     persisted, stalePendingEvicted, rows>>
  BY TypeIs DEF LaunchInv, ProcessExits, trackerVars, counterVars
<1>2. Offer(StopOf(n)) /\ live' = [live EXCEPT ![p] = 0]
  BY DEF ProcessExits, StopOf
<1>3. queue' \in Seq(Events) /\ Len(queue') <= QueueCap /\ lost' \subseteq Events
  BY <1>1, <1>2, OfferedQueue, EventOfLaunch
<1>4. live' \in [Pids -> 0..N]
  BY <1>1, <1>2, LaunchConstants DEF ExceptIndex
<1>5. ExceptIndex'
  BY <1>1, <1>3, <1>4 DEF ExceptIndex
<1>6. IndexLeads'
  BY <1>1 DEF IndexLeads, Tracked, Closed
<1>7. QED
  BY <1>5, <1>6, NextTypeIs

LEMMA ExitsKeeps ==
  ASSUME LaunchInv, NEW p \in Pids, NEW n \in Launches, live[p] = n, ProcessExits(p)
  PROVE  LaunchInv'
<1> USE DEF LaunchInv
<1>1. UNCHANGED <<pidOf, repeated, pending, pidIndex, rows>>
  BY DEF ProcessExits, trackerVars
<1>2. Offer(StopOf(n)) /\ live' = [live EXCEPT ![p] = 0]
  BY DEF ProcessExits, StopOf
<1>3. live'[p] = 0 /\ \A q \in Pids : q # p => live'[q] = live[q]
  BY <1>2 DEF TypeOK
<1>4. pidOf[n] = p /\ Started(n) /\ \A x \in Launches : SamePid(x, n) => x <= n
  BY LaunchConstants DEF KernelInv, SamePid, Started
<1>5. /\ Running(n) /\ ~Running(n)'
      /\ \A x \in Launches : x # n => (Running(x)' <=> Running(x))
  <2>1. \A q \in Pids : live[q] = n => q = p
    BY <1>4 DEF KernelInv
  <2>2. QED
    BY <1>3, <2>1, LaunchNumbers DEF Running
<1>6. /\ Len(queue) \in Nat /\ Len(queue') \in Nat /\ lost \subseteq lost'
      /\ Len(queue') <= Len(queue) + 1
      /\ \A i \in 1..Len(queue) : i \in 1..Len(queue') /\ queue'[i] = queue[i]
      /\ \A i \in 1..Len(queue') : i \notin 1..Len(queue) => queue'[i] = StopOf(n)
      /\ StopOf(n) \in lost' \/ \E i \in 1..Len(queue') : queue'[i] = StopOf(n)
  BY <1>2, OfferedQueue, EventOfLaunch
<1>7. /\ Due(StopOf(n))'
      /\ \A x \in Events : (Due(x) => Due(x)') /\ (Awaited(x)' => x = StopOf(n) \/ Awaited(x))
  BY <1>6 DEF Due, Awaited
<1>8. /\ StopOf(n).launch = n /\ StopOf(n).kind = "stop"
      /\ \A x \in Launches : /\ StartOf(x) \in Events /\ StopOf(x) \in Events
                             /\ AgainOf(x) \in Events /\ AgainOf(x) # StopOf(n)
                             /\ StartOf(x) # StopOf(n) /\ (x # n => StopOf(x) # StopOf(n))
  BY EventOfLaunch DEF StartOf, StopOf, AgainOf
<1>9. MovesOn
  BY <1>1, <1>5, <1>6 DEF MovesOn
<1>10. KernelInv'
  <2>1. \A q \in Pids, x \in Launches : live'[q] = x => live[q] = x
    BY <1>3, LaunchNumbers
  <2>2. QED
    BY <1>1, <2>1 DEF KernelInv, Started
<1>11. ASSUME NEW k \in Launches, Ahead(k) PROVE Ahead(k)'
  BY <1>1, <1>7, <1>8, <1>11 DEF Ahead, Started, SamePid, Tracked
<1>12. ASSUME NEW k \in Launches, Ends(k) PROVE Ends(k)'
  BY <1>5, <1>7, <1>8, <1>12 DEF Ends
<1>13. Ahead(n)
  BY <1>4, LaunchNumbers DEF Ahead
<1>14. QueueInv'
  <2>1. InOrder'
    <3> SUFFICES ASSUME NEW i \in 1..Len(queue'), NEW j \in 1..Len(queue'),
                        NEW x \in Launches, NEW y \in Launches, i < j, SamePid(x, y),
                        queue'[j].kind # "again", queue'[i].launch = x, queue'[j].launch = y
                 PROVE  x <= y /\ (x = y => queue'[i].kind = "start")
      BY <1>1 DEF InOrder, SamePid
    <3>1. i \in 1..Len(queue) /\ queue'[i] = queue[i]
      BY <1>6
    <3>2. CASE j \in 1..Len(queue)
      BY <1>6, <3>1, <3>2 DEF QueueInv, InOrder
    <3>3. CASE j \notin 1..Len(queue)
      <4>1. y = n /\ x <= n
        BY <1>4, <1>6, <1>8, <3>3
      <4>2. ~Awaited(StopOf(n)) /\ ~Awaited(AgainOf(n))
        BY <1>5 DEF QueueInv
      <4>3. x = n => queue[i].kind = "start"
        BY <3>1, <4>2, InQueue DEF Awaited
      <4>4. QED
        BY <3>1, <4>1, <4>3
    <3>4. QED
      BY <3>2, <3>3
  <2>2. \A k \in Launches : Awaited(StartOf(k))' => Ahead(k)' /\ Ends(k)'
    BY <1>7, <1>8, <1>11, <1>12 DEF QueueInv
  <2>3. \A k \in Launches : Awaited(StopOf(k))' => Ahead(k)' /\ ~Running(k)'
    BY <1>5, <1>7, <1>8, <1>11, <1>13 DEF QueueInv
  <2>4. \A k \in Launches : Awaited(AgainOf(k))' => Started(k)' /\ ~Running(k)' /\ Late(k)'
    BY <1>1, <1>5, <1>7, <1>8 DEF QueueInv, Started, Late
  <2>5. QED
    BY <2>1, <2>2, <2>3, <2>4 DEF QueueInv
<1>15. \A k \in Launches : ~Awaited(StartOf(k)) => ~Awaited(StartOf(k))'
  BY <1>7, <1>8
<1>16. TrackerInv'
  <2>1. \A k \in Launches : Tracked(k)' => Started(k)'
    BY <1>1 DEF TrackerInv, Tracked, Started
  <2>2. \A q \in Pids, k \in Launches : pidIndex'[q] = k /\ ~Late(k)' => Ahead(k)' /\ Ends(k)'
    BY <1>1, <1>11, <1>12, <1>9, LateStays DEF TrackerInv
  <2>3. \A k, m \in Launches : Tracked(k)' /\ pending'[k].exit = m /\ ~Late(k)' =>
          MayClose(k, m)' /\ ~Awaited(StartOf(k))'
    BY <1>1, <1>9, <1>15, MayCloseStays, LateStays DEF TrackerInv, Tracked
  <2>4. QED
    BY <2>1, <2>2, <2>3 DEF TrackerInv
<1>17. RowsInv'
  <2>1. \A k, m \in Launches : ~Late(k)' /\ rows'[k].exit = m => MayClose(k, m)'
    BY <1>1, <1>9, MayCloseStays, LateStays DEF RowsInv
  <2>2. \A k \in Launches : ~Late(k)' /\ Final(rows[k])' => Over(k)'
    BY <1>9, <1>1, <1>15, LateStays, OverStays DEF RowsInv, Tracked
  <2>3. QED
    BY <2>1, <2>2 DEF RowsInv
<1>18. QED
  BY <1>10, <1>14, <1>16, <1>17, ExitsType

-----------------------------------------------------------------------------
(* A start comes again.                                                    *)
LEMMA RepeatsType == ASSUME LaunchInv, NEW n \in Launches, StartRepeats(n) PROVE TypeOK'
<1>1. /\ TypeOK /\ ExceptIndex /\ IndexLeads
      /\ UNCHANGED <<pidOf, live, age, pc, sweep, pending, pidIndex, stopsSeen, orphanStops,
                     persisted, stalePendingEvicted, rows>>
  BY TypeIs DEF LaunchInv, StartRepeats, trackerVars, counterVars
<1>2. PICK e \in {StartOf(n), AgainOf(n)} : Queued(e) /\ repeated' = repeated \cup {e}
  BY DEF StartRepeats, StartOf, AgainOf
<1>3. e \in Events /\ e \in Starts \cup Agains /\ Offer(e)
  BY <1>2, EventOfLaunch DEF Offer
<1>4. queue' \in Seq(Events) /\ Len(queue') <= QueueCap /\ lost' \subseteq Events
  BY <1>1, <1>3, OfferedQueue
<1>5. repeated' \subseteq Starts \cup Agains
  BY <1>1, <1>2, <1>3 DEF ExceptIndex
<1>6. ExceptIndex'
  BY <1>1, <1>4, <1>5 DEF ExceptIndex
<1>7. IndexLeads'
  BY <1>1 DEF IndexLeads, Tracked, Closed
<1>8. QED
  BY <1>6, <1>7, NextTypeIs

LEMMA RepeatsKeeps == ASSUME LaunchInv, NEW n \in Launches, StartRepeats(n) PROVE LaunchInv'
<1> USE DEF LaunchInv
<1>1. UNCHANGED <<pidOf, live, pending, pidIndex, rows>> /\ Started(n) /\ pidOf[n] \in Pids
  BY PidOfStarted DEF StartRepeats, trackerVars
<1>2. PICK e \in {StartOf(n), AgainOf(n)} :
        /\ e = IF live[pidOf[n]] = n THEN StartOf(n) ELSE AgainOf(n)
        /\ Queued(e) /\ repeated' = repeated \cup {e}
  BY DEF StartRepeats, StartOf, AgainOf
<1>3. /\ e.launch = n /\ e \in Events /\ AgainOf(n) # StartOf(n)
      /\ e.kind # "again" => e = StartOf(n)
      /\ \A x \in Launches : /\ StartOf(x) \in Events /\ StopOf(x) \in Events
                             /\ AgainOf(x) \in Events /\ StopOf(x) # e
                             /\ (x # n => StartOf(x) # e /\ AgainOf(x) # e)
  <2>1. \A x \in Launches :
          /\ StartOf(x).launch = x /\ AgainOf(x).launch = x /\ StopOf(x).kind = "stop"
          /\ StartOf(x).kind = "start" /\ AgainOf(x).kind = "again"
          /\ StartOf(x) \in Events /\ StopOf(x) \in Events /\ AgainOf(x) \in Events
    BY EventOfLaunch
  <2>2. e = StartOf(n) \/ e = AgainOf(n)
    OBVIOUS
  <2>3. e.launch = n /\ e \in Events /\ e.kind \in {"start", "again"}
    BY <2>1, <2>2
  <2>4. AgainOf(n) # StartOf(n) /\ (e.kind # "again" => e = StartOf(n))
    BY <2>1, <2>2
  <2>5. ASSUME NEW x \in Launches
        PROVE  StopOf(x) # e /\ (x # n => StartOf(x) # e /\ AgainOf(x) # e)
    BY <2>1, <2>3
  <2>6. QED
    BY <2>1, <2>3, <2>4, <2>5
<1>4. /\ e = StartOf(n) => Running(n)
      /\ e = AgainOf(n) => ~Running(n) /\ Late(n)'
  <2>1. Running(n) => live[pidOf[n]] = n
    BY DEF KernelInv, Running
  <2>2. AgainOf(n) \in repeated' => Late(n)'
    BY DEF AgainOf, Late
  <2>3. QED
    BY <1>1, <1>2, <1>3, <2>1, <2>2 DEF Running
<1>5. /\ Len(queue) \in Nat /\ Len(queue') \in Nat /\ lost \subseteq lost'
      /\ Len(queue') <= Len(queue) + 1
      /\ \A i \in 1..Len(queue) : i \in 1..Len(queue') /\ queue'[i] = queue[i]
      /\ \A i \in 1..Len(queue') : i \notin 1..Len(queue) => queue'[i] = e
  BY <1>2, <1>3, OfferedQueue DEF Offer
<1>6. \A x \in Events : (Due(x) => Due(x)') /\ (Awaited(x)' => x = e \/ Awaited(x))
  BY <1>5 DEF Due, Awaited
<1>7. MovesOn
  BY <1>1, <1>2, <1>5 DEF MovesOn, Running
<1>8. KernelInv'
  BY <1>1 DEF KernelInv, Started
<1>9. \A k \in Launches : (Ahead(k) => Ahead(k)') /\ (Ends(k) => Ends(k)')
  BY <1>1, <1>3, <1>6 DEF Ahead, Ends, Started, SamePid, Tracked, Running
<1>10. Running(n) => \A x \in Launches : SamePid(x, n) => x <= n
  BY DEF KernelInv, Running, SamePid
<1>11. Running(n) => Ahead(n) /\ Ends(n)
  BY <1>1, <1>10, LaunchNumbers DEF Ahead, Ends
<1>12. InOrder'
  <2> SUFFICES ASSUME NEW i \in 1..Len(queue'), NEW j \in 1..Len(queue'),
                      NEW x \in Launches, NEW y \in Launches, i < j, SamePid(x, y),
                      queue'[j].kind # "again", queue'[i].launch = x, queue'[j].launch = y
               PROVE  x <= y /\ (x = y => queue'[i].kind = "start")
    BY <1>1 DEF InOrder, SamePid
  <2>1. i \in 1..Len(queue) /\ queue'[i] = queue[i]
    BY <1>5
  <2>2. CASE j \in 1..Len(queue)
    BY <1>5, <2>1, <2>2 DEF QueueInv, InOrder
  <2>3. CASE j \notin 1..Len(queue)
    <3>1. y = n /\ Running(n)
      BY <1>3, <1>4, <1>5, <2>3
    <3>2. ~Awaited(StopOf(n)) /\ ~Awaited(AgainOf(n))
      BY <3>1 DEF QueueInv
    <3>3. x = n => queue[i].kind = "start"
      BY <2>1, <3>2, InQueue DEF Awaited
    <3>4. QED
      BY <1>10, <2>1, <3>1, <3>3
  <2>4. QED
    BY <2>2, <2>3
<1>13. QueueInv'
  <2>1. \A k \in Launches : Awaited(StartOf(k))' => Ahead(k)' /\ Ends(k)'
    BY <1>3, <1>4, <1>6, <1>9, <1>11 DEF QueueInv
  <2>2. \A k \in Launches : Awaited(StopOf(k))' => Ahead(k)' /\ ~Running(k)'
    BY <1>1, <1>3, <1>6, <1>9 DEF QueueInv, Running
  <2>3. ASSUME NEW k \in Launches, Awaited(AgainOf(k))' PROVE Started(k)' /\ ~Running(k)' /\ Late(k)'
    <3>1. CASE AgainOf(k) = e
      BY <1>1, <1>3, <1>4, <3>1 DEF Started, Running
    <3>2. CASE AgainOf(k) # e
      <4>1. Started(k) /\ ~Running(k) /\ Late(k)
        BY <1>3, <1>6, <2>3, <3>2 DEF QueueInv
      <4>2. QED
        BY <1>1, <1>2, <4>1 DEF Started, Running, Late
    <3>3. QED
      BY <3>1, <3>2
  <2>4. QED
    BY <1>12, <2>1, <2>2, <2>3 DEF QueueInv
<1>14. \A k \in Launches : ~Running(k) /\ ~Awaited(StartOf(k)) => ~Awaited(StartOf(k))'
  BY <1>3, <1>4, <1>6
<1>15. TrackerInv'
  <2>1. \A k \in Launches : Tracked(k)' => Started(k)'
    BY <1>1 DEF TrackerInv, Tracked, Started
  <2>2. \A q \in Pids, k \in Launches : pidIndex'[q] = k /\ ~Late(k)' => Ahead(k)' /\ Ends(k)'
    BY <1>1, <1>7, <1>9, LateStays DEF TrackerInv
  <2>3. \A k, m \in Launches : Tracked(k)' /\ pending'[k].exit = m /\ ~Late(k)' =>
          MayClose(k, m)' /\ ~Awaited(StartOf(k))'
    <3> SUFFICES ASSUME NEW k \in Launches, NEW m \in Launches, Tracked(k), pending[k].exit = m, ~Late(k)
                 PROVE  MayClose(k, m)' /\ ~Awaited(StartOf(k))'
      BY <1>1, <1>7, LateStays DEF Tracked
    <3>1. MayClose(k, m) /\ ~Awaited(StartOf(k))
      BY DEF TrackerInv
    <3>2. QED
      BY <1>7, <1>14, <3>1, MayCloseStays DEF MayClose
  <2>4. QED
    BY <2>1, <2>2, <2>3 DEF TrackerInv
<1>16. RowsInv'
  <2>1. \A k, m \in Launches : ~Late(k)' /\ rows'[k].exit = m => MayClose(k, m)'
    BY <1>1, <1>7, MayCloseStays, LateStays DEF RowsInv
  <2>2. \A k \in Launches : ~Late(k)' /\ Final(rows[k])' => Over(k)'
    BY <1>1, <1>7, <1>14, LateStays DEF RowsInv, Over, Tracked, Started, Running
  <2>3. QED
    BY <2>1, <2>2 DEF RowsInv
<1>17. QED
  BY <1>8, <1>13, <1>15, <1>16, RepeatsType

(* A step of the clock or of the collection is none of the tracker's.      *)
LEMMA AsideKeeps ==
  ASSUME LaunchInv, TypeOK', UNCHANGED <<kernelVars, trackerVars, rows>>
  PROVE  LaunchInv'
<1> USE DEF LaunchInv
<1>1. UNCHANGED <<pidOf, live, queue, lost, repeated, pending, pidIndex, rows>>
  BY DEF kernelVars, trackerVars
<1>2. KernelInv'
  BY <1>1 DEF KernelInv, Started
<1>3. \A k \in Launches : (Ahead(k) => Ahead(k)') /\ (Ends(k) => Ends(k)')
  BY <1>1 DEF Ahead, Ends, Started, SamePid, Due, Awaited, Tracked, Running
<1>4. \A x : Awaited(x)' <=> Awaited(x)
  BY <1>1 DEF Awaited
<1>5. QueueInv'
  BY <1>1, <1>3, <1>4 DEF QueueInv, InOrder, SamePid, Started, Running, Late
<1>6. MovesOn
  BY <1>1 DEF MovesOn, Running
<1>7. TrackerInv'
  <2>1. \A k \in Launches : Tracked(k)' => Started(k)'
    BY <1>1 DEF TrackerInv, Tracked, Started
  <2>2. \A k, m \in Launches : Tracked(k)' /\ pending'[k].exit = m /\ ~Late(k)' =>
          MayClose(k, m)' /\ ~Awaited(StartOf(k))'
    BY <1>1, <1>4, <1>6, MayCloseStays, LateStays DEF TrackerInv, Tracked
  <2>3. QED
    BY <1>1, <1>3, <1>6, <2>1, <2>2, LateStays DEF TrackerInv
<1>8. RowsInv'
  <2>1. \A k, m \in Launches : ~Late(k)' /\ rows'[k].exit = m => MayClose(k, m)'
    BY <1>1, <1>6, MayCloseStays, LateStays DEF RowsInv
  <2>2. \A k \in Launches : ~Late(k)' /\ Final(rows[k])' => Over(k)'
    BY <1>6, <1>1, <1>4, LateStays, OverStays DEF RowsInv, Tracked
  <2>3. QED
    BY <2>1, <2>2 DEF RowsInv
<1>9. QED
  BY <1>2, <1>5, <1>7, <1>8

LEMMA TimeKeeps == ASSUME LaunchInv, NEW n \in Launches, TimePasses(n) PROVE LaunchInv'
<1>1. /\ TypeOK /\ ExceptIndex /\ IndexLeads
      /\ UNCHANGED <<pidOf, live, queue, lost, repeated, pc, sweep, pending, pidIndex, stopsSeen, orphanStops,
                     persisted, stalePendingEvicted, rows>>
  BY TypeIs DEF LaunchInv, TimePasses, kernelVars, trackerVars, counterVars
<1>2. age' = [age EXCEPT ![n] = @ + 1] /\ age[n] < Stale
  BY DEF TimePasses
<1>3. age' \in [Launches -> Young..Stale]
  <2>1. age \in [Launches -> Young..Stale] /\ age' = [age EXCEPT ![n] = age[n] + 1]
    BY <1>1, <1>2 DEF ExceptIndex
  <2>2. age[n] + 1 \in Young..Stale
    BY <1>2, <2>1 DEF Young, Stale
  <2>3. QED
    BY <2>1, <2>2
<1>4. ExceptIndex' /\ IndexLeads'
  BY <1>1, <1>3 DEF ExceptIndex, IndexLeads, Tracked, Closed
<1>5. QED
  BY <1>4, NextTypeIs, AsideKeeps DEF TimePasses

LEMMA CollectKeeps == ASSUME LaunchInv, Collect PROVE LaunchInv'
<1>1. /\ TypeOK /\ ExceptIndex /\ IndexLeads
      /\ UNCHANGED <<pidOf, live, queue, lost, repeated, age, pending, pidIndex, stopsSeen,
                     orphanStops, persisted, stalePendingEvicted, rows>>
  BY TypeIs DEF LaunchInv, Collect, kernelVars, trackerVars, counterVars
<1>2. sweep' \in [Launches -> Sights] /\ pc' \in {"idle", "collected"}
  BY DEF Collect, Sights
<1>3. ExceptIndex' /\ IndexLeads'
  BY <1>1, <1>2 DEF ExceptIndex, IndexLeads, Tracked, Closed
<1>4. QED
  BY <1>3, NextTypeIs, AsideKeeps DEF Collect

LEMMA StandsStill == ASSUME LaunchInv, UNCHANGED vars PROVE LaunchInv'
<1>1. /\ TypeOK /\ ExceptIndex /\ IndexLeads
      /\ UNCHANGED <<pidOf, live, queue, lost, repeated, age, pc, sweep, pending, pidIndex, stopsSeen,
                     orphanStops, persisted, stalePendingEvicted, rows>>
  BY TypeIs DEF LaunchInv, vars, kernelVars, trackerVars, counterVars
<1>2. ExceptIndex' /\ IndexLeads'
  BY <1>1 DEF ExceptIndex, IndexLeads, Tracked, Closed
<1>3. QED
  BY <1>2, NextTypeIs, AsideKeeps DEF vars

-----------------------------------------------------------------------------
(* The loop takes an event.  Whatever it does with it, what was ahead of   *)
(* what it tracks and what still waits stays so.                           *)
HeadOf(e) == queue # << >> /\ queue' = Tail(queue) /\ e = Head(queue)

LEMMA HeadIsFirst ==
  ASSUME LaunchInv, NEW e, HeadOf(e), UNCHANGED <<pidOf, live, lost, repeated>>
  PROVE  /\ e \in Events /\ e.launch \in Launches /\ Started(e.launch)
         /\ e.kind = "start" => e = StartOf(e.launch) /\ Ahead(e.launch) /\ Ends(e.launch)
         /\ e.kind = "stop" => e = StopOf(e.launch) /\ Ahead(e.launch) /\ ~Running(e.launch)
         /\ e.kind = "again" => e = AgainOf(e.launch) /\ Late(e.launch)
         /\ e.kind \in {"start", "stop", "again"} /\ Awaited(e)
         /\ \A k \in Launches : (Awaited(StartOf(k))' \/ Awaited(StopOf(k))') /\ SamePid(e.launch, k)
              => e.launch <= k /\ (e.launch = k => e.kind = "start")
         /\ \A x : (Awaited(x)' => Awaited(x)) /\ (x # e /\ Due(x) => Due(x)')
         /\ InOrder'
<1> USE DEF LaunchInv
<1>1. /\ queue' \in Seq(Events) /\ Len(queue') <= QueueCap
      /\ Len(queue) \in Nat \ {0} /\ Len(queue') = Len(queue) - 1
      /\ 1 \in 1..Len(queue) /\ Head(queue) = queue[1]
      /\ \A i \in 1..Len(queue') :
           i + 1 \in 1..Len(queue) /\ 1 < i + 1 /\ queue'[i] = queue[i + 1]
      /\ \A x : Awaited(x)' => Awaited(x)
      /\ \A x : x # Head(queue) /\ Due(x) => Due(x)'
  BY TakenQueue DEF HeadOf
<1>2. e = queue[1] /\ e \in Events /\ e.launch \in Launches /\ e.kind \in {"start", "stop", "again"}
  BY <1>1, InQueue DEF HeadOf
<1>3. /\ e.kind = "start" => e = StartOf(e.launch)
      /\ e.kind = "stop" => e = StopOf(e.launch)
      /\ e.kind = "again" => e = AgainOf(e.launch)
  BY <1>2, EventIsOf
<1>4. Awaited(e)
  BY <1>1, <1>2 DEF Awaited
<1>5. /\ Started(e.launch)
      /\ e.kind = "start" => Ahead(e.launch) /\ Ends(e.launch)
      /\ e.kind = "stop" => Ahead(e.launch) /\ ~Running(e.launch)
      /\ e.kind = "again" => Late(e.launch)
  BY <1>2, <1>3, <1>4 DEF QueueInv, Ahead
<1>6. ASSUME NEW k \in Launches, Awaited(StartOf(k))' \/ Awaited(StopOf(k))', SamePid(e.launch, k)
      PROVE  e.launch <= k /\ (e.launch = k => e.kind = "start")
  <2>1. PICK i \in 1..Len(queue') : queue'[i] = StartOf(k) \/ queue'[i] = StopOf(k)
    BY <1>6 DEF Awaited
  <2>2. /\ queue[i + 1].launch = k /\ queue[i + 1].kind # "again"
        /\ i + 1 \in 1..Len(queue) /\ 1 < i + 1
    BY <1>1, <2>1, EventOfLaunch
  <2>3. QED
    BY <1>1, <1>2, <1>6, <2>2 DEF QueueInv, InOrder
<1>7. InOrder'
  <2> SUFFICES ASSUME NEW i \in 1..Len(queue'), NEW j \in 1..Len(queue'),
                      NEW x \in Launches, NEW y \in Launches, i < j, SamePid(x, y),
                      queue'[j].kind # "again", queue'[i].launch = x, queue'[j].launch = y
               PROVE  x <= y /\ (x = y => queue'[i].kind = "start")
    BY DEF InOrder, SamePid
  <2>1. /\ i + 1 \in 1..Len(queue) /\ j + 1 \in 1..Len(queue) /\ i + 1 < j + 1
        /\ queue'[i] = queue[i + 1] /\ queue'[j] = queue[j + 1]
    BY <1>1
  <2>2. QED
    BY <2>1 DEF QueueInv, InOrder
<1>8. QED
  BY <1>1, <1>2, <1>3, <1>4, <1>5, <1>6, <1>7 DEF HeadOf

(* An event taken by a tracker that begins to track at most its launch.    *)
LEMMA TakenKeepsQueue ==
  ASSUME LaunchInv, NEW e, HeadOf(e), UNCHANGED <<pidOf, live, lost, repeated>>,
         \A x \in Launches : Tracked(x)' => Tracked(x) \/ x = e.launch
  PROVE  QueueInv'
<1> USE DEF LaunchInv
<1>1. /\ e \in Events /\ e.launch \in Launches
      /\ e.kind = "start" => e = StartOf(e.launch)
      /\ e.kind = "stop" => e = StopOf(e.launch)
      /\ e.kind \in {"start", "stop", "again"}
      /\ \A k \in Launches : (Awaited(StartOf(k))' \/ Awaited(StopOf(k))') /\ SamePid(e.launch, k)
           => e.launch <= k /\ (e.launch = k => e.kind = "start")
      /\ \A x : (Awaited(x)' => Awaited(x)) /\ (x # e /\ Due(x) => Due(x)')
      /\ InOrder'
  BY HeadIsFirst
<1>2. \A k \in Launches : StartOf(k).launch = k /\ StopOf(k).launch = k /\ StopOf(k).kind = "stop"
  BY EventOfLaunch
<1>3. ASSUME NEW k \in Launches, Awaited(StartOf(k))' \/ Awaited(StopOf(k))' PROVE Ahead(k)'
  <2>1. Ahead(k)
    BY <1>1, <1>3 DEF QueueInv
  <2>2. \A x \in Launches : SamePid(x, k) /\ x > k => Due(StartOf(x))'
    <3> SUFFICES ASSUME NEW x \in Launches, SamePid(x, k), x > k PROVE Due(StartOf(x))'
      OBVIOUS
    <3>1. CASE StartOf(x) = e
      <4>1. e.launch = x
        BY <1>2, <3>1
      <4>2. x <= k
        BY <1>1, <1>3, <4>1
      <4>3. QED
        BY <4>2, LaunchNumbers
    <3>2. CASE StartOf(x) # e
      BY <1>1, <2>1, <3>2 DEF Ahead
    <3>3. QED
      BY <3>1, <3>2
  <2>3. \A x \in Launches : SamePid(x, k) /\ Tracked(x)' => x <= k
    BY <1>1, <1>3, <2>1 DEF Ahead
  <2>4. QED
    BY <2>1, <2>2, <2>3 DEF Ahead, Started, SamePid
<1>4. ASSUME NEW k \in Launches, Awaited(StartOf(k))' PROVE Ends(k)'
  <2>1. Ends(k)
    BY <1>1, <1>4 DEF QueueInv
  <2>2. StopOf(k) # e
    <3>1. SamePid(k, k)
      BY DEF SamePid
    <3>2. QED
      BY <1>1, <1>2, <1>4, <3>1
  <2>3. QED
    BY <1>1, <2>1, <2>2 DEF Ends, Running
<1>5. ASSUME NEW k \in Launches, Awaited(StopOf(k))' PROVE ~Running(k)'
  BY <1>1, <1>5 DEF QueueInv, Running
<1>6. ASSUME NEW k \in Launches, Awaited(AgainOf(k))' PROVE Started(k)' /\ ~Running(k)' /\ Late(k)'
  BY <1>1, <1>6 DEF QueueInv, Started, Running, Late
<1>7. QED
  BY <1>1, <1>3, <1>4, <1>5, <1>6 DEF QueueInv

(* A start event of a launch already tracked changes nothing; of another,  *)
(* it is the newest of its pid the tracker has seen, unless it comes again *)
(* after the exit.                                                         *)
LEMMA OnStartKeeps ==
  ASSUME LaunchInv, NEW n \in Launches, NEW e \in {StartOf(n), AgainOf(n)}, HeadOf(e), OnStart(n),
         UNCHANGED <<pidOf, live, lost, repeated, age, pc, sweep, rows>>
  PROVE  LaunchInv'
<1> USE DEF LaunchInv
<1>1. /\ TypeOK /\ ExceptIndex /\ IndexLeads /\ UNCHANGED <<stopsSeen, orphanStops, persisted, stalePendingEvicted>>
      /\ queue' \in Seq(Events) /\ Len(queue') <= QueueCap
  BY TypeIs, TakenQueue DEF HeadOf, OnStart, counterVars
<1>2. /\ e.launch = n /\ Started(n)
      /\ ~Late(n) => Ahead(n) /\ Ends(n) /\ Awaited(StartOf(n))
      /\ \A x \in Launches : StopOf(x) # e /\ (x # n => StartOf(x) # e)
      /\ \A x : (Awaited(x)' => Awaited(x)) /\ (x # e /\ Due(x) => Due(x)')
  <2>1. e.launch = n /\ e.kind \in {"start", "again"} /\ (e.kind = "start" => e = StartOf(n))
        /\ \A x \in Launches : StopOf(x) # e /\ (x # n => StartOf(x) # e)
    BY EventOfLaunch DEF StartOf, StopOf, AgainOf
  <2>2. QED
    BY <2>1, HeadIsFirst
<1>3. Started(n) /\ pidOf[n] \in Pids
  BY <1>1, <1>2, PidOfStarted
<1>4. \A k \in Launches : Ends(k) => Ends(k)'
  BY <1>2 DEF Ends, Running
<1>5. MovesOn /\ KernelInv'
  BY DEF MovesOn, KernelInv, Started, Running
<1>6. CASE Tracked(n)
  <2>1. UNCHANGED <<pending, pidIndex>>
    BY <1>6 DEF OnStart
  <2>2. TypeOK'
    BY <1>1, <2>1, NextTypeIs DEF ExceptIndex, IndexLeads, Tracked, Closed
  <2>3. QueueInv'
    BY <2>1, <1>2, TakenKeepsQueue DEF Tracked
  <2>4. ASSUME NEW q \in Pids, NEW k \in Launches, pidIndex[q] = k, ~Late(k) PROVE Ahead(k)'
    <3>1. Ahead(k)
      BY <2>4 DEF TrackerInv
    <3>2. \A x \in Launches : SamePid(x, k) /\ x > k => Due(StartOf(x))'
      <4> SUFFICES ASSUME NEW x \in Launches, SamePid(x, k), x > k PROVE Due(StartOf(x))'
        OBVIOUS
      <4>1. x # n
        BY <1>6, <3>1, LaunchNumbers DEF Ahead
      <4>2. QED
        BY <1>2, <3>1, <4>1 DEF Ahead
    <3>3. QED
      BY <2>1, <3>1, <3>2 DEF Ahead, Started, SamePid, Tracked
  <2>5. TrackerInv'
    <3>1. \A k, m \in Launches : Tracked(k)' /\ pending'[k].exit = m /\ ~Late(k)' =>
            MayClose(k, m)' /\ ~Awaited(StartOf(k))'
      BY <1>2, <1>5, <2>1, MayCloseStays, LateStays DEF TrackerInv, Tracked
    <3>2. \A k \in Launches : Tracked(k)' => Started(k)'
      BY <2>1 DEF TrackerInv, Tracked, Started
    <3>3. QED
      BY <1>4, <1>5, <2>1, <2>4, <3>1, <3>2, LateStays DEF TrackerInv
  <2>6. RowsInv'
    <3>1. \A k, m \in Launches : ~Late(k)' /\ rows'[k].exit = m => MayClose(k, m)'
      BY <1>5, MayCloseStays, LateStays DEF RowsInv
    <3>2. \A k \in Launches : ~Late(k)' /\ Final(rows[k])' => Over(k)'
      BY <1>5, <1>2, <2>1, LateStays, OverStays DEF RowsInv, Tracked
    <3>3. QED
      BY <3>1, <3>2 DEF RowsInv
  <2>7. QED
    BY <1>5, <2>2, <2>3, <2>5, <2>6
<1>7. CASE ~Tracked(n)
  <2>1. /\ pending' = [pending EXCEPT ![n] = Fresh]
        /\ pidIndex' = [pidIndex EXCEPT ![pidOf[n]] = n]
    BY <1>7 DEF OnStart
  <2>2. /\ pending'[n] = Fresh /\ \A x \in Launches : x # n => pending'[x] = pending[x]
        /\ pidIndex'[pidOf[n]] = n /\ \A q \in Pids : q # pidOf[n] => pidIndex'[q] = pidIndex[q]
    BY <1>1, <1>3, <2>1 DEF ExceptIndex
  <2>3. Fresh \in Pendings /\ Fresh # Untracked /\ Fresh.exit = 0
    BY LaunchConstants DEF Fresh, Pendings, Untracked, Sights, Finals
  <2>4. \A x \in Launches : (Tracked(x)' <=> Tracked(x) \/ x = n) /\ (x # n => (Closed(x)' <=> Closed(x)))
    BY <2>2, <2>3 DEF Tracked, Closed
  <2>5. ExceptIndex'
    <3>1. pending' \in [Launches -> Pendings \cup {Untracked}]
      BY <1>1, <2>1, <2>3 DEF ExceptIndex
    <3>2. pidIndex' \in [Pids -> 0..N]
      <4>1. n \in 0..N /\ pidIndex \in [Pids -> 0..N]
        BY <1>1, LaunchNumbers, LaunchConstants DEF ExceptIndex
      <4>2. QED
        BY <2>1, <4>1
    <3>3. QED
      BY <1>1, <3>1, <3>2 DEF ExceptIndex
  <2>6. IndexLeads'
    <3> SUFFICES ASSUME NEW q \in Pids, NEW k \in Launches, pidIndex'[q] = k
                 PROVE  pidOf'[k] = q /\ Tracked(k)' /\ ~Closed(k)'
      BY DEF IndexLeads
    <3>1. CASE q = pidOf[n]
      BY <2>2, <2>3, <2>4, <3>1 DEF Closed
    <3>2. CASE q # pidOf[n]
      <4>1. pidOf[k] = q /\ Tracked(k) /\ ~Closed(k)
        BY <1>1, <2>2, <3>2 DEF IndexLeads
      <4>2. QED
        BY <2>4, <3>2, <4>1
    <3>3. QED
      BY <3>1, <3>2
  <2>7. QueueInv'
    BY <1>2, <2>4, TakenKeepsQueue
  <2>8. ASSUME NEW q \in Pids, NEW k \in Launches, pidIndex'[q] = k, ~Late(k)
        PROVE  Ahead(k)' /\ Ends(k)'
    <3>1. CASE k = n
      <4>1. \A x \in Launches : SamePid(x, n) /\ x > n => Due(StartOf(x))'
        BY <1>2, <2>8, <3>1, LaunchNumbers DEF Ahead
      <4>2. \A x \in Launches : SamePid(x, n) /\ Tracked(x)' => x <= n
        BY <1>2, <2>4, <2>8, <3>1, LaunchNumbers DEF Ahead
      <4>3. QED
        BY <1>2, <1>3, <1>4, <2>8, <3>1, <4>1, <4>2 DEF Ahead, Started, SamePid
    <3>2. CASE k # n
      <4>1. q # pidOf[n] /\ pidIndex[q] = k
        BY <2>2, <2>8, <3>2
      <4>2. Ahead(k) /\ Ends(k) /\ pidOf[k] = q
        BY <1>1, <2>8, <4>1 DEF TrackerInv, IndexLeads
      <4>3. \A x \in Launches : SamePid(x, k) => x # n
        BY <4>1, <4>2 DEF SamePid
      <4>4. QED
        BY <1>2, <1>4, <2>4, <4>2, <4>3 DEF Ahead, Started, SamePid
    <3>3. QED
      BY <3>1, <3>2
  <2>9. TrackerInv'
    <3>1. \A k, m \in Launches : Tracked(k)' /\ pending'[k].exit = m => k # n
      BY <2>2, <2>3, LaunchNumbers
    <3>2. \A k, m \in Launches : Tracked(k)' /\ pending'[k].exit = m /\ ~Late(k)' =>
            MayClose(k, m)' /\ ~Awaited(StartOf(k))'
      BY <1>2, <1>5, <2>2, <2>4, <3>1, MayCloseStays, LateStays DEF TrackerInv
    <3>3. \A k \in Launches : Tracked(k)' => Started(k)'
      BY <1>3, <2>4 DEF TrackerInv, Started
    <3>4. QED
      BY <1>5, <2>8, <3>2, <3>3, LateStays DEF TrackerInv
  <2>10. RowsInv'
    <3>1. \A k, m \in Launches : ~Late(k)' /\ rows'[k].exit = m => MayClose(k, m)'
      BY <1>5, MayCloseStays, LateStays DEF RowsInv
    <3>2. ~Late(n) => ~Final(rows[n])
      BY <1>2 DEF RowsInv, Over
    <3>3. \A k \in Launches : ~Late(k)' /\ Final(rows[k])' => Over(k)'
      BY <1>5, <1>2, <2>4, <3>2, LateStays, OverStays DEF RowsInv, Final
    <3>4. QED
      BY <3>1, <3>3 DEF RowsInv
  <2>11. QED
    BY <1>5, <2>5, <2>6, <2>7, <2>9, <2>10, NextTypeIs
<1>8. QED
  BY <1>6, <1>7

(* What a stop event may do to the launch it closes.                       *)
LEMMA ClosedWith ==
  ASSUME LaunchInv, NEW k \in Launches, NEW n \in Launches, HeadOf(StopOf(n)),
         UNCHANGED <<pidOf, live, lost, repeated>>, SamePid(k, n), Tracked(k), Ahead(k), Ends(k)
  PROVE  MayClose(k, n)' /\ ~Awaited(StartOf(k))'
<1> DEFINE e == StopOf(n)
<1> USE DEF LaunchInv
<1>1. e.launch = n /\ e.kind = "stop" /\ \A x \in Launches : StartOf(x) # e /\ (x # n => StopOf(x) # e)
  BY EventOfLaunch DEF StartOf, StopOf
<1>2. /\ Ahead(n) /\ ~Running(n)
      /\ \A x \in Launches : (Awaited(StartOf(x))' \/ Awaited(StopOf(x))') /\ SamePid(n, x) => n <= x /\ n # x
      /\ \A x : x # e /\ Due(x) => Due(x)'
  <2> HIDE DEF e
  <2>1. QED
    BY <1>1, HeadIsFirst DEF e
<1>3. k <= n /\ SamePid(n, k)
  BY <1>2 DEF Ahead, SamePid
<1>4. ~Awaited(StartOf(k))'
  BY <1>2, <1>3, LaunchNumbers
<1>5. ASSUME k # n PROVE StopOf(k) \in lost
  <2>1. ~Running(k)
    BY <1>3, <1>5, LaunchNumbers DEF KernelInv, Running, SamePid
  <2>2. Due(StopOf(k))'
    BY <1>1, <1>2, <1>5, <2>1 DEF Ends
  <2>3. ~Awaited(StopOf(k))'
    BY <1>2, <1>3, LaunchNumbers
  <2>4. QED
    BY <2>2, <2>3 DEF Due
<1>6. ASSUME NEW x \in (k + 1)..n, SamePid(x, k) PROVE StartOf(x) \in lost
  <2>1. x \in Launches /\ x > k /\ x <= n
    BY <1>6, LaunchNumbers, LaunchConstants DEF Launches
  <2>2. Due(StartOf(x))'
    BY <1>1, <1>2, <1>6, <2>1 DEF Ahead
  <2>3. SamePid(n, x)
    BY <1>3, <1>6 DEF SamePid
  <2>4. ~Awaited(StartOf(x))'
    BY <1>2, <2>1, <2>3, LaunchNumbers
  <2>5. QED
    BY <2>2, <2>4 DEF Due
<1>7. MayClose(k, n)
  <2>1. k # n => n > k /\ ~Running(k)
    BY <1>3, LaunchNumbers DEF KernelInv, Running, SamePid
  <2>2. QED
    BY <1>2, <1>3, <1>5, <1>6, <2>1 DEF MayClose, Ahead
<1>8. MovesOn
  BY DEF MovesOn, Running
<1>9. QED
  BY <1>4, <1>7, <1>8, MayCloseStays

(* A stop event closes what the index leads to, and nothing else.          *)
LEMMA OnStopKeeps ==
  ASSUME LaunchInv, NEW n \in Launches, HeadOf(StopOf(n)), OnStop(pidOf[n], n),
         UNCHANGED <<pidOf, live, lost, repeated, age, pc, sweep, rows>>
  PROVE  LaunchInv'
<1> DEFINE e == StopOf(n)
           p == pidOf[n]
<1> USE DEF LaunchInv
<1>1. /\ TypeOK /\ ExceptIndex /\ IndexLeads /\ UNCHANGED <<persisted, stalePendingEvicted>>
      /\ queue' \in Seq(Events) /\ Len(queue') <= QueueCap
      /\ stopsSeen' \in Nat /\ orphanStops' \in Nat
  BY TypeIs, TakenQueue DEF HeadOf, OnStop, ExceptIndex
<1>2. /\ Ahead(n) /\ ~Running(n)
      /\ \A x \in Launches : StartOf(x) # e /\ (x # n => StopOf(x) # e)
      /\ \A x : (Awaited(x)' => Awaited(x)) /\ (x # e /\ Due(x) => Due(x)')
  <2>1. e.launch = n /\ e.kind = "stop"
        /\ \A x \in Launches : StartOf(x) # e /\ (x # n => StopOf(x) # e)
    BY EventOfLaunch DEF StartOf, StopOf
  <2> HIDE DEF e
  <2>2. QED
    BY <2>1, HeadIsFirst DEF e
<1>3. Started(n) /\ pidOf[n] \in Pids
  BY <1>1, <1>2, PidOfStarted DEF Ahead
<1>4. MovesOn /\ KernelInv'
  BY DEF MovesOn, KernelInv, Started, Running
<1>5. pidIndex[p] = 0 \/ \E k \in Launches : pidIndex[p] = k
  BY <1>1, <1>3, LaunchConstants DEF ExceptIndex, Launches
<1>6. CASE pidIndex[p] = 0
  <2>1. UNCHANGED <<pending, pidIndex>>
    BY <1>6 DEF OnStop
  <2>2. ExceptIndex' /\ IndexLeads'
    BY <1>1, <2>1 DEF ExceptIndex, IndexLeads, Tracked, Closed
  <2>3. ASSUME NEW q \in Pids, NEW k \in Launches, pidIndex[q] = k, ~Late(k)
        PROVE  Ahead(k)' /\ Ends(k)'
    <3>1. k # n
      BY <1>1, <1>6, <2>3, LaunchNumbers DEF IndexLeads
    <3>2. Ahead(k) /\ Ends(k)
      BY <2>3 DEF TrackerInv
    <3>3. QED
      BY <1>2, <2>1, <3>1, <3>2 DEF Ahead, Ends, Running, Started, SamePid, Tracked
  <2>4. QueueInv'
    BY <2>1, TakenKeepsQueue DEF Tracked
  <2>5. TrackerInv'
    <3>1. \A k, m \in Launches : Tracked(k)' /\ pending'[k].exit = m /\ ~Late(k)' =>
            MayClose(k, m)' /\ ~Awaited(StartOf(k))'
      BY <1>2, <1>4, <2>1, MayCloseStays, LateStays DEF TrackerInv, Tracked
    <3>2. \A k \in Launches : Tracked(k)' => Started(k)'
      BY <2>1 DEF TrackerInv, Tracked, Started
    <3>3. QED
      BY <1>4, <2>1, <2>3, <3>1, <3>2, LateStays DEF TrackerInv
  <2>6. RowsInv'
    <3>1. \A k, m \in Launches : ~Late(k)' /\ rows'[k].exit = m => MayClose(k, m)'
      BY <1>4, MayCloseStays, LateStays DEF RowsInv
    <3>2. \A k \in Launches : ~Late(k)' /\ Final(rows[k])' => Over(k)'
      BY <1>4, <1>2, <2>1, LateStays, OverStays DEF RowsInv, Tracked
    <3>3. QED
      BY <3>1, <3>2 DEF RowsInv
  <2>7. QED
    BY <1>4, <2>2, <2>4, <2>5, <2>6, NextTypeIs
<1>7. ASSUME NEW c \in Launches, pidIndex[p] = c PROVE LaunchInv'
  <2>1. /\ Tracked(c) /\ ~Closed(c) /\ SamePid(c, n) /\ c # 0
        /\ ~Late(c) => Ahead(c) /\ Ends(c)
    BY <1>1, <1>3, <1>7, LaunchNumbers DEF IndexLeads, TrackerInv, SamePid
  <2>2. /\ pending' = [pending EXCEPT ![c].exit = n, ![c].window = Verdict[pending[c].seen]]
        /\ pidIndex' = [pidIndex EXCEPT ![p] = 0]
    BY <1>7, <2>1 DEF OnStop
  <2>3. pending[c] \in Pendings /\ pending[c] # Untracked
    BY <1>1, <2>1 DEF Tracked, ExceptIndex
  <2>4. /\ pending'[c] \in Pendings /\ pending'[c].exit = n /\ pending'[c] # Untracked
        /\ \A x \in Launches : x # c => pending'[x] = pending[x]
        /\ pidIndex'[p] = 0 /\ \A q \in Pids : q # p => pidIndex'[q] = pidIndex[q]
    <3>1. Verdict[pending[c].seen] \in Finals
      BY <2>3 DEF Verdict, Pendings, Sights, Finals
    <3>2. n \in 0..N
      BY LaunchNumbers, LaunchConstants
    <3>3. pending'[c] = [pending[c] EXCEPT !.exit = n, !.window = Verdict[pending[c].seen]]
      BY <1>1, <2>2 DEF ExceptIndex
    <3>4. pending'[c] \in Pendings /\ pending'[c].exit = n
      BY <2>3, <3>1, <3>2, <3>3 DEF Pendings
    <3>5. Untracked \notin Pendings
      BY DEF Untracked, Pendings, Finals
    <3>6. QED
      BY <1>1, <1>3, <2>2, <3>4, <3>5 DEF ExceptIndex
  <2>5. \A x \in Launches : (Tracked(x)' <=> Tracked(x)) /\ (x # c => (Closed(x)' <=> Closed(x)))
    BY <2>1, <2>4 DEF Tracked, Closed
  <2>6. ExceptIndex'
    <3>1. pending' \in [Launches -> Pendings \cup {Untracked}]
      <4>1. pending \in [Launches -> Pendings \cup {Untracked}]
        BY <1>1 DEF ExceptIndex
      <4>2. DOMAIN pending' = Launches /\ pending' = [x \in Launches |-> pending'[x]]
        BY <2>2, <4>1
      <4>3. \A x \in Launches : pending'[x] \in Pendings \cup {Untracked}
        BY <2>4, <4>1
      <4>4. QED
        BY <4>2, <4>3
    <3>2. pidIndex' \in [Pids -> 0..N]
      <4>1. 0 \in 0..N /\ pidIndex \in [Pids -> 0..N]
        BY <1>1, LaunchConstants DEF ExceptIndex
      <4>2. QED
        BY <2>2, <4>1
    <3>3. QED
      BY <1>1, <3>1, <3>2 DEF ExceptIndex
  <2>7. IndexLeads'
    <3> SUFFICES ASSUME NEW q \in Pids, NEW k \in Launches, pidIndex'[q] = k
                 PROVE  pidOf'[k] = q /\ Tracked(k)' /\ ~Closed(k)'
      BY DEF IndexLeads
    <3>1. q # p /\ pidIndex[q] = k
      BY <2>4, LaunchNumbers
    <3>2. pidOf[k] = q /\ Tracked(k) /\ ~Closed(k) /\ k # c
      BY <1>1, <1>3, <2>1, <3>1 DEF IndexLeads, SamePid
    <3>3. QED
      BY <2>5, <3>2
  <2>8. QueueInv'
    BY <2>5, TakenKeepsQueue
  <2>9. ASSUME NEW q \in Pids, NEW k \in Launches, pidIndex'[q] = k, ~Late(k)
        PROVE  Ahead(k)' /\ Ends(k)'
    <3>1. q # p /\ pidIndex[q] = k
      BY <2>4, <2>9, LaunchNumbers
    <3>2. Ahead(k) /\ Ends(k) /\ k # n
      BY <1>1, <2>9, <3>1 DEF TrackerInv, IndexLeads
    <3>3. QED
      BY <1>2, <2>5, <3>2 DEF Ahead, Ends, Running, Started, SamePid
  <2>10. TrackerInv'
    <3>1. ASSUME NEW k \in Launches, NEW m \in Launches, Tracked(k)', pending'[k].exit = m, ~Late(k)'
          PROVE  MayClose(k, m)' /\ ~Awaited(StartOf(k))'
      <4>1. CASE k = c
        <5>1. m = n
          BY <2>4, <3>1, <4>1
        <5>2. QED
          BY <1>4, <2>1, <3>1, <4>1, <5>1, ClosedWith, LateStays
      <4>2. CASE k # c
        <5>1. Tracked(k) /\ pending[k].exit = m
          BY <2>4, <2>5, <3>1, <4>2
        <5>2. QED
          BY <1>2, <1>4, <3>1, <5>1, MayCloseStays, LateStays DEF TrackerInv
      <4>3. QED
        BY <4>1, <4>2
    <3>2. \A k \in Launches : Tracked(k)' => Started(k)'
      BY <2>5 DEF TrackerInv, Started
    <3>3. QED
      BY <1>4, <2>9, <3>1, <3>2, LateStays DEF TrackerInv
  <2>11. RowsInv'
    <3>1. \A k, m \in Launches : ~Late(k)' /\ rows'[k].exit = m => MayClose(k, m)'
      BY <1>4, MayCloseStays, LateStays DEF RowsInv
    <3>2. \A k \in Launches : ~Late(k)' /\ Final(rows[k])' => Over(k)'
      BY <1>4, <1>2, <2>5, LateStays, OverStays DEF RowsInv
    <3>3. QED
      BY <3>1, <3>2 DEF RowsInv
  <2>12. QED
    BY <1>4, <2>6, <2>7, <2>8, <2>10, <2>11, NextTypeIs
<1>8. QED
  BY <1>5, <1>6, <1>7

LEMMA TakeEventKeeps == ASSUME LaunchInv, TakeEvent PROVE LaunchInv'
<1>1. UNCHANGED <<pidOf, live, lost, repeated, age, pc, sweep, rows>> /\ HeadOf(Head(queue))
  BY DEF TakeEvent, HeadOf
<1>2. Head(queue) \in Events /\ Head(queue).launch \in Launches
  BY <1>1, TakenQueue, InQueue DEF LaunchInv, HeadOf
<1>3. PICK n \in Launches : Head(queue).launch = n
  BY <1>2
<1>4. CASE Head(queue).kind \in {"start", "again"} /\ OnStart(n)
  BY <1>1, <1>2, <1>3, <1>4, EventIsOf, OnStartKeeps
<1>5. CASE Head(queue).kind = "stop" /\ OnStop(pidOf[n], n)
  BY <1>1, <1>2, <1>3, <1>5, EventIsOf, OnStopKeeps
<1>6. QED
  BY <1>3, <1>4, <1>5 DEF TakeEvent

-----------------------------------------------------------------------------
(* The rest of the tick.                                                   *)
LEMMA ObservedPending ==
  ASSUME TypeOK, NEW n \in Launches
  PROVE  /\ ~Tracked(n) => Observed(n) = Untracked
         /\ Tracked(n) => /\ Observed(n) \in Pendings
                          /\ Observed(n).exit = pending[n].exit
                          /\ Observed(n).emittedRunning = pending[n].emittedRunning
                          /\ [Observed(n) EXCEPT !.emittedRunning = TRUE] \in Pendings
                          /\ [Observed(n) EXCEPT !.emittedRunning = TRUE].exit = pending[n].exit
                          /\ [Observed(n) EXCEPT !.emittedRunning = TRUE].emittedRunning = TRUE
<1>1. ~Tracked(n) => Observed(n) = Untracked
  BY DEF Observed, Tracked
<1>2. ASSUME NEW x \in Pendings, NEW s \in Sights
      PROVE  /\ [x EXCEPT !.seen = s] \in Pendings
             /\ [x EXCEPT !.seen = s].exit = x.exit
             /\ [x EXCEPT !.seen = s].emittedRunning = x.emittedRunning
  BY DEF Pendings
<1>3. ASSUME NEW x \in Pendings
      PROVE  /\ [x EXCEPT !.emittedRunning = TRUE] \in Pendings
             /\ [x EXCEPT !.emittedRunning = TRUE].exit = x.exit
             /\ [x EXCEPT !.emittedRunning = TRUE].emittedRunning = TRUE
  BY DEF Pendings
<1>4. ASSUME Tracked(n)
      PROVE  /\ Observed(n) \in Pendings
             /\ Observed(n).exit = pending[n].exit
             /\ Observed(n).emittedRunning = pending[n].emittedRunning
  <2>1. pending[n] \in Pendings
    BY <1>4, ExitNumbers
  <2>2. "visible" \in Sights /\ "hidden" \in Sights
    BY DEF Sights
  <2>3. \/ Observed(n) = pending[n]
        \/ Observed(n) = [pending[n] EXCEPT !.seen = "visible"]
        \/ Observed(n) = [pending[n] EXCEPT !.seen = "hidden"]
    BY DEF Observed
  <2>4. ASSUME NEW s \in Sights, Observed(n) = [pending[n] EXCEPT !.seen = s]
        PROVE  /\ Observed(n) \in Pendings
               /\ Observed(n).exit = pending[n].exit
               /\ Observed(n).emittedRunning = pending[n].emittedRunning
    BY <1>2, <2>1, <2>4
  <2>5. QED
    BY <2>1, <2>2, <2>3, <2>4
<1>5. QED
  BY <1>1, <1>3, <1>4

LEMMA DrainedPending ==
  ASSUME TypeOK, Drain, NEW n \in Launches
  PROVE  /\ Tracked(n)' <=> Tracked(n) /\ n \notin Finished \cup StaleOnes
         /\ Tracked(n)' => /\ pending'[n] \in Pendings /\ ~Closed(n)' /\ ~Closed(n)
                           /\ pending[n].emittedRunning => pending'[n].emittedRunning
         /\ pending'[n] \in Pendings \cup {Untracked}
<1>1. pending'[n] = IF n \in Finished \cup StaleOnes THEN Untracked
                    ELSE IF n \in NewlyRunning THEN [Observed(n) EXCEPT !.emittedRunning = TRUE]
                    ELSE Observed(n)
  BY DEF Drain
<1>2. Untracked \notin Pendings
  BY DEF Untracked, Pendings, Finals
<1>3. CASE n \in Finished \cup StaleOnes
  BY <1>1, <1>3 DEF Tracked
<1>4. CASE n \notin Finished \cup StaleOnes /\ ~Tracked(n)
  BY <1>1, <1>4, ObservedPending DEF NewlyRunning, Tracked
<1>5. CASE n \notin Finished \cup StaleOnes /\ Tracked(n)
  <2>1. ~Closed(n)
    BY <1>5 DEF Finished
  <2>2. pending'[n] \in Pendings /\ pending'[n].exit = pending[n].exit
        /\ (pending[n].emittedRunning => pending'[n].emittedRunning)
    <3>1. CASE n \in NewlyRunning
      BY <1>1, <1>5, <3>1, ObservedPending
    <3>2. CASE n \notin NewlyRunning
      BY <1>1, <1>5, <3>2, ObservedPending
    <3>3. QED
      BY <3>1, <3>2
  <2>3. QED
    BY <1>2, <1>5, <2>1, <2>2 DEF Tracked, Closed
<1>6. QED
  BY <1>3, <1>4, <1>5

(* A row is left, dropped, or written for what the drain handed over.      *)
LEMMA FlushedRows ==
  ASSUME TypeOK, NEW saved \in BOOLEAN, NEW oldest \in 0..N, Flush(saved, oldest), NEW n \in Launches
  PROVE  \/ rows'[n] \in {rows[n], NoRow}
         \/ n \in Finished /\ rows'[n] = [state |-> pending[n].window, exit |-> pending[n].exit]
         \/ n \in NewlyRunning /\ rows'[n] = [state |-> "running", exit |-> 0]
<1> DEFINE written == [x \in Launches |-> Saved(x)]
           kept == IF saved /\ Finished \cup NewlyRunning # {} THEN Capped(written) ELSE rows
<1>1. rows'[n] = IF n <= oldest THEN NoRow ELSE kept[n]
  BY DEF Flush
<1>2. kept[n] \in {rows[n], Saved(n), NoRow}
  <2>1. Capped(written)[n] \in {written[n], NoRow} /\ written[n] = Saved(n)
    BY DEF Capped
  <2> HIDE DEF written
  <2>2. QED
    BY <2>1
<1>3. Saved(n) = IF n \in Finished THEN [state |-> pending[n].window, exit |-> pending[n].exit]
                 ELSE IF n \in NewlyRunning THEN [state |-> "running", exit |-> 0] ELSE rows[n]
  BY DEF Saved
<1> HIDE DEF kept
<1>4. QED
  BY <1>1, <1>2, <1>3

LEMMA FlushType ==
  ASSUME LaunchInv, NEW saved \in BOOLEAN, NEW oldest \in 0..N, Flush(saved, oldest)
  PROVE  TypeOK'
<1>1. /\ TypeOK /\ ExceptIndex /\ IndexLeads /\ Drain
      /\ UNCHANGED <<pidOf, live, queue, lost, repeated, age, stopsSeen, orphanStops>>
      /\ pc' = "idle" /\ sweep' = [n \in Launches |-> "unsampled"]
  BY TypeIs DEF LaunchInv, Flush, Drain, kernelVars
<1>2. pending' \in [Launches -> Pendings \cup {Untracked}]
  <2>1. \A n \in Launches : pending'[n] \in Pendings \cup {Untracked}
    BY <1>1, DrainedPending
  <2>2. pending' = [n \in Launches |-> pending'[n]]
    BY <1>1 DEF Drain
  <2>3. QED
    BY <2>1, <2>2
<1>3. pidIndex' = [p \in Pids |-> IF pidIndex[p] \in StaleOnes THEN 0 ELSE pidIndex[p]]
  BY <1>1 DEF Drain
<1>4. pidIndex' \in [Pids -> 0..N]
  BY <1>1, <1>3, LaunchConstants DEF ExceptIndex
<1>5. persisted' \in Nat /\ stalePendingEvicted' \in Nat
  <2>1. IsFiniteSet(Launches)
    BY FS_Interval, LaunchConstants DEF Launches
  <2>2. Finished \in SUBSET Launches /\ StaleOnes \in SUBSET Launches
    BY DEF Finished, StaleOnes
  <2>3. Cardinality(Finished) \in Nat /\ Cardinality(StaleOnes) \in Nat
    BY <2>1, <2>2, FS_Subset, FS_CardinalityType
  <2>4. persisted' = persisted + Cardinality(Finished)
        /\ stalePendingEvicted' = stalePendingEvicted + Cardinality(StaleOnes)
    BY <1>1 DEF Drain
  <2>5. QED
    BY <1>1, <2>3, <2>4 DEF ExceptIndex
<1>6. rows' \in [Launches -> Rows \cup {NoRow}]
  <2>1. ASSUME NEW n \in Launches PROVE rows'[n] \in Rows \cup {NoRow}
    <3>1. CASE rows'[n] \in {rows[n], NoRow}
      BY <1>1, <3>1 DEF ExceptIndex
    <3>2. CASE n \in Finished /\ rows'[n] = [state |-> pending[n].window, exit |-> pending[n].exit]
      <4>1. pending[n] \in Pendings
        BY <1>1, <3>2, ExitNumbers DEF Finished
      <4>2. QED
        BY <3>2, <4>1 DEF Pendings, Rows
    <3>3. CASE n \in NewlyRunning /\ rows'[n] = [state |-> "running", exit |-> 0]
      BY <3>3, LaunchConstants DEF Rows
    <3>4. QED
      BY <1>1, <3>1, <3>2, <3>3, FlushedRows
  <2>2. rows' = [n \in Launches |-> rows'[n]]
    BY DEF Flush
  <2>3. QED
    BY <2>1, <2>2
<1>7. sweep' \in [Launches -> Sights]
  BY <1>1 DEF Sights
<1>8. ExceptIndex'
  BY <1>1, <1>2, <1>4, <1>5, <1>6, <1>7 DEF ExceptIndex
<1>9. IndexLeads'
  <2> SUFFICES ASSUME NEW p \in Pids, NEW n \in Launches, pidIndex'[p] = n
               PROVE  pidOf'[n] = p /\ Tracked(n)' /\ ~Closed(n)'
    BY DEF IndexLeads
  <2>1. pidIndex[p] = n /\ n \notin StaleOnes
    BY <1>3, LaunchNumbers
  <2>2. pidOf[n] = p /\ Tracked(n) /\ n \notin Finished
    BY <1>1, <2>1 DEF IndexLeads, Finished
  <2>3. QED
    BY <1>1, <2>1, <2>2, DrainedPending
<1>10. QED
  BY <1>8, <1>9, NextTypeIs

LEMMA FlushKeeps ==
  ASSUME LaunchInv, NEW saved \in BOOLEAN, NEW oldest \in 0..N, Flush(saved, oldest)
  PROVE  LaunchInv'
<1> USE DEF LaunchInv
<1>1. Drain /\ UNCHANGED <<pidOf, live, queue, lost, repeated, age>>
  BY DEF Flush, kernelVars
<1>2. \A n \in Launches : Tracked(n)' => Tracked(n) /\ ~Closed(n)' /\ n \notin Finished
  BY <1>1, DrainedPending
<1>3. \A p \in Pids, n \in Launches : pidIndex'[p] = n => pidIndex[p] = n
  BY <1>1, LaunchNumbers DEF Drain
<1>4. \A n \in Launches : (Ahead(n) => Ahead(n)') /\ (Ends(n) => Ends(n)')
  BY <1>1, <1>2 DEF Ahead, Ends, Started, SamePid, Due, Awaited, Running
<1>5. MovesOn /\ KernelInv'
  BY <1>1 DEF MovesOn, KernelInv, Started, Running
<1>6. \A x : Awaited(x)' <=> Awaited(x)
  BY <1>1 DEF Awaited
<1>7. QueueInv'
  BY <1>1, <1>4, <1>6 DEF QueueInv, InOrder, SamePid, Started, Running, Late
<1>8. TrackerInv'
  <2>1. \A n \in Launches : Tracked(n)' => Started(n)'
    BY <1>1, <1>2 DEF TrackerInv, Started
  <2>2. \A n, m \in Launches : ~(Tracked(n)' /\ pending'[n].exit = m)
    BY <1>2, LaunchNumbers DEF Closed
  <2>3. QED
    BY <1>3, <1>4, <1>5, <2>1, <2>2, LateStays DEF TrackerInv
<1>9. RowsInv'
  <2> SUFFICES ASSUME NEW n \in Launches, ~Late(n)
               PROVE  /\ \A m \in Launches : rows'[n].exit = m => MayClose(n, m)'
                      /\ Final(rows[n])' => Over(n)'
    BY <1>5, LateStays DEF RowsInv
  <2>1. CASE rows'[n] = rows[n]
    <3>1. \A m \in Launches : rows'[n].exit = m => MayClose(n, m)'
      BY <1>5, <2>1, MayCloseStays, LateStays DEF RowsInv
    <3>2. Final(rows[n])' => Over(n)'
      BY <1>1, <1>2, <1>6, <2>1 DEF RowsInv, Final, Over, Started, Running
    <3>3. QED
      BY <3>1, <3>2
  <2>2. CASE rows'[n] = NoRow
    BY <2>2, LaunchNumbers DEF NoRow, Final, Finals
  <2>3. CASE n \in Finished /\ rows'[n] = [state |-> pending[n].window, exit |-> pending[n].exit]
    <3>1. Tracked(n) /\ pending[n].exit \in Launches /\ rows'[n].exit = pending[n].exit
      BY <2>3, ExitNumbers DEF Finished
    <3>2. MayClose(n, pending[n].exit) /\ ~Awaited(StartOf(n)) /\ Started(n) /\ ~Running(n)
      BY <3>1 DEF TrackerInv, MayClose
    <3>3. \A m \in Launches : rows'[n].exit = m => MayClose(n, m)'
      BY <1>5, <3>1, <3>2, MayCloseStays
    <3>4. QED
      BY <1>1, <1>2, <1>6, <2>3, <3>2, <3>3 DEF Over, Started, Running
  <2>4. CASE n \in NewlyRunning /\ rows'[n] = [state |-> "running", exit |-> 0]
    BY <2>4, LaunchNumbers DEF Final, Finals
  <2>5. QED
    BY <2>1, <2>2, <2>3, <2>4, FlushedRows
<1>10. QED
  BY <1>5, <1>7, <1>8, <1>9, FlushType

LEMMA RestartKeeps == ASSUME LaunchInv, Restart PROVE LaunchInv'
<1> USE DEF LaunchInv
<1>1. /\ UNCHANGED <<pidOf, live, repeated, age, rows>> /\ queue' = << >> /\ lost \subseteq lost'
      /\ pending' = [n \in Launches |-> Untracked] /\ pidIndex' = [p \in Pids |-> 0]
  BY DEF Restart
<1>2. TypeOK'
  <2>1. \A i \in DOMAIN queue : queue[i] \in Events
    BY InQueue, LenProperties DEF TypeOK
  <2>2. lost' \subseteq Events
    BY <2>1 DEF Restart, TypeOK
  <2>3. queue' \in Seq(Events) /\ Len(queue') <= QueueCap
    BY <1>1, LaunchConstants
  <2>4. ExceptIndex'
    BY <1>1, <2>2, <2>3, TypeIs, LaunchConstants DEF Restart, ExceptIndex, Sights
  <2>5. IndexLeads'
    BY <1>1, LaunchNumbers DEF IndexLeads
  <2>6. QED
    BY <2>4, <2>5, NextTypeIs
<1>3. MovesOn /\ KernelInv'
  BY <1>1 DEF MovesOn, KernelInv, Started, Running
<1>4. \A n \in Launches : ~Tracked(n)'
  BY <1>1 DEF Tracked
<1>5. \A x : ~Awaited(x)'
  BY <1>1 DEF Awaited
<1>6. QueueInv'
  <2>1. InOrder'
    BY <1>1 DEF InOrder
  <2>2. QED
    BY <1>5, <2>1 DEF QueueInv
<1>7. TrackerInv'
  BY <1>1, <1>4, LaunchNumbers DEF TrackerInv
<1>8. RowsInv'
  <2>1. \A k, m \in Launches : ~Late(k)' /\ rows'[k].exit = m => MayClose(k, m)'
    BY <1>1, <1>3, MayCloseStays, LateStays DEF RowsInv
  <2>2. \A k \in Launches : ~Late(k)' /\ Final(rows[k])' => Over(k)'
    BY <1>3, <1>1, <1>4, <1>5, LateStays, OverStays DEF RowsInv, Final
  <2>3. QED
    BY <2>1, <2>2 DEF RowsInv
<1>9. QED
  BY <1>2, <1>3, <1>6, <1>7, <1>8

-----------------------------------------------------------------------------
LEMMA InitLaunchInv == Init => LaunchInv
<1> SUFFICES ASSUME Init PROVE LaunchInv
  OBVIOUS
<1>1. /\ pidOf = [n \in Launches |-> NoPid] /\ live = [p \in Pids |-> 0] /\ queue = << >>
      /\ pending = [n \in Launches |-> Untracked] /\ pidIndex = [p \in Pids |-> 0]
      /\ rows = [n \in Launches |-> NoRow]
  BY DEF Init
<1>2. ExceptIndex
  <2>1. queue \in Seq(Events) /\ Len(queue) <= QueueCap
    BY <1>1, LaunchConstants
  <2>2. age \in [Launches -> Young..Stale] /\ sweep \in [Launches -> Sights]
    BY DEF Init, Young, Stale, Sights
  <2>3. QED
    BY <1>1, <2>1, <2>2, LaunchConstants DEF Init, ExceptIndex
<1>3. TypeOK
  BY <1>1, <1>2, TypeIs, LaunchNumbers DEF IndexLeads
<1>4. KernelInv
  BY <1>1, LaunchNumbers DEF KernelInv, Started
<1>5. \A n \in Launches :
        ~Tracked(n) /\ ~Awaited(StartOf(n)) /\ ~Awaited(StopOf(n)) /\ ~Awaited(AgainOf(n))
  BY <1>1 DEF Tracked, Awaited
<1>6. QueueInv
  BY <1>1, <1>5 DEF QueueInv, InOrder
<1>7. TrackerInv
  BY <1>1, <1>5, LaunchNumbers DEF TrackerInv
<1>8. RowsInv
  BY <1>1, LaunchNumbers DEF RowsInv, NoRow, Final, Finals
<1>9. QED
  BY <1>3, <1>4, <1>6, <1>7, <1>8 DEF LaunchInv

LEMMA NextLaunchInv == LaunchInv /\ [Next]_vars => LaunchInv'
<1> SUFFICES ASSUME LaunchInv, [Next]_vars PROVE LaunchInv'
  OBVIOUS
<1>1. ASSUME NEW n \in Launches, NEW p \in Pids, ProcessStarts(n, p) PROVE LaunchInv'
  BY <1>1, StartsKeeps
<1>2. ASSUME NEW p \in Pids, ProcessExits(p) PROVE LaunchInv'
  <2>1. PICK n \in Launches : live[p] = n
    BY <1>2, LaunchConstants DEF ProcessExits, LaunchInv, TypeOK, Launches
  <2>2. QED
    BY <1>2, <2>1, ExitsKeeps
<1>3. CASE Clock
  BY <1>3, TimeKeeps DEF Clock
<1>4. CASE Loop
  BY <1>4, CollectKeeps, TakeEventKeeps, FlushKeeps DEF Loop
<1>5. CASE Restart
  BY <1>5, RestartKeeps
<1>6. ASSUME NEW n \in Launches, StartRepeats(n) PROVE LaunchInv'
  BY <1>6, RepeatsKeeps
<1>7. CASE UNCHANGED vars
  BY <1>7, StandsStill
<1>8. QED
  BY <1>1, <1>2, <1>3, <1>4, <1>5, <1>6, <1>7 DEF Next

LEMMA LaunchInvariant == Spec => []LaunchInv
BY InitLaunchInv, NextLaunchInv, PTL DEF Spec

(* The index of open launches by pid always leads to a launch of that pid  *)
(* that is tracked and open, so on_stop never closes one twice and never   *)
(* finds an entry without a launch; for any pids and capacities.           *)
THEOREM TrackerTypes == Spec => []TypeOK
BY LaunchInvariant, PTL DEF LaunchInv

(* A saved row is closed by its own exit, or both its exit and every later *)
(* start of its pid up to the exit that closed it never reached the        *)
(* tracker, or its start came again after its exit: on_stop matches by pid *)
(* alone, and on_start knows a launch only while it is pending.            *)
THEOREM ExitOwn == Spec => []ExitIsOwn
<1>1. LaunchInv => ExitIsOwn
  <2> SUFFICES ASSUME LaunchInv, NEW n \in Launches, rows[n].exit # 0, rows[n].exit # n, ~Late(n)
               PROVE  /\ rows[n].exit > n /\ pidOf[rows[n].exit] = pidOf[n]
                      /\ [kind |-> "stop", launch |-> n] \in lost
                      /\ \A x \in (n + 1)..rows[n].exit : pidOf[x] = pidOf[n] =>
                           [kind |-> "start", launch |-> x] \in lost
    BY DEF ExitIsOwn
  <2>1. PICK m \in Launches : rows[n].exit = m
    BY ExitNumbers DEF LaunchInv
  <2>2. MayClose(n, m)
    BY <2>1 DEF LaunchInv, RowsInv
  <2>3. QED
    BY <2>1, <2>2 DEF MayClose, SamePid, StartOf, StopOf
<1>2. QED
  BY <1>1, LaunchInvariant, PTL

-----------------------------------------------------------------------------
(* The counters of the status.                                             *)
Waiting == {n \in Launches : Tracked(n) /\ Closed(n)}

LEMMA WaitingFinite ==
  /\ IsFiniteSet(Waiting) /\ Cardinality(Waiting) \in Nat
  /\ IsFiniteSet(Waiting)' /\ Cardinality(Waiting)' \in Nat
<1>1. IsFiniteSet(Launches)
  BY FS_Interval, LaunchConstants DEF Launches
<1>2. Waiting \in SUBSET Launches /\ Waiting' \in SUBSET Launches
  BY DEF Waiting
<1>3. QED
  BY <1>1, <1>2, FS_Subset, FS_CardinalityType

LEMMA WaitingSame ==
  ASSUME StopsAddUp, Waiting' = Waiting, UNCHANGED <<stopsSeen, orphanStops, persisted>>
  PROVE  StopsAddUp'
BY DEF StopsAddUp, Waiting

LEMMA OnStartCounts ==
  ASSUME TypeOK, StopsAddUp, NEW n \in Launches, OnStart(n) PROVE StopsAddUp'
<1>1. UNCHANGED <<stopsSeen, orphanStops, persisted>>
  BY DEF OnStart, counterVars
<1>2. CASE Tracked(n)
  BY <1>1, <1>2, WaitingSame DEF OnStart, Waiting, Tracked, Closed
<1>3. CASE ~Tracked(n)
  <2>1. pending'[n] = Fresh /\ \A x \in Launches : x # n => pending'[x] = pending[x]
    BY <1>3 DEF OnStart, TypeOK
  <2>2. Fresh.exit = 0
    BY DEF Fresh
  <2>3. Waiting' = Waiting
    BY <1>3, <2>1, <2>2 DEF Waiting, Tracked, Closed
  <2>4. QED
    BY <1>1, <2>3, WaitingSame
<1>4. QED
  BY <1>2, <1>3

LEMMA OnStopCounts ==
  ASSUME TypeOK, StopsAddUp, NEW p \in Pids, NEW m \in Launches, OnStop(p, m) PROVE StopsAddUp'
<1>1. /\ stopsSeen' = stopsSeen + 1 /\ persisted' = persisted
      /\ stopsSeen \in Nat /\ orphanStops \in Nat /\ persisted \in Nat
      /\ stopsSeen = orphanStops + persisted + Cardinality(Waiting)
      /\ IsFiniteSet(Waiting) /\ Cardinality(Waiting) \in Nat
  BY WaitingFinite DEF OnStop, TypeOK, StopsAddUp, Waiting
<1>2. CASE pidIndex[p] = 0 \/ ~Tracked(pidIndex[p])
  <2>1. orphanStops' = orphanStops + 1 /\ pending' = pending
    BY <1>2 DEF OnStop
  <2>2. Cardinality(Waiting)' = Cardinality(Waiting)
    BY <2>1 DEF Waiting, Tracked, Closed
  <2>3. stopsSeen' = orphanStops' + persisted' + Cardinality(Waiting)'
    BY <1>1, <2>1, <2>2
  <2>4. QED
    BY <2>3 DEF StopsAddUp, Waiting
<1>3. CASE pidIndex[p] # 0 /\ Tracked(pidIndex[p])
  <2>1. PICK n \in Launches : pidIndex[p] = n
    BY <1>3, LaunchConstants DEF TypeOK, Launches
  <2>2. Tracked(n) /\ ~Closed(n) /\ pending[n] \in Pendings
    BY <1>3, <2>1, TypeIs, ExitNumbers DEF IndexLeads
  <2>3. /\ pending' = [pending EXCEPT ![n].exit = m, ![n].window = Verdict[pending[n].seen]]
        /\ orphanStops' = orphanStops
    BY <1>3, <2>1 DEF OnStop
  <2>4. /\ pending'[n].exit = m /\ pending'[n].window \in Finals
        /\ \A x \in Launches : x # n => pending'[x] = pending[x]
    <3>1. pending'[n] = [pending[n] EXCEPT !.exit = m, !.window = Verdict[pending[n].seen]]
      BY <2>3 DEF TypeOK
    <3>2. Verdict[pending[n].seen] \in Finals
      BY <2>2 DEF Verdict, Pendings, Sights, Finals
    <3>3. QED
      BY <2>2, <2>3, <3>1, <3>2 DEF TypeOK, Pendings
  <2>5. Tracked(n)' /\ Closed(n)'
    BY <2>4, LaunchNumbers DEF Tracked, Closed, Untracked, Finals
  <2>6. Waiting' = Waiting \cup {n} /\ n \notin Waiting
    BY <2>2, <2>4, <2>5 DEF Waiting, Tracked, Closed
  <2>7. Cardinality(Waiting)' = Cardinality(Waiting) + 1
    <3>1. Cardinality(Waiting \cup {n}) = Cardinality(Waiting) + 1
      BY <1>1, <2>6, FS_AddElement
    <3>2. QED
      BY <2>6, <3>1
  <2>8. stopsSeen' = orphanStops' + persisted' + Cardinality(Waiting)'
    BY <1>1, <2>3, <2>7
  <2>9. QED
    BY <2>8 DEF StopsAddUp, Waiting
<1>4. QED
  BY <1>2, <1>3

LEMMA DrainCounts == ASSUME TypeOK, StopsAddUp, Drain PROVE StopsAddUp'
<1>1. /\ stopsSeen' = stopsSeen /\ orphanStops' = orphanStops
      /\ persisted' = persisted + Cardinality(Finished)
  BY DEF Drain
<1>2. Finished = Waiting
  BY DEF Finished, Waiting
<1>3. Waiting' = {}
  BY DrainedPending DEF Waiting
<1>4. Cardinality(Waiting)' = 0
  BY <1>3, FS_EmptySet
<1>5. /\ stopsSeen = orphanStops + persisted + Cardinality(Waiting)
      /\ stopsSeen \in Nat /\ orphanStops \in Nat /\ persisted \in Nat /\ Cardinality(Waiting) \in Nat
  BY WaitingFinite DEF StopsAddUp, Waiting, TypeOK
<1>6. stopsSeen' = orphanStops' + persisted' + Cardinality(Waiting)'
  BY <1>1, <1>2, <1>4, <1>5
<1>7. QED
  BY <1>6 DEF StopsAddUp, Waiting

LEMMA NextStopsAddUp == LaunchInv /\ StopsAddUp /\ [Next]_vars => StopsAddUp'
<1> SUFFICES ASSUME LaunchInv, StopsAddUp, [Next]_vars PROVE StopsAddUp'
  OBVIOUS
<1>0. TypeOK
  BY DEF LaunchInv
<1>1. CASE UNCHANGED trackerVars
  BY <1>1, WaitingSame DEF trackerVars, counterVars, Waiting, Tracked, Closed
<1>2. CASE TakeEvent
  <2>1. /\ Head(queue) \in Events /\ Head(queue).launch \in Launches
        /\ Started(Head(queue).launch)
    BY <1>2, HeadIsFirst DEF TakeEvent, HeadOf
  <2>2. PICK n \in Launches : Head(queue).launch = n
    BY <2>1
  <2>3. pidOf[n] \in Pids
    BY <1>0, <2>1, <2>2, PidOfStarted
  <2>4. OnStart(n) \/ OnStop(pidOf[n], n)
    BY <1>2, <2>2 DEF TakeEvent
  <2>5. QED
    BY <1>0, <2>3, <2>4, OnStartCounts, OnStopCounts
<1>3. CASE \E saved \in BOOLEAN, oldest \in 0..N : Flush(saved, oldest)
  BY <1>0, <1>3, DrainCounts DEF Flush
<1>4. CASE Restart
  <2>1. stopsSeen' = 0 /\ orphanStops' = 0 /\ persisted' = 0 /\ pending' = [n \in Launches |-> Untracked]
    BY <1>4 DEF Restart
  <2>2. {n \in Launches : Tracked(n) /\ Closed(n)}' = {}
    BY <2>1 DEF Tracked
  <2>3. Cardinality({n \in Launches : Tracked(n) /\ Closed(n)})' = 0
    BY <2>2, FS_EmptySet
  <2>4. QED
    BY <2>1, <2>3 DEF StopsAddUp
<1>5. QED
  BY <1>1, <1>2, <1>3, <1>4
  DEF Next, ProcessStarts, ProcessExits, StartRepeats, Clock, TimePasses, Loop, Collect, vars

(* Every stop event the status counts was an orphan, closed a launch that  *)
(* was handed over, or waits in one that will be: on_stop counts each in   *)
(* one of the three and drain_flushable hands over all that wait.          *)
THEOREM StopsCounted == Spec => []StopsAddUp
<1>1. Init => StopsAddUp
  <2> SUFFICES ASSUME Init PROVE StopsAddUp
    OBVIOUS
  <2>1. {n \in Launches : Tracked(n) /\ Closed(n)} = {}
    BY DEF Init, Tracked
  <2>2. Cardinality({n \in Launches : Tracked(n) /\ Closed(n)}) = 0
    BY <2>1, FS_EmptySet
  <2>3. QED
    BY <2>2 DEF Init, StopsAddUp
<1>2. QED
  BY <1>1, NextStopsAddUp, LaunchInvariant, PTL DEF Spec

-----------------------------------------------------------------------------
(* A final row is not written again, and a Running report is not repeated. *)
Advances(n) ==
  /\ Final(rows[n]) /\ ~Late(n) => rows'[n] \in {rows[n], NoRow}
  /\ Tracked(n) /\ pending[n].emittedRunning /\ ~Closed(n) /\ pending'[n] # Untracked
       => pending'[n].emittedRunning

LEMMA StepAdvances ==
  ASSUME LaunchInv, [Next]_vars, NEW n \in Launches PROVE Advances(n)
<1>0. TypeOK
  BY DEF LaunchInv
<1>1. CASE UNCHANGED <<trackerVars, rows>>
  BY <1>1 DEF trackerVars, Advances
<1>2. CASE TakeEvent
  <2>1. rows' = rows
    BY <1>2 DEF TakeEvent
  <2>2. PICK e \in Events : OnStart(e.launch) \/ OnStop(pidOf[e.launch], e.launch)
    <3>1. Head(queue) \in Events
      BY <1>2, HeadIsFirst DEF TakeEvent, HeadOf
    <3>2. QED
      BY <1>2, <3>1 DEF TakeEvent
  <2>3. PICK m \in Launches : e.launch = m
    BY <2>2, EventIsOf
  <2>4. CASE OnStart(m)
    <3>1. pending' = pending \/ (~Tracked(m) /\ pending' = [pending EXCEPT ![m] = Fresh])
      BY <2>4 DEF OnStart
    <3>2. Tracked(n) => pending'[n] = pending[n]
      BY <1>0, <3>1 DEF TypeOK
    <3>3. QED
      BY <2>1, <3>2 DEF Advances
  <2>5. CASE OnStop(pidOf[m], m)
    <3>1. CASE pidIndex[pidOf[m]] = 0 \/ ~Tracked(pidIndex[pidOf[m]])
      BY <2>1, <2>5, <3>1 DEF OnStop, Advances
    <3>2. CASE pidIndex[pidOf[m]] # 0 /\ Tracked(pidIndex[pidOf[m]])
      <4> DEFINE k == pidIndex[pidOf[m]]
      <4>1. pending' = [pending EXCEPT ![k].exit = m, ![k].window = Verdict[pending[k].seen]]
        BY <2>5, <3>2 DEF OnStop
      <4> HIDE DEF k
      <4>2. CASE n = k
        <5>1. pending'[n] = [pending[n] EXCEPT !.exit = m, !.window = Verdict[pending[n].seen]]
          BY <1>0, <4>1, <4>2 DEF TypeOK
        <5>2. Tracked(n) => pending[n] \in Pendings
          BY <1>0, ExitNumbers
        <5>3. ASSUME NEW x \in Pendings
              PROVE  [x EXCEPT !.exit = m, !.window = Verdict[x.seen]].emittedRunning = x.emittedRunning
          BY DEF Pendings
        <5>4. Tracked(n) => pending'[n].emittedRunning = pending[n].emittedRunning
          BY <5>1, <5>2, <5>3
        <5>5. QED
          BY <2>1, <5>4 DEF Advances
      <4>3. CASE n # k
        BY <1>0, <2>1, <4>1, <4>3 DEF Advances, TypeOK
      <4>4. QED
        BY <4>2, <4>3
    <3>3. QED
      BY <3>1, <3>2
  <2>6. QED
    BY <2>2, <2>3, <2>4, <2>5
<1>3. ASSUME NEW saved \in BOOLEAN, NEW oldest \in 0..N, Flush(saved, oldest)
      PROVE  Advances(n)
  <2>1. Drain
    BY <1>3 DEF Flush
  <2>2. Final(rows[n]) /\ ~Late(n) => n \notin Finished /\ n \notin NewlyRunning
    BY DEF LaunchInv, RowsInv, Over, Finished, NewlyRunning
  <2>3. Final(rows[n]) /\ ~Late(n) => rows'[n] \in {rows[n], NoRow}
    BY <1>0, <1>3, <2>2, FlushedRows
  <2>4. pending[n].emittedRunning /\ pending'[n] # Untracked => pending'[n].emittedRunning
    BY <1>0, <2>1, DrainedPending DEF Tracked
  <2>5. QED
    BY <2>3, <2>4 DEF Advances
<1>4. CASE Restart
  BY <1>4 DEF Restart, Advances
<1>5. QED
  BY <1>1, <1>2, <1>3, <1>4
  DEF Next, ProcessStarts, ProcessExits, StartRepeats, Clock, TimePasses, Loop, Collect, vars

(* Once a launch has its final row no later save writes it again, however  *)
(* often its start was repeated before its exit and whatever still waits;  *)
(* only a start that comes again after the exit, which the pending check   *)
(* of on_start lets in once the row is handed over, can.  A launch the     *)
(* tracker holds is reported as running once, whatever is repeated.        *)
THEOREM OnlyAdvance == Spec => RowsOnlyAdvance
<1>1. LaunchInv /\ [Next]_vars =>
        [\A n \in Launches :
           /\ Final(rows[n]) /\ ~Late(n) => rows'[n] \in {rows[n], NoRow}
           /\ Tracked(n) /\ pending[n].emittedRunning /\ ~Closed(n) /\ pending'[n] # Untracked
                => pending'[n].emittedRunning]_vars
  BY StepAdvances DEF Advances
<1>2. QED
  BY <1>1, LaunchInvariant, PTL DEF Spec, RowsOnlyAdvance
=============================================================================
