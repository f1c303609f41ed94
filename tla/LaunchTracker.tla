--------------------------- MODULE LaunchTracker ---------------------------
(***************************************************************************)
(* Launch history: the process session of etw.rs queues start and stop     *)
(* events, the sampling loop feeds them to the LaunchTracker of launches.rs*)
(* once per tick and saves what it hands back to launch_events.            *)
(*                                                                         *)
(* A launch is numbered in start order, so the number stands for its       *)
(* (pid, start time) key; a stop event carries no start time, and which    *)
(* launch it closes is the tracker's decision.  Names, paths and lineage   *)
(* are left out, and so is startsSeen, which nothing here depends on.      *)
(***************************************************************************)
EXTENDS Naturals, Sequences, FiniteSets

CONSTANTS
  Pids,      \* process identifiers, which the system reuses
  N,         \* bound: launches of the behaviour
  QueueCap,  \* PROCESS_EVENT_CAPACITY
  RowCap,    \* LAUNCH_ROW_CAP
  MaxLost,   \* bound: events the kernel loses or a stopped service misses
  MaxRepeats \* bound: start events delivered once more

NoPid == "none"

ASSUME LaunchConstants ==
  /\ NoPid \notin Pids
  /\ N \in Nat /\ QueueCap \in Nat \ {0} /\ RowCap \in Nat \ {0}
  /\ MaxLost \in Nat /\ MaxRepeats \in Nat

VARIABLES
  pidOf,      \* the pid each launch got
  live,       \* the launch running under each pid, or 0
  age,        \* of each launch, as the clock thresholds tell it
  queue,      \* events between the kernel and the loop
  lost,       \* history: events that will never arrive
  repeated,   \* history: start events delivered once more
  pc,         \* where the sampling loop is in its tick
  sweep,      \* has_visible_window of the processes this tick collected
  pending,    \* LaunchTracker.pending
  pidIndex,   \* LaunchTracker.pid_index, 0 for no entry
  stopsSeen, orphanStops, persisted, stalePendingEvicted,
  rows        \* the launch_events table

kernelVars  == <<pidOf, live, queue, lost, repeated>>
counterVars == <<stopsSeen, orphanStops, persisted, stalePendingEvicted>>
trackerVars == <<pending, pidIndex, counterVars>>
vars        == <<kernelVars, age, pc, sweep, trackerVars, rows>>

Launches == 1..N
Started(n) == pidOf[n] # NoPid

(* Younger than the 60 s Running flush, past it, past the 24 h eviction.   *)
Young == 0
Settled == 1
Stale == 2

Starts == [kind : {"start"}, launch : Launches]
Stops  == [kind : {"stop"}, launch : Launches]
Agains == [kind : {"again"}, launch : Launches]
Events == Starts \cup Stops \cup Agains

(* The start of this launch came again when its process had exited.        *)
Late(n) == [kind |-> "again", launch |-> n] \in repeated

Sights  == {"unsampled", "hidden", "visible"}
Verdict == [unsampled |-> "unobserved", hidden |-> "neverWindowed", visible |-> "windowed"]
Finals  == {"unobserved", "neverWindowed", "windowed"}

(* A pending launch: what the sweeps saw of it, the launch whose exit it   *)
(* was closed with (0 while open), its final window state, and whether its *)
(* Running snapshot went out.                                              *)
Pendings  == [seen : Sights, exit : 0..N, window : Finals, emittedRunning : BOOLEAN]
Untracked == [seen |-> "unsampled", exit |-> 0, window |-> "untracked", emittedRunning |-> FALSE]
Fresh     == [seen |-> "unsampled", exit |-> 0, window |-> "unobserved", emittedRunning |-> FALSE]

Rows  == [state : Finals \cup {"running"}, exit : 0..N]
NoRow == [state |-> "none", exit |-> 0]
Final(row) == row.state \in Finals

Tracked(n) == pending[n] # Untracked
Closed(n)  == pending[n].exit # 0

(* Types, and what on_stop and the eviction rely on: an index entry always *)
(* leads to a launch of that pid that is tracked and still open.           *)
TypeOK ==
  /\ pidOf \in [Launches -> Pids \cup {NoPid}]
  /\ live \in [Pids -> 0..N]
  /\ age \in [Launches -> Young..Stale]
  /\ queue \in Seq(Events) /\ Len(queue) <= QueueCap
  /\ lost \subseteq Events /\ repeated \subseteq Starts \cup Agains
  /\ pc \in {"idle", "collected"}
  /\ sweep \in [Launches -> Sights]
  /\ pending \in [Launches -> Pendings \cup {Untracked}]
  /\ pidIndex \in [Pids -> 0..N]
  /\ \A p \in Pids : pidIndex[p] # 0 =>
       LET n == pidIndex[p] IN pidOf[n] = p /\ Tracked(n) /\ ~Closed(n)
  /\ stopsSeen \in Nat /\ orphanStops \in Nat /\ persisted \in Nat
  /\ stalePendingEvicted \in Nat
  /\ rows \in [Launches -> Rows \cup {NoRow}]

Init ==
  /\ pidOf = [n \in Launches |-> NoPid] /\ live = [p \in Pids |-> 0]
  /\ age = [n \in Launches |-> Young]
  /\ queue = <<>> /\ lost = {} /\ repeated = {}
  /\ pc = "idle" /\ sweep = [n \in Launches |-> "unsampled"]
  /\ pending = [n \in Launches |-> Untracked] /\ pidIndex = [p \in Pids |-> 0]
  /\ stopsSeen = 0 /\ orphanStops = 0 /\ persisted = 0 /\ stalePendingEvicted = 0
  /\ rows = [n \in Launches |-> NoRow]

-----------------------------------------------------------------------------
(* The machine: processes come and go, and each event is queued, lost      *)
(* before it reaches the queue, or dropped because the queue is full.      *)
Queued(e) ==
  /\ Len(queue) < QueueCap
  /\ queue' = Append(queue, e) /\ UNCHANGED lost

Dropped(e) ==
  /\ Len(queue) = QueueCap \/ Cardinality(lost) < MaxLost
  /\ lost' = lost \cup {e} /\ UNCHANGED queue

Offer(e) == Queued(e) \/ Dropped(e)

ProcessStarts(n, p) ==
  /\ ~Started(n) /\ \A m \in 1..(n - 1) : Started(m)
  /\ live[p] = 0
  /\ pidOf' = [pidOf EXCEPT ![n] = p] /\ live' = [live EXCEPT ![p] = n]
  /\ Offer([kind |-> "start", launch |-> n])
  /\ UNCHANGED <<repeated, age, pc, sweep, trackerVars, rows>>

ProcessExits(p) ==
  /\ live[p] # 0
  /\ live' = [live EXCEPT ![p] = 0]
  /\ Offer([kind |-> "stop", launch |-> live[p]])
  /\ UNCHANGED <<pidOf, repeated, age, pc, sweep, trackerVars, rows>>

(* The retransmission on_start guards against, at any time: behind its     *)
(* original, or when the process has exited and the stop is queued, taken  *)
(* or long saved.  on_start cannot tell the two apart; the kind "again" is *)
(* there for the properties.                                               *)
StartRepeats(n) ==
  /\ Started(n) /\ Cardinality(repeated) < MaxRepeats
  /\ LET e == [kind |-> IF live[pidOf[n]] = n THEN "start" ELSE "again", launch |-> n]
     IN  e \notin repeated /\ repeated' = repeated \cup {e} /\ Queued(e)
  /\ UNCHANGED <<pidOf, live, age, pc, sweep, trackerVars, rows>>

(* The clock a tick reads once: a launch is never younger than a later one.*)
TimePasses(n) ==
  /\ pc = "idle" /\ Started(n) /\ age[n] < Stale
  /\ \A m \in 1..(n - 1) : age[m] > age[n]
  /\ age' = [age EXCEPT ![n] = @ + 1]
  /\ UNCHANGED <<kernelVars, pc, sweep, trackerVars, rows>>

-----------------------------------------------------------------------------
(* The tick collects the processes, with their windows, before it drains.  *)
Collect ==
  /\ pc = "idle" /\ pc' = "collected"
  /\ \E visible \in SUBSET {n \in Launches : \E p \in Pids : live[p] = n} :
       sweep' = [n \in Launches |->
                   IF n \in visible THEN "visible"
                   ELSE IF \E p \in Pids : live[p] = n THEN "hidden" ELSE "unsampled"]
  /\ UNCHANGED <<kernelVars, age, trackerVars, rows>>

(* A build whose duplicate start begins the row anew.                      *)
OnStartResets(n) ==
  /\ pending' = [pending EXCEPT ![n] = Fresh]
  /\ pidIndex' = [pidIndex EXCEPT ![pidOf[n]] = n]
  /\ UNCHANGED counterVars

(* A build that lets the launch the index already names keep the pid.      *)
OnStartKeepsIndex(n) ==
  /\ IF Tracked(n) THEN UNCHANGED <<pending, pidIndex>>
     ELSE /\ pending' = [pending EXCEPT ![n] = Fresh]
          /\ pidIndex' = [pidIndex EXCEPT ![pidOf[n]] = IF @ = 0 THEN n ELSE @]
  /\ UNCHANGED counterVars

(* A duplicate of a tracked start changes nothing; any other, one of a     *)
(* launch that was closed and handed over too, begins a row and takes the  *)
(* pid over from whatever launch still held it.                            *)
OnStart(n) ==
  /\ IF Tracked(n) THEN UNCHANGED <<pending, pidIndex>>
     ELSE /\ pending' = [pending EXCEPT ![n] = Fresh]
          /\ pidIndex' = [pidIndex EXCEPT ![pidOf[n]] = n]
  /\ UNCHANGED counterVars

(* A build that leaves the index pointing at the launch it closed.         *)
OnStopKeepsIndex(p, m) ==
  /\ stopsSeen' = stopsSeen + 1
  /\ LET n == pidIndex[p]
     IN  IF n = 0 \/ ~Tracked(n)
         THEN orphanStops' = orphanStops + 1 /\ UNCHANGED pending
         ELSE /\ pending' = [pending EXCEPT ![n].exit = m,
                                            ![n].window = Verdict[pending[n].seen]]
              /\ UNCHANGED orphanStops
  /\ UNCHANGED <<pidIndex, persisted, stalePendingEvicted>>

(* The exit of launch m, of which the event only tells the pid.            *)
OnStop(p, m) ==
  /\ stopsSeen' = stopsSeen + 1
  /\ LET n == pidIndex[p]
     IN  IF n = 0 \/ ~Tracked(n)
         THEN orphanStops' = orphanStops + 1 /\ UNCHANGED <<pending, pidIndex>>
         ELSE /\ pending' = [pending EXCEPT ![n].exit = m,
                                            ![n].window = Verdict[pending[n].seen]]
              /\ pidIndex' = [pidIndex EXCEPT ![p] = 0]
              /\ UNCHANGED orphanStops
  /\ UNCHANGED <<persisted, stalePendingEvicted>>

(* One iteration of the drain.                                             *)
TakeEvent ==
  /\ pc = "collected" /\ queue # <<>>
  /\ queue' = Tail(queue)
  /\ LET e == Head(queue)
     IN  \/ e.kind \in {"start", "again"} /\ OnStart(e.launch)
         \/ e.kind = "stop" /\ OnStop(pidOf[e.launch], e.launch)
  /\ UNCHANGED <<pidOf, live, lost, repeated, age, pc, sweep, rows>>

(* observe_window, for every collected process: by pid, to whatever launch *)
(* the index now says that is.                                             *)
Sighted(n) ==
  {sweep[m] : m \in {x \in Launches : sweep[x] # "unsampled" /\ pidOf[x] = pidOf[n]}}

Observed(n) ==
  IF ~Tracked(n) \/ pidIndex[pidOf[n]] # n \/ Sighted(n) = {} THEN pending[n]
  ELSE [pending[n] EXCEPT
          !.seen = IF @ = "visible" \/ "visible" \in Sighted(n) THEN "visible" ELSE "hidden"]

(* A drain that has no eviction.                                           *)
StaleOnesNone == {}

(* drain_flushable: closed launches leave, stale ones are evicted, and an  *)
(* open one past the threshold is reported as running, once.               *)
Finished == {n \in Launches : Tracked(n) /\ Closed(n)}
StaleOnes == {n \in Launches : Tracked(n) /\ ~Closed(n) /\ age[n] = Stale}
NewlyRunning ==
  {n \in Launches : Tracked(n) /\ ~Closed(n) /\ age[n] = Settled /\ ~pending[n].emittedRunning}

Drain ==
  /\ pending' = [n \in Launches |->
       IF n \in Finished \cup StaleOnes THEN Untracked
       ELSE IF n \in NewlyRunning THEN [Observed(n) EXCEPT !.emittedRunning = TRUE]
       ELSE Observed(n)]
  /\ pidIndex' = [p \in Pids |-> IF pidIndex[p] \in StaleOnes THEN 0 ELSE pidIndex[p]]
  /\ persisted' = persisted + Cardinality(Finished)
  /\ stalePendingEvicted' = stalePendingEvicted + Cardinality(StaleOnes)
  /\ UNCHANGED <<stopsSeen, orphanStops>>

(* save_launch_events: replace by key, then keep the newest RowCap rows.   *)
Saved(n) ==
  IF n \in Finished THEN [state |-> pending[n].window, exit |-> pending[n].exit]
  ELSE IF n \in NewlyRunning THEN [state |-> "running", exit |-> 0]
  ELSE rows[n]

Capped(r) ==
  [n \in Launches |->
     IF Cardinality({m \in n..N : r[m] # NoRow}) <= RowCap THEN r[n] ELSE NoRow]

(* The rest of the tick: what ETW has not delivered yet stays queued, the  *)
(* save may fail (and is only logged), the retention prune drops old rows. *)
Flush(saved, oldest) ==
  /\ pc = "collected" /\ pc' = "idle"
  /\ Drain
  /\ \A n \in 1..oldest : age[n] = Stale
  /\ LET kept == IF saved /\ Finished \cup NewlyRunning # {}
                 THEN Capped([n \in Launches |-> Saved(n)]) ELSE rows
     IN  rows' = [n \in Launches |-> IF n <= oldest THEN NoRow ELSE kept[n]]
  /\ sweep' = [n \in Launches |-> "unsampled"]
  /\ UNCHANGED <<kernelVars, age>>

(* The service stops anywhere and starts again: the table survives, the    *)
(* tracker and the events on their way do not.                             *)
Restart ==
  /\ pc' = "idle" /\ sweep' = [n \in Launches |-> "unsampled"]
  /\ pending' = [n \in Launches |-> Untracked] /\ pidIndex' = [p \in Pids |-> 0]
  /\ stopsSeen' = 0 /\ orphanStops' = 0 /\ persisted' = 0 /\ stalePendingEvicted' = 0
  /\ lost' = lost \cup {queue[i] : i \in DOMAIN queue} /\ queue' = <<>>
  /\ UNCHANGED <<pidOf, live, repeated, age, rows>>

-----------------------------------------------------------------------------
Clock == \E n \in Launches : TimePasses(n)

Loop == Collect \/ TakeEvent \/ \E saved \in BOOLEAN, oldest \in 0..N : Flush(saved, oldest)

Next ==
  \/ \E n \in Launches, p \in Pids : ProcessStarts(n, p)
  \/ \E p \in Pids : ProcessExits(p)
  \/ \E n \in Launches : StartRepeats(n)
  \/ Clock
  \/ Loop
  \/ Restart

(* The loop ticks, an event at a time and to the end of each tick, and the *)
(* clock moves on between two ticks.                                       *)
Spec ==
  /\ Init /\ [][Next]_vars
  /\ WF_vars(Loop)
  /\ SF_vars(Clock)

-----------------------------------------------------------------------------
(* A row is closed by its own exit, whatever pids were reused, unless the  *)
(* very events that tell the lives of a pid apart never arrived: the exit  *)
(* of the launch and the start of every launch up to the one that exited.  *)
(* (A start that comes again after the exit is one on_start takes for a    *)
(* new launch; what it brings back any later exit of the pid may close.)   *)
ExitIsOwn ==
  \A n \in Launches : LET m == rows[n].exit IN
    m # 0 /\ m # n /\ ~Late(n) =>
      /\ m > n /\ pidOf[m] = pidOf[n]
      /\ [kind |-> "stop", launch |-> n] \in lost
      /\ \A x \in (n + 1)..m : pidOf[x] = pidOf[n] =>
           [kind |-> "start", launch |-> x] \in lost

(* Every stop event the status counts was an orphan, closed a launch that  *)
(* was handed over, or waits on one that will be; none closes two.         *)
StopsAddUp ==
  stopsSeen = orphanStops + persisted + Cardinality({n \in Launches : Tracked(n) /\ Closed(n)})

(* A saved row moves from running to final and stays final until retention *)
(* or the cap removes it, however often its start was repeated while the   *)
(* process ran; only a start repeated after the exit, which no longer      *)
(* finds the launch pending, can bring a final row back.  And a launch the *)
(* tracker holds is reported as running once, whatever is repeated.        *)
RowsOnlyAdvance ==
  [][\A n \in Launches :
       /\ Final(rows[n]) /\ ~Late(n) => rows'[n] \in {rows[n], NoRow}
       /\ Tracked(n) /\ pending[n].emittedRunning /\ ~Closed(n) /\ pending'[n] # Untracked
            => pending'[n].emittedRunning]_vars

(* Whatever was lost, the tracker does not hold a launch for ever.         *)
NothingPendingForever == \A n \in Launches : Tracked(n) ~> ~Tracked(n)
=============================================================================
