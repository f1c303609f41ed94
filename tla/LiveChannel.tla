---------------------------- MODULE LiveChannel ----------------------------
(***************************************************************************)
(* The high-rate telemetry channel: LiveEngine of the service, whose       *)
(* sampling thread runs only while somebody asks, and the dashboard's side *)
(* of it, a poller in the worker and a short tail of samples on screen.    *)
(* A sample is known by the loop that took it.                             *)
(***************************************************************************)
EXTENDS ClientWorker, FiniteSets

CONSTANTS
  Rates,     \* refresh rates the user can choose, 0 for event-driven
  MaxLoops   \* bound: sampling threads spawned

ASSUME LiveConstants == Rates \subseteq Nat /\ MaxLoops \in Nat

VARIABLES
  latch,     \* LiveShared.running
  slot,      \* LiveShared.latest: the loop that published, 0 if none
  idle,      \* last_request is further back than LIVE_IDLE_STOP
  loops,     \* the sampling threads: where each is
  spawned,
  asking,    \* where the pipe's thread is in LiveEngine::request
  fps,       \* effective_refresh_fps
  fpsSent,   \* live_fps_sent
  every,     \* the worker's live_every, as its rate
  unsupported, \* live_unsupported of the worker
  noted,     \* live_unsupported of the App
  tail       \* live_tail is not empty

serviceVars == <<latch, slot, idle, loops, spawned, asking>>
pollerVars  == <<every, unsupported>>
tailVars    == <<fps, fpsSent, noted, tail>>
liveVars    == <<serviceVars, pollerVars, tailVars>>

LiveInit ==
  /\ latch = FALSE /\ slot = 0 /\ idle = FALSE /\ loops = << >> /\ spawned = 0
  /\ asking = "no"
  /\ fps = 0 /\ fpsSent = 0 /\ every = 0 /\ unsupported = FALSE /\ noted = FALSE
  /\ tail = FALSE

LiveTypeOK ==
  /\ latch \in BOOLEAN /\ idle \in BOOLEAN /\ slot \in 0..spawned /\ spawned \in 0..MaxLoops
  /\ loops \in [DOMAIN loops -> {"starting", "sleeping", "sampling", "clearing", "unlatching"}]
  /\ DOMAIN loops \subseteq 1..spawned
  /\ asking \in {"no", "stamped", "latched"}
  /\ {fps, fpsSent, every} \subseteq Rates \cup {0}
  /\ {unsupported, noted, tail} \subseteq BOOLEAN

-----------------------------------------------------------------------------
(* LiveEngine::request, in its three steps. The pipe serves one request at *)
(* a time; other clients ask too.                                          *)

Stamp ==
  /\ asking = "no" /\ asking' = "stamped" /\ idle' = FALSE
  /\ UNCHANGED <<latch, slot, loops, spawned>>

(* The thread may fail to start, and the latch is given back.              *)
Latch ==
  /\ asking = "stamped" /\ asking' = "latched"
  /\ \/ ~latch /\ spawned < MaxLoops /\ spawned' = spawned + 1 /\ latch' = TRUE
        /\ loops' = [g \in DOMAIN loops \cup {spawned'} |->
                       IF g = spawned' THEN "starting" ELSE loops[g]]
     \/ UNCHANGED <<latch, spawned, loops>>
  /\ UNCHANGED <<slot, idle>>

Read ==
  /\ asking = "latched" /\ asking' = "no"
  /\ UNCHANGED <<latch, slot, idle, loops, spawned>>

-----------------------------------------------------------------------------
(* live_loop                                                               *)

At(g, here) == g \in DOMAIN loops /\ loops[g] = here
Goes(g, there) == loops' = [loops EXCEPT ![g] = there]
Ends(g) == loops' = [h \in DOMAIN loops \ {g} |-> loops[h]]

Start(g) == At(g, "starting") /\ Goes(g, "sleeping") /\ UNCHANGED <<latch, slot>>

(* The factory fails and the thread returns with the latch taken.          *)
NoSamplerLatched(g) == At(g, "starting") /\ Ends(g) /\ UNCHANGED <<latch, slot>>

NoSampler(g) == At(g, "starting") /\ Ends(g) /\ latch' = FALSE /\ UNCHANGED slot

(* A loop that never looks at the last request.                            *)
WakeAlways(g) == At(g, "sleeping") /\ Goes(g, "sampling") /\ UNCHANGED <<latch, slot>>

Wake(g) ==
  /\ At(g, "sleeping") /\ Goes(g, IF idle THEN "clearing" ELSE "sampling")
  /\ UNCHANGED <<latch, slot>>

Publish(g) == At(g, "sampling") /\ Goes(g, "sleeping") /\ slot' = g /\ UNCHANGED latch

Clear(g) == At(g, "clearing") /\ Goes(g, "unlatching") /\ slot' = 0 /\ UNCHANGED latch

Unlatch(g) == At(g, "unlatching") /\ Ends(g) /\ latch' = FALSE /\ UNCHANGED slot

LoopStep(g) ==
  /\ Start(g) \/ NoSampler(g) \/ Wake(g) \/ Publish(g) \/ Clear(g) \/ Unlatch(g)
  /\ UNCHANGED <<workerVars, idle, spawned, asking, pollerVars, tailVars>>

(* LIVE_IDLE_STOP passes.                                                  *)
GrowsIdle ==
  /\ ~idle /\ idle' = TRUE
  /\ UNCHANGED <<workerVars, latch, slot, loops, spawned, asking, pollerVars, tailVars>>

OtherAsks ==
  /\ place # "polling" /\ (Stamp \/ Latch \/ Read)
  /\ UNCHANGED <<workerVars, pollerVars, tailVars>>

-----------------------------------------------------------------------------
(* The dashboard.                                                          *)

(* sync_live_polling after the rate becomes f.                             *)
SyncPolling(f) ==
  /\ fpsSent' = f
  /\ IF f # fpsSent THEN TrySend([kind |-> "live", fps |-> f]) ELSE UNCHANGED commands

(* The refresh row of TUNE, or the frame governor.                         *)
ChangeRate ==
  /\ Handling /\ fps' \in Rates \ {fps}
  /\ SyncPolling(IF noted THEN 0 ELSE fps')
  /\ tail' = (tail /\ fpsSent' # 0)
  /\ UNCHANGED <<serviceVars, pollerVars, noted>>

(* apply_live: an unavailable sample, or one nobody waits for, is dropped. *)
LiveArrived ==
  /\ Draining("live") /\ Head(events).ok
  /\ tail' = (tail \/ (fps # 0 /\ ~noted /\ Head(events).loop # 0))
  /\ UNCHANGED <<commands, serviceVars, pollerVars, fps, fpsSent, noted>>

(* note_live_unsupported                                                   *)
LiveRefused ==
  /\ Draining("live") /\ ~Head(events).ok
  /\ noted' = TRUE /\ tail' = FALSE
  /\ SyncPolling(0)
  /\ UNCHANGED <<serviceVars, pollerVars, fps>>

ServeLive ==
  /\ Serve("live", {<< >>}) /\ every' = Head(commands).fps
  /\ UNCHANGED <<serviceVars, unsupported, tailVars>>

(* The poll between two snapshots blocks the worker for a round trip.      *)
Poll ==
  /\ place = "select" /\ outbox = << >> /\ commands = << >>
  /\ every # 0 /\ ~unsupported /\ Stamp
  /\ place' = "polling"
  /\ UNCHANGED <<commands, events, outbox, pollerVars, tailVars>>

PollLatches == place = "polling" /\ Latch /\ UNCHANGED <<workerVars, pollerVars, tailVars>>

PollReturns ==
  /\ place = "polling" /\ Read /\ place' = "top"
  /\ outbox' = <<[kind |-> "live", ok |-> TRUE, loop |-> slot]>>
  /\ UNCHANGED <<commands, events, pollerVars, tailVars>>

(* A transient failure is not reported; a service without the command ends *)
(* the polling for the session.                                            *)
PollFails ==
  /\ place = "select" /\ outbox = << >> /\ commands = << >> /\ every # 0 /\ ~unsupported
  /\ place' = "top"
  /\ \/ outbox' = << >> /\ UNCHANGED unsupported
     \/ outbox' = <<[kind |-> "live", ok |-> FALSE, loop |-> 0]>> /\ unsupported' = TRUE
  /\ UNCHANGED <<commands, events, serviceVars, every, tailVars>>

-----------------------------------------------------------------------------
(* The latch is held exactly while one sampling thread runs, and a sample  *)
(* in the slot is that thread's: a restarted loop never finds, and a       *)
(* racing request never serves, a stale one (live.rs, end of live_loop).   *)
OneLoopServes ==
  /\ latch <=> DOMAIN loops # {}
  /\ Cardinality(DOMAIN loops) <= 1
  /\ slot # 0 => slot \in DOMAIN loops

(* When nobody asks any more the thread exits and the slot is empty: the   *)
(* idle cost is zero (module comment of live.rs).                          *)
LiveStops ==
  asking = "no" ~> asking # "no" \/ (DOMAIN loops = {} /\ ~latch /\ slot = 0)

(* Event-driven mode shows no live sample, however late one arrives, and   *)
(* neither does a session whose service refused the command.               *)
TailIsWanted == tail => fps # 0 /\ ~noted
=============================================================================
