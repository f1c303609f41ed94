---------------------------- MODULE ClientWorker ----------------------------
(***************************************************************************)
(* The dashboard's background thread (worker_loop) and the two bounded     *)
(* channels between it and the user interface. The interface never blocks  *)
(* on a command (try_send: a full channel loses it), the worker blocks on  *)
(* a full event channel. Quitting is not modelled.                         *)
(* The arms of worker_loop that serve one page are in that page's module,  *)
(* built from Serve; a pipe call is one step with any outcome.             *)
(***************************************************************************)
EXTENDS Integers, Sequences

CONSTANTS CommandCap, EventCap   \* bounded(32) and bounded(64)

ASSUME WorkerConstants == CommandCap \in Nat \ {0} /\ EventCap \in Nat \ {0}

VARIABLES
  commands,  \* WorkerCommands on the channel
  events,    \* WorkerEvents on the channel
  place,     \* of the worker: "top" of its loop, "select", "polling"
  outbox     \* events of the command in hand, not on the channel yet

workerVars == <<commands, events, place, outbox>>

WorkerInit ==
  /\ commands = << >> /\ events = << >> /\ place = "top" /\ outbox = << >>

WorkerTypeOK ==
  /\ Len(commands) \in 0..CommandCap /\ Len(events) \in 0..EventCap
  /\ place \in {"top", "select", "polling"}

-----------------------------------------------------------------------------
(* The interface's side.                                                   *)

Room == Len(commands) < CommandCap

(* An unbounded channel.                                                   *)
SendAlways(c) == commands' = Append(commands, c)

TrySend(c) == commands' = IF Room THEN Append(commands, c) ELSE commands

(* One step of the interface: a key or a click, sending nothing itself.    *)
Handling == UNCHANGED <<events, place, outbox>>

(* drain_events takes one event; the handler may send commands.            *)
Draining(kind) ==
  /\ events # << >> /\ Head(events).kind = kind
  /\ events' = Tail(events)
  /\ UNCHANGED <<place, outbox>>

-----------------------------------------------------------------------------
(* The worker's side.                                                      *)

(* The rest of worker_loop's select: it takes a command when there is one, *)
(* times out when there is none, and sends before it goes round again.     *)
Serve(kind, replies) ==
  /\ place = "select" /\ outbox = << >>
  /\ commands # << >> /\ Head(commands).kind = kind
  /\ commands' = Tail(commands)
  /\ outbox' \in replies /\ place' = "top"
  /\ UNCHANGED <<events>>

Flush ==
  /\ outbox # << >> /\ Len(events) < EventCap
  /\ events' = Append(events, Head(outbox)) /\ outbox' = Tail(outbox)
  /\ UNCHANGED <<commands, place>>

(* refresh_page: the replies replace what a page shows, and move cursors.  *)
Shown == [kind |-> "page"]
ServePage(replies) == Serve("page", {replies})

(* The timeout of the select, with the 2-second snapshot due or not.       *)
Tick(due) ==
  /\ place = "select" /\ outbox = << >> /\ commands = << >>
  /\ outbox' = IF due THEN <<Shown>> ELSE << >>
  /\ place' = "top" /\ UNCHANGED <<commands, events>>

(* Top of the loop, what it reaps is the chat's.                           *)
GoRound ==
  /\ place = "top" /\ outbox = << >> /\ place' = "select"
  /\ UNCHANGED <<commands, events, outbox>>
=============================================================================
