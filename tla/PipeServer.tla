----------------------------- MODULE PipeServer -----------------------------
(***************************************************************************)
(* The named pipe of pipe.rs and the shutdown of runtime.rs: one server    *)
(* thread and one pipe instance at a time, clients that open a connection  *)
(* per request (client.rs), and a main thread that raises the stop flag,   *)
(* wakes the server with a connection of its own and joins it.             *)
(* What a request does to the service is the other modules' subject.       *)
(***************************************************************************)
CONSTANTS Clients  \* the dashboard, the tray helper, the analyzer

ASSUME ClientsAreClients == Clients \cap {"none", "open", "left"} = {}

VARIABLES
  server,    \* where the pipe thread is
  instance,  \* the pipe instance: none, open, a client's, or left by one
  stop,      \* pipe_stop
  main,      \* where run() is
  client     \* where each client is in PipeClient::send

vars == <<server, instance, stop, main, client>>

ServerPoints == {"check", "create", "connect", "serve", "close", "exited"}
MainPoints   == {"sampling", "stopping", "waking", "joining", "stopped"}
ClientPoints == {"idle", "waiting", "connected", "sent", "answered", "cut"}

(* Types, and who is at the other end: a client holds the instance exactly *)
(* while it is connected.                                                  *)
TypeOK ==
  /\ server \in ServerPoints /\ main \in MainPoints /\ stop \in BOOLEAN
  /\ instance \in {"none", "open", "left"} \cup Clients
  /\ client \in [Clients -> ClientPoints]
  /\ \A c \in Clients : instance = c <=> client[c] \in {"connected", "sent", "answered"}

Init ==
  /\ server = "check" /\ instance = "none" /\ stop = FALSE
  /\ main = "sampling" /\ client = [c \in Clients |-> "idle"]

-----------------------------------------------------------------------------
(* The pipe thread: serve and serve_client.                                *)

ServerGoes(from, to) == server = from /\ server' = to

CheckStop ==
  /\ ServerGoes("check", IF stop THEN "exited" ELSE "create")
  /\ UNCHANGED <<instance, stop, main, client>>

CreateInstance ==
  /\ ServerGoes("create", "connect")
  /\ instance' = "open"
  /\ UNCHANGED <<stop, main, client>>

(* CreateNamedPipeW fails: serve bails out, and only a log line says so.   *)
CreateFails ==
  /\ ServerGoes("create", "exited")
  /\ UNCHANGED <<instance, stop, main, client>>

(* ConnectNamedPipe blocks until somebody has connected; a stop found then *)
(* turns whoever it was away.                                              *)
ConnectReturns ==
  /\ instance # "open"
  /\ ServerGoes("connect", IF instance \in Clients /\ ~stop THEN "serve" ELSE "close")
  /\ UNCHANGED <<instance, stop, main, client>>

(* A loop that looks at the flag after each answer as well.                *)
AnswerOnce ==
  /\ server = "serve" /\ instance \in Clients /\ client[instance] = "sent"
  /\ client' = [client EXCEPT ![instance] = "answered"]
  /\ server' = "close"
  /\ UNCHANGED <<instance, stop, main>>

(* ReadFile, AppState::handle, WriteFile; then the next read.              *)
Answer ==
  /\ server = "serve" /\ instance \in Clients /\ client[instance] = "sent"
  /\ client' = [client EXCEPT ![instance] = "answered"]
  /\ UNCHANGED <<server, instance, stop, main>>

(* ReadFile fails: the client has closed its end.                          *)
ReadFails ==
  /\ instance = "left"
  /\ ServerGoes("serve", "close")
  /\ UNCHANGED <<instance, stop, main, client>>

(* A build that forgets the instance and leaves its client hanging.        *)
CloseInstanceSilently ==
  /\ ServerGoes("close", "check")
  /\ instance' = "none"
  /\ UNCHANGED <<stop, main, client>>

(* DisconnectNamedPipe and CloseHandle.                                    *)
CloseInstance ==
  /\ ServerGoes("close", "check")
  /\ client' = [c \in Clients |-> IF instance = c THEN "cut" ELSE client[c]]
  /\ instance' = "none"
  /\ UNCHANGED <<stop, main>>

Serve ==
  \/ CheckStop \/ CreateInstance \/ CreateFails \/ ConnectReturns
  \/ Answer \/ ReadFails \/ CloseInstance

-----------------------------------------------------------------------------
(* A client: connect within five seconds, one request, one answer, close.  *)

ClientGoes(c, from, to) == client[c] = from /\ client' = [client EXCEPT ![c] = to]

Begin(c) ==
  /\ ClientGoes(c, "idle", "waiting")
  /\ UNCHANGED <<server, instance, stop, main>>

(* WaitNamedPipe and CreateFile; a busy or absent pipe is tried again.     *)
Connect(c) ==
  /\ instance = "open" /\ instance' = c
  /\ ClientGoes(c, "waiting", "connected")
  /\ UNCHANGED <<server, stop, main>>

ConnectTimesOut(c) ==
  /\ ClientGoes(c, "waiting", "idle")
  /\ UNCHANGED <<server, instance, stop, main>>

Send(c) ==
  /\ ClientGoes(c, "connected", "sent")
  /\ UNCHANGED <<server, instance, stop, main>>

Close(c) ==
  /\ ClientGoes(c, "answered", "idle")
  /\ instance' = "left"
  /\ UNCHANGED <<server, stop, main>>

(* The write or the read fails on a disconnected pipe.                     *)
Fail(c) ==
  /\ ClientGoes(c, "cut", "idle")
  /\ UNCHANGED <<server, instance, stop, main>>

Finish(c) == Send(c) \/ Close(c) \/ Fail(c)

-----------------------------------------------------------------------------
(* The main thread: the sampling loop ends (a stop, or a fatal error), and *)
(* run() takes the pipe thread down.                                       *)

MainGoes(from, to) == main = from /\ main' = to

StopRequested ==
  /\ MainGoes("sampling", "stopping")
  /\ UNCHANGED <<server, instance, stop, client>>

(* A shutdown that wakes the server without raising the flag.              *)
RaiseFlagLate ==
  /\ MainGoes("stopping", "waking") /\ UNCHANGED stop
  /\ UNCHANGED <<server, instance, client>>

RaiseFlag ==
  /\ MainGoes("stopping", "waking") /\ stop' = TRUE
  /\ UNCHANGED <<server, instance, client>>

(* wake: opens the pipe and closes it at once, once, and ignores failure.  *)
Wake ==
  /\ MainGoes("waking", "joining")
  /\ instance' = IF instance = "open" THEN "left" ELSE instance
  /\ UNCHANGED <<server, stop, client>>

Join ==
  /\ server = "exited"
  /\ MainGoes("joining", "stopped")
  /\ UNCHANGED <<server, instance, stop, client>>

Shutdown == RaiseFlag \/ Wake \/ Join

Next ==
  \/ Serve
  \/ \E c \in Clients : Begin(c) \/ Connect(c) \/ ConnectTimesOut(c) \/ Finish(c)
  \/ StopRequested \/ Shutdown

(* Threads run; a client that is connected goes through with its request.  *)
Spec ==
  /\ Init /\ [][Next]_vars
  /\ WF_vars(Serve) /\ WF_vars(Shutdown)
  /\ \A c \in Clients : WF_vars(Finish(c))

(* Some client keeps asking, as the tray helper does every few seconds.    *)
PolledSpec ==
  /\ Spec
  /\ \E c \in Clients : WF_vars(Begin(c)) /\ SF_vars(Connect(c))

-----------------------------------------------------------------------------
(* A client that got through is only ever turned away because the service  *)
(* is stopping, never by the end of somebody else's connection.            *)
CutOnlyByStop == \A c \in Clients : client[c] = "cut" => stop

(* A client that got through gets its answer or an error.                  *)
ConnectedReturns == \A c \in Clients : client[c] = "connected" ~> client[c] = "idle"

(* The service stops.  protocol.md: a fresh connection per request, "so    *)
(* service shutdown cannot be held open by an idle client".                *)
StopCompletes == main = "stopping" ~> main = "stopped"
=============================================================================
