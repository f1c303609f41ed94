-------------------------- MODULE PipeServerProofs --------------------------
(***************************************************************************)
(* For any set of clients: the types of PipeServer, and that a connected   *)
(* client is only turned away by a stop.                                   *)
(***************************************************************************)
EXTENDS PipeServer, TLAPS

(* What the server may find in its one instance at each point of its loop. *)
InstanceFits ==
  /\ server \in {"check", "create", "exited"} => instance = "none"
  /\ server = "connect" => instance # "none"
  /\ server = "serve" => instance \in Clients \cup {"left"}
  /\ server = "close" => instance = "left" \/ (instance \in Clients /\ stop)

Inductive == TypeOK /\ InstanceFits /\ CutOnlyByStop

LEMMA InductiveInit == Init => Inductive
BY ClientsAreClients DEF Init, Inductive, TypeOK, InstanceFits, CutOnlyByStop,
   ServerPoints, MainPoints, ClientPoints

(* The server's own steps.                                                 *)
LEMMA ServeKeeps == Inductive /\ Serve => Inductive'
<1> SUFFICES ASSUME Inductive, Serve PROVE Inductive'
  OBVIOUS
<1> USE ClientsAreClients DEF Inductive, TypeOK, InstanceFits, CutOnlyByStop,
        ServerPoints, MainPoints, ClientPoints, ServerGoes
<1>1. CASE CheckStop
  BY <1>1 DEF CheckStop
<1>2. CASE CreateInstance
  BY <1>2 DEF CreateInstance
<1>3. CASE CreateFails
  BY <1>3 DEF CreateFails
<1>4. CASE ConnectReturns
  BY <1>4 DEF ConnectReturns
<1>5. CASE Answer
  BY <1>5 DEF Answer
<1>6. CASE ReadFails
  BY <1>6 DEF ReadFails
<1>7. CASE CloseInstance
  BY <1>7 DEF CloseInstance
<1> QED
  BY <1>1, <1>2, <1>3, <1>4, <1>5, <1>6, <1>7 DEF Serve

(* A client's steps.                                                       *)
LEMMA ClientKeeps ==
  ASSUME Inductive, NEW c \in Clients,
         Begin(c) \/ Connect(c) \/ ConnectTimesOut(c) \/ Finish(c)
  PROVE  Inductive'
<1> USE ClientsAreClients DEF Inductive, TypeOK, InstanceFits, CutOnlyByStop,
        ServerPoints, MainPoints, ClientPoints, ClientGoes
<1>1. CASE Begin(c)
  BY <1>1 DEF Begin
<1>2. CASE Connect(c)
  BY <1>2 DEF Connect
<1>3. CASE ConnectTimesOut(c)
  BY <1>3 DEF ConnectTimesOut
<1>4. CASE Send(c)
  BY <1>4 DEF Send
<1>5. CASE Close(c)
  BY <1>5 DEF Close
<1>6. CASE Fail(c)
  BY <1>6 DEF Fail
<1> QED
  BY <1>1, <1>2, <1>3, <1>4, <1>5, <1>6 DEF Finish

(* The main thread's steps.                                                *)
LEMMA MainKeeps == Inductive /\ (StopRequested \/ Shutdown) => Inductive'
<1> SUFFICES ASSUME Inductive, StopRequested \/ Shutdown PROVE Inductive'
  OBVIOUS
<1> USE ClientsAreClients DEF Inductive, TypeOK, InstanceFits, CutOnlyByStop,
        ServerPoints, MainPoints, ClientPoints, MainGoes
<1>1. CASE StopRequested
  BY <1>1 DEF StopRequested
<1>2. CASE RaiseFlag
  BY <1>2 DEF RaiseFlag
<1>3. CASE Wake
  BY <1>3 DEF Wake
<1>4. CASE Join
  BY <1>4 DEF Join
<1> QED
  BY <1>1, <1>2, <1>3, <1>4 DEF Shutdown

LEMMA InductiveNext == Inductive /\ [Next]_vars => Inductive'
<1> SUFFICES ASSUME Inductive, [Next]_vars PROVE Inductive'
  OBVIOUS
<1>1. CASE UNCHANGED vars
  BY <1>1 DEF vars, Inductive, TypeOK, InstanceFits, CutOnlyByStop
<1>2. CASE Next
  BY <1>2, ServeKeeps, ClientKeeps, MainKeeps DEF Next
<1> QED
  BY <1>1, <1>2

(* The pipe's types, with a client at the other end of the instance exactly*)
(* while it is connected, for any number of clients.                       *)
THEOREM PipeTypes == Spec => []TypeOK
<1>1. Inductive => TypeOK
  BY DEF Inductive
<1> QED
  BY <1>1, InductiveInit, InductiveNext, PTL DEF Spec

(* However many clients there are and however their requests, timeouts and *)
(* disconnects interleave with the server's loop, one that got through is  *)
(* only turned away when the service is stopping.                          *)
THEOREM OnlyAStopCuts == Spec => []CutOnlyByStop
<1>1. Inductive => CutOnlyByStop
  BY DEF Inductive
<1> QED
  BY <1>1, InductiveInit, InductiveNext, PTL DEF Spec
=============================================================================
