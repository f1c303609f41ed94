---------------------------- MODULE AlertService ----------------------------
(***************************************************************************)
(* An incident on its way from the alert engine to the user: the sampling  *)
(* loop of runtime.rs evaluates under the engine's lock, later writes what *)
(* changed to the alerts table and later still publishes a snapshot; the   *)
(* pipe thread acknowledges or archives in the engine, the table and the   *)
(* snapshot, in that order and under three different locks; the tray polls *)
(* the snapshot.  The engine is its ledger (IncidentEngine implements it). *)
(*                                                                         *)
(* The database survives a restart of the service, the tray's memory too.  *)
(***************************************************************************)
EXTENDS Naturals

CONSTANTS
  Keys,    \* fingerprints
  MaxIds,  \* bound: incidents minted per fingerprint
  MaxGen,  \* bound: notification generations per incident
  Marks    \* user decisions an alert carries: "acknowledged", "archived"

ASSUME ServiceConstants == MaxIds \in Nat /\ MaxGen \in Nat /\ "absent" \notin Marks

VARIABLES
  ledger, last, minted, told,  \* the engine: see IncidentLedger
  marks,     \* the flags on the engine's open alert of each key
  pc,        \* where the sampling loop is in its tick
  batch,     \* evaluation.changed: the rows about to be written
  view,      \* evaluation.active: the alerts about to be published
  store,     \* the alerts table
  snapshot,  \* AppState.snapshot.active_alerts
  request,   \* the mark request the pipe thread is serving
  seen,      \* the tray's memory of notification pairs
  initialized, \* whether the tray has polled a snapshot before
  early      \* history: pairs a request showed before they were stored

engineVars  == <<ledger, last, minted, told, marks>>
loopVars    == <<pc, batch, view>>
trayVars    == <<seen, initialized>>

vars == <<engineVars, loopVars, store, snapshot, request, trayVars, early>>

Engine == INSTANCE IncidentLedger

None == [n |-> 0]
Ids  == Keys \X (1..MaxIds)

(* An alert as the snapshot has it, a row to write, and a row as stored.   *)
Shown   == [n : 1..MaxIds, gen : 0..MaxGen, notify : BOOLEAN, marks : SUBSET Marks]
Written == [n : 1..MaxIds, gen : 0..MaxGen, open : BOOLEAN, marks : SUBSET Marks]
Stored  == [gen : 0..MaxGen, open : BOOLEAN, marks : SUBSET Marks]
Absent  == [gen |-> 0, open |-> FALSE, marks |-> {"absent"}]

(* The pipe thread's request: which alert, which mark, set or cleared, and *)
(* the engine's clone of the alert, if it had one.                         *)
Idle     == [step |-> "idle"]
Requests == [step : {"stored", "engine"}, key : Keys, n : 1..MaxIds, mark : Marks,
             on : BOOLEAN, alert : Shown \cup {None}]

TypeOK ==
  /\ Engine!TypeOK
  /\ marks \in [Keys -> SUBSET Marks]
  /\ pc \in {"idle", "evaluated", "stored"}
  /\ batch \in [Keys -> Written \cup {None}]
  /\ view \in [Keys -> Shown \cup {None}]
  /\ store \in [Ids -> Stored \cup {Absent}]
  /\ snapshot \in [Keys -> Shown \cup {None}]
  /\ request \in Requests \cup {Idle}
  /\ seen \subseteq Ids \X (0..MaxGen) /\ initialized \in BOOLEAN
  /\ early \subseteq Ids \X (0..MaxGen)

Init ==
  /\ Engine!Init
  /\ marks = [k \in Keys |-> {}]
  /\ pc = "idle"
  /\ batch = [k \in Keys |-> None] /\ view = [k \in Keys |-> None]
  /\ store = [i \in Ids |-> Absent]
  /\ snapshot = [k \in Keys |-> None]
  /\ request = Idle
  /\ seen = {} /\ initialized = FALSE
  /\ early = {}

Open(k)  == ledger[k] # Engine!Closed
Pair(k, alert) == <<<<k, alert.n>>, alert.gen>>

(* The engine's clone of an open alert.                                    *)
Clone(inc, ms) == [n |-> inc.n, gen |-> inc.gen, notify |-> inc.notify, marks |-> ms]

-----------------------------------------------------------------------------
(* The sampling loop.                                                      *)

(* A build that leaves resolutions to the restart that follows.            *)
ChangedOpenOnly(k, touched) ==
  IF ledger'[k] # Engine!Closed /\ (touched \/ ledger'[k] # ledger[k])
  THEN [n |-> ledger'[k].n, gen |-> ledger'[k].gen, open |-> TRUE, marks |-> marks'[k]]
  ELSE None

(* What an evaluation hands to storage of a key: every incident it closed, *)
(* and every open one that a candidate touched or whose decision moved.    *)
Changed(k, touched) ==
  CASE Open(k) /\ ledger'[k] = Engine!Closed ->
         [n |-> ledger[k].n, gen |-> ledger[k].gen, open |-> FALSE, marks |-> marks[k]]
    [] ledger'[k] # Engine!Closed /\ (touched \/ ledger'[k] # ledger[k]) ->
         [n |-> ledger'[k].n, gen |-> ledger'[k].gen, open |-> TRUE, marks |-> marks'[k]]
    [] OTHER -> None

(* AlertEngine::evaluate, under the engine's lock.  An incident that opens *)
(* or reopens starts unacknowledged and unarchived.                        *)
Evaluate ==
  /\ pc = "idle" /\ pc' = "evaluated"
  /\ \E l \in [Keys -> Engine!Incidents \cup {Engine!Closed}],
        r \in [Keys -> Engine!Resolved \cup {Engine!Nothing}],
        fresh \in SUBSET Keys :
       /\ ledger' = l /\ last' = r
       /\ minted' = [k \in Keys |-> IF k \in fresh THEN minted[k] + 1 ELSE minted[k]]
       /\ \A k \in fresh : minted[k] < MaxIds
  /\ Engine!Evaluate
  /\ marks' = [k \in Keys |-> IF Open(k) /\ ledger'[k] # Engine!Closed THEN marks[k] ELSE {}]
  /\ \E touched \in SUBSET Keys :
       batch' = [k \in Keys |-> Changed(k, k \in touched)]
  /\ view' = [k \in Keys |-> IF ledger'[k] = Engine!Closed THEN None
                             ELSE Clone(ledger'[k], marks'[k])]
  /\ UNCHANGED <<store, snapshot, request, trayVars, early>>

(* Storage::upsert_alerts replaces the whole payload.  Its failure ends    *)
(* the loop and with it the service: see Restart.                          *)
Row(i) ==
  IF batch[i[1]] # None /\ batch[i[1]].n = i[2]
  THEN [gen |-> batch[i[1]].gen, open |-> batch[i[1]].open, marks |-> batch[i[1]].marks]
  ELSE store[i]

Upsert ==
  /\ pc = "evaluated" /\ pc' = "stored"
  /\ store' = [i \in Ids |-> Row(i)]
  /\ batch' = [k \in Keys |-> None]
  /\ UNCHANGED <<engineVars, view, snapshot, request, trayVars, early>>

(* A loop that keeps the items a snapshot already lists at a generation.   *)
PublishKeepsKnown ==
  /\ pc = "stored" /\ pc' = "idle"
  /\ snapshot' = [k \in Keys |->
       IF /\ snapshot[k] # None /\ view[k] # None
          /\ snapshot[k].n = view[k].n /\ snapshot[k].gen = view[k].gen
       THEN snapshot[k] ELSE view[k]]
  /\ view' = [k \in Keys |-> None]
  /\ UNCHANGED <<engineVars, batch, store, request, trayVars, early>>

Publish ==
  /\ pc = "stored" /\ pc' = "idle"
  /\ snapshot' = view
  /\ view' = [k \in Keys |-> None]
  /\ UNCHANGED <<engineVars, batch, store, request, trayVars, early>>

(* The two steps of a loop that publishes before it writes.                *)
PublishFirst ==
  /\ pc = "evaluated" /\ pc' = "stored"
  /\ snapshot' = view
  /\ UNCHANGED <<engineVars, batch, view, store, request, trayVars, early>>

UpsertLast ==
  /\ pc = "stored" /\ pc' = "idle"
  /\ store' = [i \in Ids |-> Row(i)]
  /\ batch' = [k \in Keys |-> None] /\ view' = [k \in Keys |-> None]
  /\ UNCHANGED <<engineVars, snapshot, request, trayVars, early>>

-----------------------------------------------------------------------------
(* The pipe thread: AcknowledgeAlert (which only ever sets) and            *)
(* ArchiveAlert, for an alert some client can name.                        *)

With(ms, m, on) == IF on THEN ms \cup {m} ELSE ms \ {m}

(* A build that clones whatever the key has open, if anything.             *)
MarkEngineUnchecked(k, n, m, on) ==
  /\ request = Idle
  /\ store[<<k, n>>] # Absent
  /\ m = "acknowledged" => on
  /\ LET ms == With(marks[k], m, on)
     IN  /\ marks' = [marks EXCEPT ![k] = ms]
         /\ request' = [step |-> "engine", key |-> k, n |-> n, mark |-> m, on |-> on,
                        alert |-> Clone(ledger[k], ms)]
  /\ UNCHANGED <<ledger, last, minted, told, loopVars, store, snapshot, trayVars, early>>

(* acknowledge and set_archived of the engine: the open alert, if the id   *)
(* is still open.                                                          *)
MarkEngine(k, n, m, on) ==
  /\ request = Idle
  /\ store[<<k, n>>] # Absent
  /\ m = "acknowledged" => on
  /\ LET active == ledger[k].n = n
         ms     == IF active THEN With(marks[k], m, on) ELSE marks[k]
     IN  /\ marks' = [marks EXCEPT ![k] = ms]
         /\ request' = [step |-> "engine", key |-> k, n |-> n, mark |-> m, on |-> on,
                        alert |-> IF active THEN Clone(ledger[k], ms) ELSE None]
  /\ UNCHANGED <<ledger, last, minted, told, loopVars, store, snapshot, trayVars, early>>

(* acknowledge_alert and archive_alert of storage: read, patch and write   *)
(* the row under one lock.                                                 *)
MarkStore ==
  /\ request.step = "engine"
  /\ store' = [store EXCEPT ![<<request.key, request.n>>].marks =
                 With(@, request.mark, request.on)]
  /\ request' = [request EXCEPT !.step = "stored"]
  /\ UNCHANGED <<engineVars, loopVars, snapshot, trayVars, early>>

(* Storage failed: an error reply, with the engine's flag already moved.   *)
MarkFails ==
  /\ request.step = "engine"
  /\ request' = Idle
  /\ UNCHANGED <<engineVars, loopVars, store, snapshot, trayVars, early>>

(* The snapshot's item of that id is replaced by the engine's clone, and   *)
(* the client has its answer.                                              *)
MarkSnapshot ==
  /\ request.step = "stored"
  /\ request' = Idle
  /\ LET k     == request.key
         found == request.alert # None /\ snapshot[k].n = request.n
     IN  /\ snapshot' = IF found THEN [snapshot EXCEPT ![k] = request.alert] ELSE snapshot
         /\ early' = IF found /\ store[<<k, request.n>>].gen < request.alert.gen
                     THEN early \cup {Pair(k, request.alert)} ELSE early
  /\ UNCHANGED <<engineVars, loopVars, store, trayVars>>

-----------------------------------------------------------------------------
(* The tray: a snapshot fetched while no other request is being served,    *)
(* and pending_notifications over it.                                      *)

Notifiable == {k \in Keys : snapshot[k] # None /\ snapshot[k].notify}

Poll ==
  /\ request = Idle
  /\ seen' = seen \cup {Pair(k, snapshot[k]) : k \in Notifiable}
  /\ initialized' = TRUE
  /\ UNCHANGED <<engineVars, loopVars, store, snapshot, request, early>>

(* The helper exits and is started again.                                  *)
TrayRestart ==
  /\ seen' = {} /\ initialized' = FALSE
  /\ UNCHANGED <<engineVars, loopVars, store, snapshot, request, early>>

-----------------------------------------------------------------------------
(* The service stops anywhere (a crash, a fatal error of the loop, a stop) *)
(* and run() starts it again: every row still open is resolved as of now,  *)
(* and the newest row of each fingerprint, if resolved within the quiet    *)
(* period, is what the new engine may reopen.                              *)
Resolve(row) == IF row = Absent THEN Absent ELSE [row EXCEPT !.open = FALSE]

StoredIds(k) == {n \in 1..MaxIds : store[<<k, n>>] # Absent}
Newest(k)    == CHOOSE n \in StoredIds(k) : \A m \in StoredIds(k) : m <= n
Seed(k)      == [n |-> Newest(k), gen |-> store[<<k, Newest(k)>>].gen]

Seeds(k) ==
  IF StoredIds(k) = {} THEN {Engine!Nothing}
  ELSE IF store[<<k, Newest(k)>>].open THEN {Seed(k)}
  ELSE {Seed(k), Engine!Nothing}

Restart ==
  /\ store' = [i \in Ids |-> Resolve(store[i])]
  /\ ledger' = [k \in Keys |-> Engine!Closed]
  /\ \E r \in [Keys -> Engine!Resolved \cup {Engine!Nothing}] :
       /\ \A k \in Keys : r[k] \in Seeds(k)
       /\ last' = r
  /\ marks' = [k \in Keys |-> {}]
  /\ pc' = "idle"
  /\ batch' = [k \in Keys |-> None] /\ view' = [k \in Keys |-> None]
  /\ snapshot' = [k \in Keys |-> None]
  /\ request' = Idle
  /\ UNCHANGED <<minted, told, trayVars, early>>

-----------------------------------------------------------------------------
(* A loop that publishes before it writes.                                 *)
LoopPublishesFirst == Evaluate \/ PublishFirst \/ UpsertLast

Loop    == Evaluate \/ Upsert \/ Publish
Handler == MarkStore \/ MarkFails \/ MarkSnapshot

Next ==
  \/ Loop
  \/ \E i \in Ids, m \in Marks, on \in BOOLEAN : MarkEngine(i[1], i[2], m, on)
  \/ Handler
  \/ Poll \/ TrayRestart
  \/ Restart

(* The loop ticks, a request being served is answered, the tray polls.     *)
Spec == Init /\ [][Next]_vars /\ WF_vars(Loop) /\ WF_vars(Handler) /\ WF_vars(Poll)

-----------------------------------------------------------------------------
(* Between two ticks the table has exactly the engine's incidents open,    *)
(* each with the engine's generation, and the snapshot lists the same.     *)
IdleAgrees ==
  pc = "idle" =>
    \A k \in Keys :
      /\ snapshot[k].n = ledger[k].n
      /\ \A n \in 1..MaxIds :
           store[<<k, n>>].open <=> Open(k) /\ ledger[k].n = n
      /\ Open(k) => store[<<k, ledger[k].n>>].gen = ledger[k].gen

(* A pair the tray remembers is in the table, or the table is past it: a   *)
(* restart can only bring back a generation the user was not yet shown --  *)
(* except where a request's clone overtook the write.                      *)
SeenIsDurable ==
  \A p \in seen \ early : store[p[1]] # Absent /\ store[p[1]].gen >= p[2]

(* A decision in the engine reaches the snapshot, whatever stale view was  *)
(* on its way when it was taken, unless the incident or the service ends,  *)
(* or the user takes it back.                                              *)
MarksAreShown ==
  \A k \in Keys, m \in Marks :
    Open(k) /\ m \in marks[k] ~>
      \/ ~Open(k) \/ m \notin marks[k]
      \/ snapshot[k] # None /\ m \in snapshot[k].marks

(* An incident that stays notifiable is remembered by the tray, and so     *)
(* popped or deliberately silenced, once clients stop keeping the single   *)
(* pipe busy with marks.                                                   *)
NotifiableIsSeen ==
  \A k \in Keys, inc \in {i \in Engine!Incidents : i.notify} :
    <>[](ledger[k] = inc /\ request = Idle) => []<>(Pair(k, inc) \in seen)
=============================================================================
