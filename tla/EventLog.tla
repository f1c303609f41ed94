------------------------------ MODULE EventLog ------------------------------
(***************************************************************************)
(* The Windows event log collector of eventlog.rs: a poll every half       *)
(* minute over a window that overlaps the last one, a memory of what has   *)
(* been handed on, and the diagnostic_logs table. One channel stands for   *)
(* both, which are polled alike. Time is counted in polls.                 *)
(***************************************************************************)
EXTENDS FiniteSetsExt, SequencesExt

CONSTANTS
  MaxRecord,        \* bound: events logged, numbered as Windows does
  InitialLookback,  \* INITIAL_LOOKBACK_MS
  SteadyLookback,   \* STEADY_LOOKBACK_MS
  MaxEvents,        \* MAX_EVENTS_PER_CHANNEL
  MaxIdentities,    \* MAX_RECENT_IDENTITIES
  Naps              \* how long the machine may sleep, or the service be down

ASSUME EventLogAssumption ==
  /\ MaxRecord \in Nat /\ MaxEvents \in Nat \ {0} /\ MaxIdentities \in Nat
  /\ SteadyLookback \in Nat \ {0} /\ InitialLookback \in Nat
  /\ SteadyLookback <= InitialLookback /\ Naps \subseteq Nat

VARIABLES
  logged,       \* ages of the events in the log, oldest event first
  pollDue,      \* next_event_log_poll has come
  initialPoll,  \* initial_poll
  recent,       \* recent_order
  records,      \* diagnostic_logs
  reported,     \* history: events in sight of a poll that reported trouble
  slept         \* history: events nobody was there to poll in time

evVars == <<logged, pollDue, initialPoll, recent, records, reported, slept>>

Records == 1..MaxRecord
AgeCap  == InitialLookback + 1

EventLogTypeOK ==
  /\ logged \in BoundedSeq(0..AgeCap, MaxRecord)
  /\ pollDue \in BOOLEAN /\ initialPoll \in BOOLEAN
  /\ recent \in BoundedSeq(Records, MaxIdentities)
  /\ records \subseteq DOMAIN logged
  /\ reported \subseteq DOMAIN logged /\ slept \subseteq DOMAIN logged

EventLogInit ==
  /\ logged = << >> /\ pollDue = TRUE /\ initialPoll = TRUE
  /\ recent = << >> /\ records = {} /\ reported = {} /\ slept = {}

-----------------------------------------------------------------------------

Lookback == IF initialPoll THEN InitialLookback ELSE SteadyLookback
InSight  == {e \in DOMAIN logged : logged[e] <= Lookback}

(* The newest of the events in sight (EvtQueryReverseDirection).           *)
Examined == {e \in InSight : Cardinality({f \in InSight : f > e}) < MaxEvents}

(* A comparison the loop's own bound makes impossible.                     *)
TruncatedPast == Cardinality(Examined) > MaxEvents

(* The query is given up at the cap without having seen the end.           *)
Truncated == Cardinality(InSight) >= MaxEvents

LastOf(s, n) == IF Len(s) <= n THEN s ELSE SubSeq(s, Len(s) - n + 1, Len(s))

(* query_channel fails: nothing is remembered, last_error says so.         *)
PollFails ==
  /\ pollDue /\ pollDue' = FALSE
  /\ initialPoll' = FALSE
  /\ reported' = reported \cup InSight
  /\ UNCHANGED <<logged, recent, records, slept>>

(* The order of a query in reverse direction.                              *)
NewestFirst(new) == {s \in [1..Cardinality(new) -> new] :
                       \A i, j \in DOMAIN s : i < j => s[i] > s[j]}

(* poll and insert_diagnostic_logs: what is new is remembered first and    *)
(* stored in one transaction, which may fail and be noted in last_error.   *)
PollEvents(malformed, stored) ==
  LET new == Examined \ (malformed \cup Range(recent)) IN
  /\ pollDue /\ pollDue' = FALSE
  /\ initialPoll' = FALSE
  /\ malformed \subseteq Examined
  /\ new = {} => stored
  /\ \E order \in NewestFirst(new) : recent' = LastOf(recent \o order, MaxIdentities)
  /\ records' = IF stored THEN records \cup new ELSE records
  /\ reported' = reported \cup malformed \cup (IF Truncated THEN InSight ELSE {})
                          \cup (IF stored THEN {} ELSE new)
  /\ UNCHANGED <<logged, slept>>

-----------------------------------------------------------------------------

(* Windows logs a warning or an error.                                     *)
EventLogged ==
  /\ Len(logged) < MaxRecord /\ logged' = Append(logged, 0)
  /\ UNCHANGED <<pollDue, initialPoll, recent, records, reported, slept>>

Ages(d) == [e \in DOMAIN logged |-> Min({logged[e] + d, AgeCap})]

(* Half a minute passes, between two ticks.                                *)
HalfMinute ==
  /\ ~pollDue /\ pollDue' = TRUE
  /\ logged' = Ages(1)
  /\ UNCHANGED <<initialPoll, recent, records, reported, slept>>

Overslept(ages, lookback) ==
  {e \in DOMAIN ages \ records : logged[e] <= Lookback /\ ages[e] > lookback}

(* The machine is suspended and resumes, past the overlap or not.          *)
Suspended(d) ==
  /\ logged' = Ages(d) /\ pollDue' = TRUE
  /\ slept' = slept \cup Overslept(Ages(d), Lookback)
  /\ UNCHANGED <<initialPoll, recent, records, reported>>

(* The service stops and is back after a while.                            *)
BackAfter(d) ==
  /\ logged' = Ages(d) /\ pollDue' = TRUE
  /\ initialPoll' = TRUE /\ recent' = << >>
  /\ slept' = slept \cup Overslept(Ages(d), InitialLookback)
  /\ UNCHANGED <<records, reported>>

EventLogNext ==
  \/ PollFails
  \/ \E malformed \in SUBSET Records, stored \in BOOLEAN : PollEvents(malformed, stored)
  \/ EventLogged \/ HalfMinute
  \/ \E d \in Naps : Suspended(d) \/ BackAfter(d)

-----------------------------------------------------------------------------
(* An event no poll will look at again is in the table, or a poll that had *)
(* it in sight said that something was wrong, or nobody was there in time: *)
(* no combination of failed queries, the cap, broken events, a storage     *)
(* that refuses a batch and restarts loses one without a word.             *)
NothingLostSilently ==
  \A e \in DOMAIN logged :
    logged[e] > Lookback => e \in records \cup reported \cup slept
=============================================================================
