--------------------------- MODULE DashboardProofs ---------------------------
(* Proofs about Dashboard, for channels of any size, any launch groups and *)
(* rates, and any number of chats and sampling loops.                      *)
EXTENDS BackgroundClipProofs, FiniteSetTheorems, SequenceTheorems

(* A step of the dashboard, by the page it belongs to.                     *)
LEMMA PageCases ==
  ASSUME [DashboardNext]_vars
  PROVE  \/ Chat /\ UNCHANGED <<launchVars, liveVars>>
         \/ Launches /\ UNCHANGED <<chatVars, liveVars>>
         \/ Live /\ UNCHANGED <<chatVars, launchVars>>
         \/ DrainShown /\ UNCHANGED <<chatVars, liveVars>>
         \/ Reap /\ UNCHANGED <<launchVars, liveVars>>
         \/ (Flush \/ Refreshed \/ Tick(FALSE) \/ Snapshot)
            /\ UNCHANGED <<chatVars, launchVars, liveVars>>
         \/ UNCHANGED pageVars
BY DEF DashboardNext, OnlyChat, OnlyLaunch, OnlyLive, OnlyClip, DrainShown, NoPage, Worker,
       vars, pageVars

-----------------------------------------------------------------------------
(* The live channel: one loop, which owns the latch and the slot.          *)

LoopInv ==
  /\ latch <=> DOMAIN loops # {}
  /\ \A g, h \in DOMAIN loops : g = h
  /\ slot # 0 => slot \in DOMAIN loops
  /\ \A g \in DOMAIN loops : loops[g] \in {"starting", "unlatching"} => slot = 0
  /\ latch \in BOOLEAN

LEMMA InitLoopInv == DashboardInit => LoopInv
<1> SUFFICES ASSUME DashboardInit PROVE LoopInv
  OBVIOUS
<1>1. DOMAIN loops = {} /\ latch = FALSE /\ slot = 0
  BY DEF DashboardInit, LiveInit
<1>2. QED
  BY <1>1 DEF LoopInv

LEMMA LatchKeepsLoopInv == ASSUME LoopInv, Latch PROVE LoopInv'
<1>1. CASE UNCHANGED <<latch, slot, loops>>
  BY <1>1 DEF LoopInv
<1>2. CASE /\ ~latch /\ latch' = TRUE /\ slot' = slot
           /\ spawned' = spawned + 1
           /\ loops' = [g \in DOMAIN loops \cup {spawned'} |->
                          IF g = spawned' THEN "starting" ELSE loops[g]]
  BY <1>2 DEF LoopInv
<1>3. QED
  BY <1>1, <1>2 DEF Latch

LEMMA LoopStepKeepsLoopInv ==
  ASSUME LoopInv, NEW g, LoopStep(g)
  PROVE  LoopInv'
<1> USE DEF At, Goes, Ends
<1>1. CASE Start(g) \/ Wake(g) \/ Publish(g) \/ Clear(g)
  BY <1>1 DEF Start, Wake, Publish, Clear, LoopInv
<1>2. CASE NoSampler(g) \/ Unlatch(g)
  <2>1. g \in DOMAIN loops /\ loops[g] \in {"starting", "unlatching"}
    BY <1>2 DEF NoSampler, Unlatch
  <2>2. DOMAIN loops' = {} /\ latch' = FALSE /\ slot' = 0
    BY <1>2, <2>1 DEF NoSampler, Unlatch, LoopInv
  <2>3. QED
    BY <2>2 DEF LoopInv
<1>3. QED
  BY <1>1, <1>2 DEF LoopStep

LEMMA NextLoopInv == LoopInv /\ [DashboardNext]_vars => LoopInv'
<1> SUFFICES ASSUME LoopInv, [DashboardNext]_vars PROVE LoopInv'
  OBVIOUS
<1>1. CASE UNCHANGED serviceVars
  BY <1>1 DEF serviceVars, LoopInv
<1>2. CASE Live
  <2>1. CASE ChangeRate \/ LiveArrived \/ LiveRefused \/ ServeLive \/ PollFails
    BY <1>1, <2>1 DEF ChangeRate, LiveArrived, LiveRefused, ServeLive, PollFails
  <2>2. CASE Poll \/ PollReturns \/ GrowsIdle
    BY <2>2 DEF Poll, PollReturns, GrowsIdle, Stamp, Read, LoopInv
  <2>3. CASE PollLatches
    BY <2>3, LatchKeepsLoopInv DEF PollLatches
  <2>4. CASE OtherAsks
    BY <2>4, LatchKeepsLoopInv DEF OtherAsks, Stamp, Read, LoopInv
  <2>5. ASSUME NEW g, LoopStep(g) PROVE LoopInv'
    BY <2>5, LoopStepKeepsLoopInv
  <2>6. QED
    BY <1>2, <2>1, <2>2, <2>3, <2>4, <2>5 DEF Live
<1>3. QED
  BY <1>1, <1>2, PageCases DEF liveVars, pageVars

(* One sampling thread at the most, the latch taken exactly while it runs, *)
(* and the slot only ever holding its own sample.                          *)
THEOREM OneLoop == DashboardSpec => []OneLoopServes
<1>1. LoopInv => OneLoopServes
  <2> SUFFICES ASSUME LoopInv PROVE OneLoopServes
    OBVIOUS
  <2>1. CASE DOMAIN loops = {}
    BY <2>1, FS_EmptySet DEF LoopInv, OneLoopServes
  <2>2. CASE DOMAIN loops # {}
    <3>1. PICK g : DOMAIN loops = {g}
      BY <2>2 DEF LoopInv
    <3>2. Cardinality(DOMAIN loops) = 1
      BY <3>1, FS_Singleton
    <3>3. QED
      BY <3>2 DEF LoopInv, OneLoopServes
  <2>3. QED
    BY <2>1, <2>2
<1>2. QED
  BY <1>1, InitLoopInv, NextLoopInv, PTL DEF DashboardSpec

LEMMA NextTailIsWanted == TailIsWanted /\ [DashboardNext]_vars => TailIsWanted'
<1> SUFFICES ASSUME TailIsWanted, [DashboardNext]_vars PROVE TailIsWanted'
  OBVIOUS
<1>1. CASE UNCHANGED tailVars
  BY <1>1 DEF tailVars, TailIsWanted
<1>2. CASE Live
  <2>1. CASE ChangeRate \/ LiveArrived \/ LiveRefused
    BY <2>1 DEF ChangeRate, LiveArrived, LiveRefused, SyncPolling, TailIsWanted
  <2>2. QED
    BY <1>1, <1>2, <2>1 DEF Live, ServeLive, Poll, PollLatches, PollReturns, PollFails,
                            GrowsIdle, OtherAsks, LoopStep
<1>3. QED
  BY <1>1, <1>2, PageCases DEF liveVars, pageVars

(* Event-driven mode, and a session whose service refused the command,     *)
(* show no live sample, however late one arrives.                          *)
THEOREM TailWanted == DashboardSpec => []TailIsWanted
<1>1. DashboardInit => TailIsWanted
  BY DEF DashboardInit, LiveInit, TailIsWanted
<1>2. QED
  BY <1>1, NextTailIsWanted, PTL DEF DashboardSpec

-----------------------------------------------------------------------------
(* The two channels, and the questions and answers on them.                *)

IsSeq(q) == \E S : q \in Seq(S)
Of(q) == {i \in DOMAIN q : q[i].kind = "chat"}
ChatsIn(q) == Cardinality(Of(q))
One(x) == IF x.kind = "chat" THEN 1 ELSE 0

LEMMA ChatsInType ==
  ASSUME NEW q, IsSeq(q)
  PROVE  IsFiniteSet(Of(q)) /\ ChatsIn(q) \in Nat /\ Of(q) \subseteq 1..Len(q)
<1>1. PICK S : q \in Seq(S)
  BY DEF IsSeq
<1>2. Of(q) \subseteq 1..Len(q) /\ IsFiniteSet(1..Len(q))
  BY <1>1, FS_Interval DEF Of
<1>3. QED
  BY <1>2, FS_Subset, FS_CardinalityType DEF ChatsIn

LEMMA EmptySeqCount == IsSeq(<< >>) /\ ChatsIn(<< >>) = 0
<1>1. << >> \in Seq({}) /\ Of(<< >>) = {}
  BY DEF Of
<1>2. QED
  BY <1>1, FS_EmptySet DEF IsSeq, ChatsIn

LEMMA AppendCount ==
  ASSUME NEW q, IsSeq(q), NEW x
  PROVE  /\ IsSeq(Append(q, x)) /\ ChatsIn(Append(q, x)) = ChatsIn(q) + One(x)
         /\ Append(q, x) # << >>
<1>1. PICK S : q \in Seq(S)
  BY DEF IsSeq
<1>2. q \in Seq(S \cup {x}) /\ Len(q) \in Nat
  BY <1>1, SeqMonotonic
<1>3. /\ Append(q, x) \in Seq(S \cup {x})
      /\ DOMAIN Append(q, x) = 1..(Len(q) + 1) /\ Append(q, x)[Len(q) + 1] = x
      /\ \A i \in 1..Len(q) : Append(q, x)[i] = q[i]
      /\ DOMAIN q = 1..Len(q) /\ Append(q, x) # << >>
  BY <1>2
<1>4. CASE x.kind = "chat"
  <2>1. Of(Append(q, x)) = Of(q) \cup {Len(q) + 1} /\ Len(q) + 1 \notin Of(q)
    BY <1>2, <1>3, <1>4 DEF Of
  <2>2. QED
    BY <1>3, <1>4, <2>1, ChatsInType, FS_AddElement DEF ChatsIn, IsSeq, One
<1>5. CASE x.kind # "chat"
  <2>1. Of(Append(q, x)) = Of(q)
    BY <1>2, <1>3, <1>5 DEF Of
  <2>2. QED
    BY <1>3, <1>5, <2>1, ChatsInType DEF ChatsIn, IsSeq, One
<1>6. QED
  BY <1>4, <1>5

LEMMA SingleCount ==
  ASSUME NEW x
  PROVE  IsSeq(<<x>>) /\ ChatsIn(<<x>>) = One(x)
<1>1. <<x>> = Append(<< >>, x)
  OBVIOUS
<1>2. One(x) \in Nat
  BY DEF One
<1>3. /\ IsSeq(Append(<< >>, x))
      /\ ChatsIn(Append(<< >>, x)) = ChatsIn(<< >>) + One(x)
  BY EmptySeqCount, AppendCount
<1>4. QED
  BY <1>1, <1>2, <1>3, EmptySeqCount

LEMMA TailCount ==
  ASSUME NEW q, IsSeq(q), q # << >>
  PROVE  IsSeq(Tail(q)) /\ ChatsIn(q) = ChatsIn(Tail(q)) + One(Head(q))
<1>1. PICK S : q \in Seq(S)
  BY DEF IsSeq
<1>2. /\ Tail(q) \in Seq(S) /\ Len(q) \in Nat \ {0} /\ DOMAIN q = 1..Len(q)
      /\ DOMAIN Tail(q) = 1..(Len(q) - 1)
      /\ \A i \in 1..(Len(q) - 1) : Tail(q)[i] = q[i + 1]
      /\ Head(q) = q[1]
  BY <1>1
<1>3. IsSeq(Tail(q))
  BY <1>2 DEF IsSeq
<1> DEFINE rest == Of(q) \ {1}
           next == [i \in Of(Tail(q)) |-> i + 1]
<1>4. next \in Bijection(Of(Tail(q)), rest)
  <2>1. \A i \in Of(Tail(q)) : i \in Nat /\ i + 1 \in rest
    BY <1>2 DEF Of
  <2>2. \A j \in rest : j - 1 \in Of(Tail(q)) /\ j = (j - 1) + 1
    BY <1>2 DEF Of
  <2>3. next \in Injection(Of(Tail(q)), rest)
    BY <2>1 DEF Injection, IsInjective
  <2>4. next \in Surjection(Of(Tail(q)), rest)
    BY <2>1, <2>2 DEF Surjection
  <2>5. QED
    BY <2>3, <2>4 DEF Bijection
<1>5. ExistsBijection(Of(Tail(q)), rest)
  BY <1>4 DEF ExistsBijection
<1>6. Cardinality(rest) = ChatsIn(Tail(q))
  BY <1>3, <1>5, ChatsInType, FS_Bijection DEF ChatsIn
<1>7. Cardinality(rest) = IF 1 \in Of(q) THEN ChatsIn(q) - 1 ELSE ChatsIn(q)
  BY ChatsInType, FS_RemoveElement DEF ChatsIn
<1>8. 1 \in Of(q) <=> Head(q).kind = "chat"
  BY <1>2 DEF Of
<1>9. ChatsIn(q) \in Nat
  BY ChatsInType
<1>10. QED
  BY <1>3, <1>6, <1>7, <1>8, <1>9 DEF One

LEMMA OneType == ASSUME NEW x PROVE One(x) \in {0, 1}
BY DEF One

-----------------------------------------------------------------------------
(* Steps that carry no question and no answer.                             *)

WireInv == IsSeq(commands) /\ IsSeq(events) /\ IsSeq(outbox)
OnWire == ChatsIn(commands) + ChatsIn(outbox) + ChatsIn(events)

LEMMA OnWireType == (WireInv => OnWire \in Nat) /\ (WireInv' => OnWire' \in Nat)
BY ChatsInType DEF WireInv, OnWire

(* A channel a step leaves alone, appends to, or takes from.               *)
Moves(q, r) ==
  \/ r = q
  \/ \E x : x.kind # "chat" /\ r = Append(q, x)
  \/ q # << >> /\ Head(q).kind # "chat" /\ r = Tail(q)

LEMMA MovesCount ==
  ASSUME NEW q, NEW r, IsSeq(q), Moves(q, r)
  PROVE  IsSeq(r) /\ ChatsIn(r) = ChatsIn(q)
<1>1. ASSUME NEW x, x.kind # "chat", r = Append(q, x) PROVE IsSeq(r) /\ ChatsIn(r) = ChatsIn(q)
  <2>1. One(x) = 0 /\ ChatsIn(q) \in Nat
    BY <1>1, ChatsInType DEF One
  <2>2. IsSeq(Append(q, x)) /\ ChatsIn(Append(q, x)) = ChatsIn(q) + One(x)
    BY AppendCount
  <2>3. QED
    BY <1>1, <2>1, <2>2
<1>2. CASE q # << >> /\ Head(q).kind # "chat" /\ r = Tail(q)
  <2>1. IsSeq(Tail(q)) /\ ChatsIn(q) = ChatsIn(Tail(q)) + One(Head(q))
    BY <1>2, TailCount
  <2>2. One(Head(q)) = 0 /\ ChatsIn(Tail(q)) \in Nat
    BY <1>2, <2>1, ChatsInType DEF One
  <2>3. QED
    BY <1>2, <2>1, <2>2
<1>3. QED
  BY <1>1, <1>2 DEF Moves

Carries(replies) == replies = << >> \/ \E x : x.kind # "chat" /\ replies = <<x>>

LEMMA CarriesCount ==
  ASSUME NEW replies, Carries(replies)
  PROVE  IsSeq(replies) /\ ChatsIn(replies) = 0
BY EmptySeqCount, SingleCount DEF Carries, One

Quiet ==
  /\ Moves(commands, commands') /\ Moves(events, events')
  /\ outbox' = outbox \/ Carries(outbox')

LEMMA QuietKeepsWire ==
  ASSUME WireInv, Quiet
  PROVE  WireInv' /\ OnWire' <= OnWire
<1>1. IsSeq(commands') /\ ChatsIn(commands') = ChatsIn(commands)
  BY MovesCount DEF WireInv, Quiet
<1>2. IsSeq(events') /\ ChatsIn(events') = ChatsIn(events)
  BY MovesCount DEF WireInv, Quiet
<1>3. IsSeq(outbox') /\ ChatsIn(outbox') <= ChatsIn(outbox) /\ ChatsIn(outbox') \in Nat
  <2>1. ChatsIn(outbox) \in Nat /\ IsSeq(outbox)
    BY ChatsInType DEF WireInv
  <2>2. CASE outbox' = outbox
    BY <2>1, <2>2
  <2>3. CASE Carries(outbox')
    BY <2>1, <2>3, CarriesCount
  <2>4. QED
    BY <2>2, <2>3 DEF Quiet
<1>4. ChatsIn(commands) \in Nat /\ ChatsIn(events) \in Nat /\ ChatsIn(outbox) \in Nat
  BY ChatsInType DEF WireInv
<1>5. OnWire' <= OnWire
  BY <1>1, <1>2, <1>3, <1>4 DEF OnWire
<1>6. QED
  BY <1>1, <1>2, <1>3, <1>5 DEF WireInv

LEMMA FlushKeepsWire ==
  ASSUME WireInv, Flush
  PROVE  WireInv' /\ OnWire' = OnWire
<1>1. /\ IsSeq(Tail(outbox))
      /\ ChatsIn(outbox) = ChatsIn(Tail(outbox)) + One(Head(outbox))
  BY TailCount DEF WireInv, Flush
<1>2. /\ IsSeq(Append(events, Head(outbox)))
      /\ ChatsIn(Append(events, Head(outbox))) = ChatsIn(events) + One(Head(outbox))
  BY AppendCount DEF WireInv
<1>3. /\ commands' = commands /\ outbox' = Tail(outbox)
      /\ events' = Append(events, Head(outbox))
  BY DEF Flush
<1>4. /\ ChatsIn(commands) \in Nat /\ ChatsIn(Tail(outbox)) \in Nat
      /\ ChatsIn(events) \in Nat /\ One(Head(outbox)) \in Nat
  BY <1>1, ChatsInType, OneType DEF WireInv
<1>5. ChatsIn(outbox') = ChatsIn(Tail(outbox)) /\ ChatsIn(commands') = ChatsIn(commands)
      /\ ChatsIn(events') = ChatsIn(events) + One(Head(outbox))
  BY <1>2, <1>3
<1>6. OnWire' = OnWire
  BY <1>1, <1>4, <1>5 DEF OnWire
<1>7. QED
  BY <1>1, <1>2, <1>3, <1>6 DEF WireInv

LEMMA TrySendMoves ==
  ASSUME NEW c, c.kind # "chat", TrySend(c)
  PROVE  Moves(commands, commands')
BY DEF TrySend, Moves

LEMMA DrainingMoves ==
  ASSUME NEW kind, kind # "chat", Draining(kind)
  PROVE  Moves(events, events') /\ outbox' = outbox
BY DEF Draining, Moves

LEMMA ServeMoves ==
  ASSUME NEW kind, kind # "chat", NEW replies, Serve(kind, replies),
         \A r \in replies : Carries(r)
  PROVE  Quiet
BY DEF Serve, Moves, Quiet

LEMMA LaunchesQuiet == ASSUME Launches PROVE Quiet
<1>1. ASSUME NEW w, Request(w) PROVE Moves(commands, commands')
  <2>1. [kind |-> "occurrences", of |-> w].kind # "chat"
    OBVIOUS
  <2>2. QED
    BY <1>1, <2>1, TrySendMoves DEF Request
<1>2. ASSUME NEW w, NEW now, SyncTo(w, now) PROVE Moves(commands, commands')
  BY <1>1, <1>2 DEF SyncTo, Moves
<1>3. CASE MoveGroup \/ ClickGroup
  BY <1>2, <1>3 DEF MoveGroup, ClickGroup, Handling, Sync, Quiet, Moves
<1>4. CASE RefreshGroups \/ ToggleFilter
  <2>1. \E b : TrySend([kind |-> "groups", console |-> b])
    BY <1>4 DEF RefreshGroups, ToggleFilter
  <2>2. Moves(commands, commands')
    BY <2>1, TrySendMoves
  <2>3. QED
    BY <1>4, <2>2 DEF RefreshGroups, ToggleFilter, Handling, Quiet, Moves
<1>5. CASE GroupsArrived \/ GroupsFailed
  <2>1. Moves(events, events') /\ outbox' = outbox
    BY <1>5, DrainingMoves DEF GroupsArrived, GroupsFailed
  <2>2. Moves(commands, commands')
    <3>1. CASE GroupsArrived
      <4>1. SyncTo(SelectedIn(groups', selected'), TRUE)
        BY <3>1 DEF GroupsArrived, Sync
      <4>2. QED
        BY <1>2, <4>1
    <3>2. CASE GroupsFailed
      BY <3>2 DEF GroupsFailed, Moves
    <3>3. QED
      BY <1>5, <3>1, <3>2
  <2>3. QED
    BY <2>1, <2>2 DEF Quiet
<1>6. CASE OccurrencesArrived
  <2>1. Moves(events, events') /\ outbox' = outbox
    BY <1>6, DrainingMoves DEF OccurrencesArrived
  <2>2. commands' = commands
    BY <1>6 DEF OccurrencesArrived, ShowOccurrences
  <2>3. QED
    BY <2>1, <2>2 DEF Quiet, Moves
<1>7. CASE Fetch
  BY <1>1, <1>7 DEF Fetch, Handling, Quiet, Moves
<1>8. CASE ServeGroups
  <2> DEFINE replies == {<<[kind |-> "groups", ok |-> TRUE, list |-> l]>>
                           : l \in Rankings(Head(commands).console)}
                        \cup {<<[kind |-> "groups", ok |-> FALSE, list |-> << >>]>>}
  <2>1. Serve("groups", replies)
    BY <1>8 DEF ServeGroups
  <2>2. \A r \in replies : Carries(r)
    BY DEF Carries
  <2> HIDE DEF replies
  <2>3. QED
    BY <2>1, <2>2, ServeMoves
<1>9. CASE ServeOccurrences
  BY <1>9, ServeMoves DEF ServeOccurrences, Carries
<1>10. QED
  BY <1>3, <1>4, <1>5, <1>6, <1>7, <1>8, <1>9 DEF Launches, Browse

LEMMA LiveQuiet == ASSUME Live PROVE Quiet
<1>1. ASSUME NEW f, SyncPolling(f) PROVE Moves(commands, commands')
  <2>1. CASE f # fpsSent
    <3>1. [kind |-> "live", fps |-> f].kind # "chat"
      OBVIOUS
    <3>2. QED
      BY <1>1, <2>1, <3>1, TrySendMoves DEF SyncPolling
  <2>2. CASE f = fpsSent
    BY <1>1, <2>2 DEF SyncPolling, Moves
  <2>3. QED
    BY <2>1, <2>2
<1>2. CASE ChangeRate
  BY <1>1, <1>2 DEF ChangeRate, Handling, Quiet, Moves
<1>3. CASE LiveArrived \/ LiveRefused
  <2>1. Moves(events, events') /\ outbox' = outbox
    BY <1>3, DrainingMoves DEF LiveArrived, LiveRefused
  <2>2. Moves(commands, commands')
    BY <1>1, <1>3 DEF LiveArrived, LiveRefused, Moves
  <2>3. QED
    BY <2>1, <2>2 DEF Quiet
<1>4. CASE ServeLive
  BY <1>4, ServeMoves DEF ServeLive, Carries
<1>5. CASE Poll \/ PollLatches \/ GrowsIdle \/ OtherAsks
  BY <1>5 DEF Poll, PollLatches, GrowsIdle, OtherAsks, workerVars, Quiet, Moves
<1>6. CASE PollReturns \/ PollFails
  BY <1>6 DEF PollReturns, PollFails, Quiet, Moves, Carries
<1>7. ASSUME NEW g, LoopStep(g) PROVE Quiet
  BY <1>7 DEF LoopStep, workerVars, Quiet, Moves
<1>8. QED
  BY <1>2, <1>3, <1>4, <1>5, <1>6, <1>7 DEF Live

-----------------------------------------------------------------------------
(* One question in flight. The page is marked running from the moment the  *)
(* question is on the channel until its reply is drained; what would start *)
(* a second question, or touch the vault under an open rename, waits.      *)

Busy == IF analyzer.does \in {"asking", "sending"} THEN 1 ELSE 0

QuestionInv ==
  /\ WireInv
  /\ mode \in {"normal", "chat"}
  /\ OnWire + Busy <= 1
  /\ ~running => OnWire = 0 /\ Busy = 0
  /\ mode = "chat" => ~running
  /\ band # NoChat => ~running /\ mode = "normal" /\ row # 0 /\ sessions[row].id = band

LEMMA InitQuestionInv == DashboardInit => QuestionInv
<1> SUFFICES ASSUME DashboardInit PROVE QuestionInv
  OBVIOUS
<1>1. /\ commands = << >> /\ events = << >> /\ outbox = << >>
      /\ running = FALSE /\ mode = "normal" /\ band = NoChat /\ analyzer = Idle
  BY DEF DashboardInit, WorkerInit, ChatInit
<1>2. WireInv /\ OnWire = 0
  BY <1>1, EmptySeqCount DEF WireInv, OnWire
<1>3. Busy = 0
  BY <1>1 DEF Busy, Idle
<1>4. QED
  BY <1>1, <1>2, <1>3 DEF QuestionInv

LEMMA BusyType == Busy \in {0, 1} /\ Busy' \in {0, 1}
BY DEF Busy

LEMMA SumAtMostOne ==
  ASSUME NEW a \in Nat, NEW b \in Nat, NEW c \in Nat, NEW d \in Nat,
         c <= a, d <= b, a + b <= 1
  PROVE  c + d <= 1 /\ (a = 0 /\ b = 0 => c = 0 /\ d = 0)
OBVIOUS

LEMMA LessInFlight ==
  ASSUME QuestionInv, WireInv', OnWire' <= OnWire, Busy' <= Busy
  PROVE  OnWire' + Busy' <= 1 /\ (~running => OnWire' = 0 /\ Busy' = 0)
<1>1. OnWire' \in Nat
  BY OnWireType
<1>2. /\ OnWire \in Nat /\ Busy \in Nat /\ Busy' \in Nat
      /\ OnWire + Busy <= 1 /\ (~running => OnWire = 0 /\ Busy = 0)
  BY OnWireType, BusyType DEF QuestionInv
<1> DEFINE a == OnWire
           b == Busy
           c == OnWire'
           d == Busy'
<1>3. a \in Nat /\ b \in Nat /\ c \in Nat /\ d \in Nat /\ c <= a /\ d <= b /\ a + b <= 1
  BY <1>1, <1>2
<1>4. ~running => a = 0 /\ b = 0
  BY <1>2
<1> HIDE DEF a, b, c, d
<1>5. c + d <= 1 /\ (~running => c = 0 /\ d = 0)
  BY <1>3, <1>4, SumAtMostOne
<1>6. QED
  BY <1>5 DEF a, b, c, d

(* A step that carries no question and leaves the page as it is.           *)
LEMMA QuietKeepsQuestion ==
  ASSUME QuestionInv, WireInv', OnWire' <= OnWire,
         UNCHANGED <<running, mode, band, row, sessions>>, Busy' <= Busy
  PROVE  QuestionInv'
BY LessInFlight DEF QuestionInv

(* Keys that end no question and start none.                               *)
LEMMA KeysKeepQuestion ==
  ASSUME QuestionInv, WireInv', OnWire' <= OnWire, UNCHANGED <<running, analyzer>>,
         mode' \in {"normal", "chat"}, mode' = "chat" => ~running, band = NoChat,
         band' # NoChat => ~running /\ mode' = "normal" /\ row' # 0 /\ sessions'[row'].id = band'
  PROVE  QuestionInv'
<1>1. Busy' <= Busy
  BY BusyType DEF Busy
<1>2. QED
  BY <1>1, LessInFlight DEF QuestionInv

LEMMA EndRenameKeepsQuestion ==
  ASSUME QuestionInv, WireInv', OnWire' <= OnWire,
         UNCHANGED <<running, analyzer, mode>>, band' = NoChat
  PROVE  QuestionInv'
<1>1. Busy' <= Busy
  BY BusyType DEF Busy
<1>2. QED
  BY <1>1, LessInFlight DEF QuestionInv

LEMMA HandlingKeepsWire ==
  ASSUME WireInv, Handling, Moves(commands, commands')
  PROVE  WireInv' /\ OnWire' <= OnWire
BY QuietKeepsWire DEF Handling, Quiet, Moves

(* A question is put on the channel, or refused, while nothing is in       *)
(* flight; what else was sent with it carries none.                        *)
LEMMA AskKeepsQuestion ==
  ASSUME QuestionInv, Handling, ~running, band = NoChat, mode' = "normal", UNCHANGED <<band, analyzer>>,
         NEW id, NEW astray, NEW at, NEW sent, Moves(commands, sent),
         Ask(id, astray, at, sent)
  PROVE  QuestionInv'
<1> DEFINE c == [kind |-> "chat", for |-> id]
<1>1. OnWire = 0 /\ Busy = 0
  BY DEF QuestionInv
<1>2. IsSeq(sent) /\ ChatsIn(sent) = ChatsIn(commands)
  BY MovesCount DEF QuestionInv, WireInv
<1>3. IsSeq(Append(sent, c)) /\ ChatsIn(Append(sent, c)) = ChatsIn(sent) + 1
  BY <1>2, AppendCount DEF One
<1>4. /\ running' \in BOOLEAN
      /\ commands' = IF running' THEN Append(sent, c) ELSE sent
      /\ outbox' = outbox /\ events' = events
  BY DEF Ask, Handling
<1>5. WireInv'
  BY <1>2, <1>3, <1>4 DEF QuestionInv, WireInv
<1>6. OnWire' = OnWire + (IF running' THEN 1 ELSE 0)
  <2>1. /\ ChatsIn(commands) \in Nat /\ ChatsIn(outbox) \in Nat /\ ChatsIn(events) \in Nat
    BY ChatsInType DEF QuestionInv, WireInv
  <2>2. ChatsIn(commands') = ChatsIn(commands) + (IF running' THEN 1 ELSE 0)
    BY <1>2, <1>3, <1>4, <2>1
  <2>3. QED
    BY <1>4, <2>1, <2>2 DEF OnWire
<1>7. Busy' = Busy
  BY DEF Busy
<1>8. QED
  BY <1>1, <1>4, <1>5, <1>6, <1>7 DEF QuestionInv

LEMMA PressKeepsQuestion == ASSUME QuestionInv, Press PROVE QuestionInv'
<1> USE DEF Normal, OnPage
<1>1. WireInv
  BY DEF QuestionInv
<1>2. ASSUME Handling, commands' = commands PROVE WireInv' /\ OnWire' <= OnWire
  BY <1>1, <1>2, HandlingKeepsWire DEF Moves
<1>3. CASE SelectPage
  <2>1. Moves(commands, commands')
    BY <1>3, TrySendMoves DEF SelectPage
  <2>2. QED
    BY <1>1, <1>3, <2>1, HandlingKeepsWire, KeysKeepQuestion DEF SelectPage
<1>4. CASE Cancel
  <2>1. Moves(commands, commands')
    BY <1>4, TrySendMoves DEF Cancel
  <2>2. QED
    BY <1>1, <1>4, <2>1, HandlingKeepsWire, KeysKeepQuestion DEF Cancel
<1>5. CASE BeginChat
  BY <1>2, <1>5, KeysKeepQuestion DEF BeginChat, NewChat
<1>6. CASE FocusVault
  BY <1>2, <1>6, KeysKeepQuestion DEF FocusVault
<1>7. CASE MoveRow
  BY <1>2, <1>7, KeysKeepQuestion DEF MoveRow
<1>8. CASE EnterRow
  BY <1>2, <1>8, KeysKeepQuestion DEF EnterRow, Activate
<1>9. CASE ClickRow
  BY <1>2, <1>9, KeysKeepQuestion DEF ClickRow, Activate
<1>10. CASE OpenInput
  BY <1>2, <1>10, KeysKeepQuestion DEF OpenInput
<1>11. CASE CloseInput
  <2>1. band = NoChat
    BY <1>11 DEF CloseInput, QuestionInv
  <2>2. QED
    BY <1>2, <1>11, <2>1, KeysKeepQuestion DEF CloseInput, vaultVars
<1>12. CASE Submit
  <2>1. band = NoChat /\ ~running
    BY <1>12 DEF Submit, QuestionInv
  <2>2. QED
    BY <1>12, <2>1, AskKeepsQuestion DEF Submit, Moves
<1>13. CASE Investigate
  <2>1. [kind |-> "page"].kind # "chat"
    OBVIOUS
  <2>2. QED
    BY <1>13, <2>1, AskKeepsQuestion DEF Investigate, InvestigateAnyway, Moves
<1>14. CASE BeginRename
  BY <1>2, <1>14, KeysKeepQuestion DEF BeginRename, BeginRenameAnyway
<1>15. CASE EndRename
  <2>1. ~running /\ mode' = "normal" /\ mode' = mode /\ band' = NoChat
    BY <1>15 DEF EndRename, QuestionInv
  <2>2. QED
    BY <1>2, <1>15, <2>1, EndRenameKeepsQuestion DEF EndRename
<1>16. CASE ArmDelete
  BY <1>2, <1>16, KeysKeepQuestion DEF ArmDelete
<1>17. CASE Delete
  BY <1>2, <1>17, KeysKeepQuestion DEF Delete, DeleteOther, Removed, NewChat
<1>18. QED
  BY <1>3, <1>4, <1>5, <1>6, <1>7, <1>8, <1>9, <1>10, <1>11, <1>12, <1>13,
     <1>14, <1>15, <1>16, <1>17 DEF Press

(* The reply is drained: whatever else is on display, nothing is in flight *)
(* any more.                                                               *)
LEMMA AnsweredKeepsQuestion == ASSUME QuestionInv, Answered PROVE QuestionInv'
<1>1. /\ events # << >> /\ Head(events).kind = "chat" /\ events' = Tail(events)
      /\ commands' = commands /\ outbox' = outbox
      /\ running' = FALSE /\ mode' = mode /\ band' = band /\ analyzer' = analyzer
  BY DEF Answered, Draining
<1>2. IsSeq(Tail(events)) /\ ChatsIn(events) = ChatsIn(Tail(events)) + 1
  BY <1>1, TailCount DEF QuestionInv, WireInv, One
<1>3. WireInv' /\ OnWire' + 1 = OnWire
  <2>1. /\ ChatsIn(commands) \in Nat /\ ChatsIn(outbox) \in Nat
        /\ ChatsIn(Tail(events)) \in Nat
    BY <1>2, ChatsInType DEF QuestionInv, WireInv
  <2>2. ChatsIn(events') + 1 = ChatsIn(events)
    BY <1>1, <1>2, <2>1
  <2>3. ChatsIn(events') \in Nat /\ ChatsIn(commands') = ChatsIn(commands)
        /\ ChatsIn(outbox') = ChatsIn(outbox)
    BY <1>1, <2>1
  <2>4. OnWire' + 1 = OnWire
    BY <2>1, <2>2, <2>3 DEF OnWire
  <2>5. QED
    BY <1>1, <1>2, <2>4 DEF QuestionInv, WireInv
<1>4. /\ OnWire' \in Nat /\ Busy \in {0, 1} /\ Busy' = Busy
      /\ OnWire + Busy <= 1
  BY <1>1, <1>3, OnWireType, BusyType DEF QuestionInv, Busy
<1>5. OnWire' = 0 /\ Busy' = 0
  BY <1>3, <1>4
<1>6. QED
  BY <1>1, <1>3, <1>5 DEF QuestionInv

(* The worker takes the question: the thread has it, or the reply is that  *)
(* there is no thread, or, with the last thread not joined, it is gone.    *)
LEMMA ServeChatKeepsQuestion == ASSUME QuestionInv, ServeChat PROVE QuestionInv'
<1>1. /\ commands # << >> /\ Head(commands).kind = "chat" /\ commands' = Tail(commands)
      /\ events' = events /\ outbox = << >>
      /\ UNCHANGED <<running, mode, band, row, sessions>>
  BY DEF ServeChat, Serve, screenVars, vaultVars
<1>2. IsSeq(Tail(commands)) /\ ChatsIn(commands) = ChatsIn(Tail(commands)) + 1
  BY <1>1, TailCount DEF QuestionInv, WireInv, One
<1>3. /\ ChatsIn(Tail(commands)) \in Nat /\ ChatsIn(events) \in Nat
      /\ ChatsIn(outbox) = 0 /\ ChatsIn(<< >>) = 0 /\ IsSeq(<< >>)
  BY <1>1, <1>2, ChatsInType, EmptySeqCount DEF QuestionInv, WireInv
<1>4. OnWire = ChatsIn(Tail(commands)) + 1 + ChatsIn(events)
  BY <1>2, <1>3 DEF OnWire
<1>5. /\ Busy \in {0, 1} /\ OnWire + Busy <= 1 /\ (~running => OnWire = 0)
  BY BusyType DEF QuestionInv
<1>6. ChatsIn(Tail(commands)) = 0 /\ ChatsIn(events) = 0 /\ Busy = 0 /\ running
  BY <1>3, <1>4, <1>5
<1>7. ASSUME outbox' = << >> PROVE WireInv' /\ OnWire' = 0
  BY <1>1, <1>2, <1>3, <1>6, <1>7 DEF QuestionInv, WireInv, OnWire
<1>8. ASSUME outbox' = <<Head(commands)>> PROVE WireInv' /\ OnWire' = 1
  <2>1. IsSeq(<<Head(commands)>>) /\ ChatsIn(<<Head(commands)>>) = 1
    BY <1>1, SingleCount DEF One
  <2>2. QED
    BY <1>1, <1>2, <1>6, <1>8, <2>1 DEF QuestionInv, WireInv, OnWire
<1>9. CASE outbox' = << >>
  <2> DEFINE d == Busy'
  <2>0. WireInv' /\ OnWire' = 0 /\ (d = 0 \/ d = 1)
    BY <1>7, <1>9, BusyType
  <2> HIDE DEF d
  <2>1. WireInv' /\ OnWire' + d <= 1
    BY <2>0
  <2> USE DEF d
  <2>2. QED
    BY <1>1, <1>6, <2>1 DEF QuestionInv
<1>10. CASE outbox' = <<Head(commands)>> /\ analyzer' = analyzer
  <2>1. Busy' = 0
    BY <1>6, <1>10 DEF Busy
  <2>2. QED
    BY <1>1, <1>6, <1>8, <1>10, <2>1 DEF QuestionInv
<1>11. QED
  BY <1>9, <1>10 DEF ServeChat, Serve

LEMMA ThreadKeepsQuestion ==
  ASSUME QuestionInv, CodexEnds \/ ThreadSends \/ ThreadReturns
  PROVE  QuestionInv'
<1>1. UNCHANGED <<running, mode, band, row, sessions>>
  BY DEF CodexEnds, ThreadSends, ThreadReturns, screenVars, vaultVars
<1>2. CASE CodexEnds
  <2>1. UNCHANGED <<commands, events, outbox>> /\ Busy' = 1 /\ Busy = 1
    BY <1>2 DEF CodexEnds, workerVars, Busy
  <2>2. WireInv' /\ OnWire' = OnWire
    BY <2>1 DEF QuestionInv, WireInv, OnWire
  <2>3. QED
    BY <1>1, <2>1, <2>2 DEF QuestionInv
<1>3. CASE ThreadSends
  <2> DEFINE e == [kind |-> "chat", for |-> analyzer.for]
  <2>1. /\ events' = Append(events, e) /\ commands' = commands /\ outbox' = outbox
        /\ Busy = 1 /\ Busy' = 0
    BY <1>3 DEF ThreadSends, Busy
  <2>2. /\ IsSeq(Append(events, e)) /\ ChatsIn(Append(events, e)) = ChatsIn(events) + 1
        /\ ChatsIn(events) \in Nat /\ ChatsIn(commands) \in Nat /\ ChatsIn(outbox) \in Nat
    BY AppendCount, ChatsInType DEF QuestionInv, WireInv, One
  <2>3. ChatsIn(events') = ChatsIn(events) + 1
    BY <2>1, <2>2
  <2>4. OnWire' = OnWire + 1
    BY <2>1, <2>2, <2>3 DEF OnWire
  <2>5. WireInv'
    BY <2>1, <2>2 DEF QuestionInv, WireInv
  <2>6. OnWire \in Nat
    BY OnWireType DEF QuestionInv
  <2>7. OnWire' + Busy' = OnWire + Busy
    BY <2>1, <2>4, <2>6
  <2>8. running /\ OnWire + Busy <= 1
    BY <2>1 DEF QuestionInv
  <2>9. OnWire' + Busy' <= 1
    BY <2>7, <2>8
  <2>10. QED
    BY <1>1, <2>5, <2>8, <2>9 DEF QuestionInv
<1>4. CASE ThreadReturns
  <2>1. UNCHANGED <<commands, events, outbox>> /\ Busy' = 0 /\ Busy = 0
    BY <1>4 DEF ThreadReturns, workerVars, Busy
  <2>2. WireInv' /\ OnWire' = OnWire
    BY <2>1 DEF QuestionInv, WireInv, OnWire
  <2>3. QED
    BY <1>1, <2>1, <2>2 DEF QuestionInv
<1>5. QED
  BY <1>2, <1>3, <1>4

LEMMA NextQuestionInv == QuestionInv /\ [DashboardNext]_vars => QuestionInv'
<1> SUFFICES ASSUME QuestionInv, [DashboardNext]_vars PROVE QuestionInv'
  OBVIOUS
<1>1. WireInv /\ OnWire \in Nat
  BY OnWireType DEF QuestionInv
<1>2. ASSUME UNCHANGED chatVars, WireInv', OnWire' <= OnWire PROVE QuestionInv'
  <2>1. UNCHANGED <<running, mode, band, row, sessions>> /\ Busy' = Busy
    BY <1>2 DEF chatVars, vaultVars, Busy
  <2>2. QED
    BY <1>2, <2>1, BusyType, QuietKeepsQuestion
<1>3. ASSUME UNCHANGED chatVars, Quiet PROVE QuestionInv'
  BY <1>1, <1>2, <1>3, QuietKeepsWire
<1>4. CASE Chat
  <2>1. CASE ServeCancel
    <3>1. Quiet /\ UNCHANGED chatVars
      BY <2>1, ServeMoves DEF ServeCancel, Carries
    <3>2. QED
      BY <1>3, <3>1
  <2>2. QED
    BY <1>4, <2>1, PressKeepsQuestion, AnsweredKeepsQuestion, ServeChatKeepsQuestion,
       ThreadKeepsQuestion DEF Chat
<1>5. CASE (Launches \/ Live) /\ UNCHANGED chatVars
  BY <1>3, <1>5, LaunchesQuiet, LiveQuiet
<1>6. CASE DrainShown /\ UNCHANGED chatVars
  <2>1. Quiet
    BY <1>6, DrainingMoves DEF DrainShown, Quiet, Moves
  <2>2. QED
    BY <1>3, <1>6, <2>1
<1>7. CASE Reap
  <2>1. UNCHANGED <<commands, events, outbox, running, mode, band, row, sessions>>
    BY <1>7 DEF Reap, GoRound, screenVars, vaultVars
  <2>2. WireInv' /\ OnWire' <= OnWire
    BY <1>1, <2>1, QuietKeepsWire DEF Quiet, Moves
  <2>3. Busy' <= Busy
    BY <1>7 DEF Reap, Busy, Idle
  <2>4. QED
    BY <2>1, <2>2, <2>3, QuietKeepsQuestion
<1>8. CASE (Flush \/ Refreshed \/ Tick(FALSE) \/ Snapshot) /\ UNCHANGED chatVars
  <2>1. CASE Flush
    BY <1>1, <1>2, <1>8, <2>1, FlushKeepsWire
  <2>2. CASE Refreshed
    <3>1. Quiet
      BY <2>2, ServeMoves DEF Refreshed, ServePage, Carries
    <3>2. QED
      BY <1>3, <1>8, <3>1
  <2>3. CASE Tick(FALSE) \/ Snapshot
    <3>1. Quiet
      BY <2>3 DEF Snapshot, Tick, Shown, Quiet, Moves, Carries
    <3>2. QED
      BY <1>3, <1>8, <3>1
  <2>4. QED
    BY <1>8, <2>1, <2>2, <2>3
<1>9. CASE UNCHANGED pageVars
  BY <1>3, <1>9 DEF pageVars, workerVars, Quiet, Moves
<1>10. QED
  BY <1>4, <1>5, <1>6, <1>7, <1>8, <1>9, PageCases

LEMMA QuestionInvariant == DashboardSpec => []QuestionInv
BY InitQuestionInv, NextQuestionInv, PTL DEF DashboardSpec

(* There is never a second question in flight, and the page knows of the   *)
(* one there is.                                                           *)
THEOREM OneQuestion == DashboardSpec => []OneQuestionInFlight
<1>1. QuestionInv => OneQuestionInFlight
  <2> SUFFICES ASSUME QuestionInv PROVE OneQuestionInFlight
    OBVIOUS
  <2>1. /\ ChatsIn(commands) \in Nat /\ ChatsIn(outbox) \in Nat /\ ChatsIn(events) \in Nat
        /\ Busy \in {0, 1}
    BY ChatsInType, BusyType DEF QuestionInv, WireInv
  <2>2. InFlight = OnWire + Busy
    BY <2>1 DEF InFlight, OnWire, ChatsIn, Of, Busy
  <2>3. QED
    BY <2>2 DEF QuestionInv, OneQuestionInFlight
<1>2. QED
  BY <1>1, QuestionInvariant, PTL

(* The rename band renames the chat it was opened for.                     *)
THEOREM RenameAims == DashboardSpec => []RenameAimsAtItsChat
<1>1. QuestionInv => RenameAimsAtItsChat
  BY DEF QuestionInv, RenameAimsAtItsChat
<1>2. QED
  BY <1>1, QuestionInvariant, PTL

-----------------------------------------------------------------------------
(* The launches page. A groups reply carries a list of groups, and the     *)
(* pane's cursor, the group it waits for and the rows it shows agree.      *)

Listing(x) == x.kind = "groups" => x.list \in Seq(Groups)
Listed(q) == IsSeq(q) /\ \A i \in DOMAIN q : Listing(q[i])

LEMMA ListedAppend ==
  ASSUME NEW q, Listed(q), NEW x, Listing(x)
  PROVE  Listed(Append(q, x))
<1>1. PICK S : q \in Seq(S)
  BY DEF Listed, IsSeq
<1>2. q \in Seq(S \cup {x}) /\ Len(q) \in Nat
  BY <1>1, SeqMonotonic
<1>3. /\ Append(q, x) \in Seq(S \cup {x})
      /\ DOMAIN Append(q, x) = 1..(Len(q) + 1) /\ Append(q, x)[Len(q) + 1] = x
      /\ \A i \in 1..Len(q) : Append(q, x)[i] = q[i]
      /\ DOMAIN q = 1..Len(q)
  BY <1>2
<1>4. \A i \in DOMAIN Append(q, x) : Listing(Append(q, x)[i])
  BY <1>2, <1>3 DEF Listed
<1>5. QED
  BY <1>3, <1>4 DEF Listed, IsSeq

LEMMA ListedTail ==
  ASSUME NEW q, Listed(q), q # << >>
  PROVE  Listed(Tail(q)) /\ Listing(Head(q))
<1>1. PICK S : q \in Seq(S)
  BY DEF Listed, IsSeq
<1>2. /\ Tail(q) \in Seq(S) /\ Len(q) \in Nat \ {0} /\ DOMAIN q = 1..Len(q)
      /\ DOMAIN Tail(q) = 1..(Len(q) - 1)
      /\ \A i \in 1..(Len(q) - 1) : Tail(q)[i] = q[i + 1]
      /\ Head(q) = q[1]
  BY <1>1
<1>3. \A i \in DOMAIN Tail(q) : Listing(Tail(q)[i])
  BY <1>2 DEF Listed
<1>4. QED
  BY <1>2, <1>3 DEF Listed, IsSeq

LEMMA ListedFew ==
  /\ Listed(<< >>)
  /\ \A x : Listing(x) => Listed(<<x>>)
<1>1. Listed(<< >>)
  BY EmptySeqCount DEF Listed
<1>2. ASSUME NEW x, Listing(x) PROVE Listed(<<x>>)
  <2>1. <<x>> = Append(<< >>, x)
    OBVIOUS
  <2>2. Listed(Append(<< >>, x))
    BY <1>1, <1>2, ListedAppend
  <2>3. QED
    BY <2>1, <2>2
<1>3. QED
  BY <1>1, <1>2

Replies == Listed(outbox) /\ Listed(events)

LEMMA ServeKeepsReplies ==
  ASSUME Replies, NEW kind, NEW replies, Serve(kind, replies), \A r \in replies : Listed(r)
  PROVE  Replies'
BY DEF Serve, Replies

LEMMA DrainingKeepsReplies ==
  ASSUME Replies, NEW kind, Draining(kind)
  PROVE  Replies'
BY ListedTail DEF Draining, Replies

(* A reply of another kind.                                                *)
LEMMA OtherReplies ==
  ASSUME NEW x, x.kind # "groups"
  PROVE  Listing(x) /\ Listed(<<x>>)
BY ListedFew DEF Listing

LEMMA RankingsAreLists ==
  ASSUME NEW console, NEW l \in Rankings(console)
  PROVE  l \in Seq(Groups)
<1>1. PICK s \in SUBSET (IF console THEN Consoles ELSE Groups) : l \in SetToSeqs(s)
  BY DEF Rankings
<1>2. s \subseteq Groups /\ IsFiniteSet(s)
  BY <1>1, LaunchConstants, FS_Subset
<1>3. Cardinality(s) \in Nat
  BY <1>2, FS_CardinalityType
<1>4. l \in [1..Cardinality(s) -> s]
  BY <1>1 DEF SetToSeqs
<1>5. l \in [1..Cardinality(s) -> Groups]
  BY <1>2, <1>4
<1>6. QED
  BY <1>3, <1>5

LEMMA NextReplies == Replies /\ [DashboardNext]_vars => Replies'
<1> SUFFICES ASSUME Replies, [DashboardNext]_vars PROVE Replies'
  OBVIOUS
<1>1. CASE UNCHANGED <<events, outbox>>
  BY <1>1 DEF Replies
<1>2. CASE Chat
  <2>1. CASE Press
    BY <1>1, <2>1
       DEF Press, Handling, Normal, OnPage, SelectPage, BeginChat, FocusVault, MoveRow,
           EnterRow, ClickRow, OpenInput, CloseInput, Submit, Investigate, InvestigateAnyway,
           Cancel, BeginRename, BeginRenameAnyway, EndRename, ArmDelete, Delete, DeleteOther,
           Removed
  <2>2. CASE Answered
    BY <2>2, DrainingKeepsReplies DEF Answered
  <2>3. CASE ServeChat
    <3>1. CASE Serve("chat", {<< >>})
      BY <3>1, ListedFew, ServeKeepsReplies
    <3>2. CASE Serve("chat", {<<Head(commands)>>})
      <4>1. Head(commands).kind # "groups"
        BY <3>2 DEF Serve
      <4>2. QED
        BY <3>2, <4>1, OtherReplies, ServeKeepsReplies
    <3>3. QED
      BY <2>3, <3>1, <3>2 DEF ServeChat
  <2>4. CASE ServeCancel
    BY <2>4, ListedFew, ServeKeepsReplies DEF ServeCancel
  <2>5. CASE ThreadSends
    <3>1. [kind |-> "chat", for |-> analyzer.for].kind # "groups"
      OBVIOUS
    <3>2. Listed(Append(events, [kind |-> "chat", for |-> analyzer.for]))
      BY <3>1, OtherReplies, ListedAppend DEF Replies
    <3>3. QED
      BY <2>5, <3>2 DEF ThreadSends, Replies
  <2>6. CASE CodexEnds \/ ThreadReturns
    BY <1>1, <2>6 DEF CodexEnds, ThreadReturns, workerVars
  <2>7. QED
    BY <1>2, <2>1, <2>2, <2>3, <2>4, <2>5, <2>6 DEF Chat
<1>3. CASE Launches
  <2>1. CASE MoveGroup \/ ClickGroup \/ RefreshGroups \/ ToggleFilter \/ Fetch
    BY <1>1, <2>1 DEF MoveGroup, ClickGroup, RefreshGroups, ToggleFilter, Fetch, Handling
  <2>2. CASE GroupsArrived \/ GroupsFailed \/ OccurrencesArrived
    BY <2>2, DrainingKeepsReplies DEF GroupsArrived, GroupsFailed, OccurrencesArrived
  <2>3. CASE ServeGroups
    <3> DEFINE replies == {<<[kind |-> "groups", ok |-> TRUE, list |-> l]>>
                             : l \in Rankings(Head(commands).console)}
                          \cup {<<[kind |-> "groups", ok |-> FALSE, list |-> << >>]>>}
    <3>1. \A l \in Rankings(Head(commands).console) :
            Listing([kind |-> "groups", ok |-> TRUE, list |-> l])
      BY RankingsAreLists DEF Listing
    <3>2. Listing([kind |-> "groups", ok |-> FALSE, list |-> << >>])
      BY DEF Listing
    <3>3. \A r \in replies : Listed(r)
      BY <3>1, <3>2, ListedFew
    <3>4. Serve("groups", replies)
      BY <2>3 DEF ServeGroups
    <3> HIDE DEF replies
    <3>5. QED
      BY <3>3, <3>4, ServeKeepsReplies
  <2>4. CASE ServeOccurrences
    BY <2>4, OtherReplies, ServeKeepsReplies DEF ServeOccurrences
  <2>5. QED
    BY <1>3, <2>1, <2>2, <2>3, <2>4 DEF Launches, Browse
<1>4. CASE Live
  <2>1. CASE ChangeRate
    BY <1>1, <2>1 DEF ChangeRate, Handling
  <2>2. CASE LiveArrived \/ LiveRefused
    BY <2>2, DrainingKeepsReplies DEF LiveArrived, LiveRefused
  <2>3. CASE ServeLive
    BY <2>3, ListedFew, ServeKeepsReplies DEF ServeLive
  <2>4. CASE Poll \/ PollLatches \/ GrowsIdle \/ OtherAsks \/ \E g \in 1..MaxLoops : LoopStep(g)
    BY <1>1, <2>4 DEF Poll, PollLatches, GrowsIdle, OtherAsks, LoopStep, workerVars
  <2>5. CASE PollReturns \/ PollFails
    <3>1. \A b, g : [kind |-> "live", ok |-> b, loop |-> g].kind # "groups"
      OBVIOUS
    <3>2. \A b, g : Listed(<<[kind |-> "live", ok |-> b, loop |-> g]>>)
      BY <3>1, OtherReplies
    <3>3. QED
      BY <2>5, <3>2, ListedFew DEF PollReturns, PollFails, Replies
  <2>6. QED
    BY <1>4, <2>1, <2>2, <2>3, <2>4, <2>5 DEF Live
<1>5. CASE DrainShown
  BY <1>5, DrainingKeepsReplies DEF DrainShown
<1>6. CASE Reap \/ Tick(FALSE)
  BY <1>6, ListedFew DEF Reap, GoRound, Tick, Replies
<1>7. CASE Snapshot
  BY <1>7, OtherReplies DEF Snapshot, Tick, Shown, Replies
<1>8. CASE Refreshed
  BY <1>8, ListedFew, ServeKeepsReplies DEF Refreshed, ServePage
<1>9. CASE Flush
  BY <1>9, ListedTail, ListedAppend DEF Flush, Replies
<1>10. QED
  BY <1>1, <1>2, <1>3, <1>4, <1>5, <1>6, <1>7, <1>8, <1>9, PageCases DEF pageVars, workerVars

PaneInv ==
  /\ groups \in Seq(Groups) /\ selected \in Nat
  /\ groups # << >> => selected \in 1..Len(groups)
  /\ wanted = SelectedIn(groups, selected)
  /\ rows \in {NoGroup, wanted} /\ key \in {NoGroup, wanted}

LEMMA ClampedInside ==
  ASSUME NEW list \in Seq(Groups), NEW i \in Nat
  PROVE  /\ Clamped(list, i) \in Nat
         /\ list # << >> => Clamped(list, i) \in 1..Len(list)
         /\ i \in 1..Len(list) => Clamped(list, i) = i
BY DEF Clamped

LEMMA SyncKeepsPane ==
  ASSUME PaneInv, groups' \in Seq(Groups), selected' \in Nat,
         groups' # << >> => selected' \in 1..Len(groups'), NEW now, Sync(now)
  PROVE  PaneInv'
<1>1. SyncTo(SelectedIn(groups', selected'), now)
  BY DEF Sync
<1>2. /\ wanted' = SelectedIn(groups', selected')
      /\ rows' \in {NoGroup, wanted'} /\ key' \in {NoGroup, wanted'}
  BY <1>1 DEF SyncTo, Request, PaneInv
<1>3. QED
  BY <1>2 DEF PaneInv

LEMMA NextPaneInv == Replies /\ PaneInv /\ [DashboardNext]_vars => PaneInv'
<1> SUFFICES ASSUME Replies, PaneInv, [DashboardNext]_vars PROVE PaneInv'
  OBVIOUS
<1>1. CASE UNCHANGED launchVars
  BY <1>1 DEF launchVars, PaneInv
<1>2. CASE Launches
  <2>1. CASE MoveGroup
    <3>1. PICK i \in Nat : selected' = Clamped(groups, i)
      BY <2>1 DEF MoveGroup
    <3>2. QED
      BY <2>1, <3>1, ClampedInside, SyncKeepsPane DEF MoveGroup, PaneInv
  <2>2. CASE ClickGroup
    <3>1. groups' = groups /\ selected' \in DOMAIN groups /\ Sync(TRUE)
      BY <2>2 DEF ClickGroup
    <3>2. groups \in Seq(Groups) /\ selected' \in 1..Len(groups) /\ selected' \in Nat
      BY <3>1 DEF PaneInv
    <3>3. groups' \in Seq(Groups) /\ selected' \in 1..Len(groups')
      BY <3>1, <3>2
    <3>4. QED
      BY <3>1, <3>2, <3>3, SyncKeepsPane
  <2>3. CASE RefreshGroups \/ ServeGroups \/ ServeOccurrences
    BY <1>1, <2>3 DEF RefreshGroups, ServeGroups, ServeOccurrences
  <2>4. CASE ToggleFilter
    BY <2>4 DEF ToggleFilter, PaneInv, SelectedIn
  <2>5. CASE Fetch
    BY <2>5 DEF Fetch, Request, PaneInv
  <2>6. CASE GroupsArrived
    <3>1. groups' \in Seq(Groups)
      BY <2>6, ListedTail DEF GroupsArrived, Draining, Replies, Listing
    <3>2. selected' \in Nat /\ (groups' # << >> => selected' \in 1..Len(groups'))
      BY <2>6, <3>1, ClampedInside DEF GroupsArrived, PaneInv
    <3>3. QED
      BY <2>6, <3>1, <3>2, SyncKeepsPane DEF GroupsArrived
  <2>7. CASE GroupsFailed
    BY <2>7 DEF GroupsFailed, PaneInv, SelectedIn
  <2>8. CASE OccurrencesArrived
    BY <2>8 DEF OccurrencesArrived, ShowOccurrences, PaneInv, launchVars
  <2>9. QED
    BY <1>2, <2>1, <2>2, <2>3, <2>4, <2>5, <2>6, <2>7, <2>8 DEF Launches, Browse
<1>3. CASE DrainShown
  <2>1. /\ groups' = groups /\ wanted' = wanted /\ key' = key /\ rows' = rows
        /\ selected' = Clamped(groups, selected)
    BY <1>3 DEF DrainShown, ClampGroups
  <2>2. CASE groups = << >>
    BY <2>1, <2>2 DEF Clamped, PaneInv, SelectedIn
  <2>3. CASE groups # << >>
    <3>1. selected' = selected
      BY <2>1, <2>3, ClampedInside DEF PaneInv
    <3>2. QED
      BY <2>1, <3>1 DEF PaneInv
  <2>4. QED
    BY <2>2, <2>3
<1>4. QED
  BY <1>1, <1>2, <1>3, PageCases DEF pageVars

LEMMA InitPane == DashboardInit => Replies /\ PaneInv
<1> SUFFICES ASSUME DashboardInit PROVE Replies /\ PaneInv
  OBVIOUS
<1>1. Replies
  BY ListedFew DEF DashboardInit, WorkerInit, Replies
<1>2. PaneInv
  BY DEF DashboardInit, LaunchInit, PaneInv, SelectedIn
<1>3. QED
  BY <1>1, <1>2

(* The drill-down shows the occurrences of the row under the cursor, or    *)
(* none, over re-rankings, filters and replies for a group that was left.  *)
THEOREM OccurrencesSelected == DashboardSpec => []OccurrencesAreSelected
<1>1. PaneInv => OccurrencesAreSelected
  BY DEF PaneInv, OccurrencesAreSelected
<1>2. QED
  BY <1>1, InitPane, NextReplies, NextPaneInv, PTL DEF DashboardSpec

-----------------------------------------------------------------------------
(* The pane never just waits. A message that names a group stays on its    *)
(* channel until it is taken, and none is ever about no group.             *)

Names(x, g) == x.kind = "occurrences" /\ x.of = g
Named(q, g) == \E i \in DOMAIN q : Names(q[i], g)

LEMMA NamedAppend ==
  ASSUME NEW q, IsSeq(q), NEW x, NEW g
  PROVE  Named(Append(q, x), g) <=> Named(q, g) \/ Names(x, g)
<1>1. PICK S : q \in Seq(S)
  BY DEF IsSeq
<1>2. q \in Seq(S \cup {x}) /\ Len(q) \in Nat
  BY <1>1, SeqMonotonic
<1>3. /\ DOMAIN Append(q, x) = 1..(Len(q) + 1) /\ Append(q, x)[Len(q) + 1] = x
      /\ \A i \in 1..Len(q) : Append(q, x)[i] = q[i]
      /\ DOMAIN q = 1..Len(q)
  BY <1>2
<1>4. 1..(Len(q) + 1) = 1..Len(q) \cup {Len(q) + 1}
  BY <1>2
<1>5. QED
  BY <1>3, <1>4 DEF Named

LEMMA NamedTail ==
  ASSUME NEW q, IsSeq(q), q # << >>, NEW g
  PROVE  Named(q, g) <=> Named(Tail(q), g) \/ Names(Head(q), g)
<1>1. PICK S : q \in Seq(S)
  BY DEF IsSeq
<1>2. /\ Len(q) \in Nat \ {0} /\ DOMAIN q = 1..Len(q)
      /\ DOMAIN Tail(q) = 1..(Len(q) - 1)
      /\ \A i \in 1..(Len(q) - 1) : Tail(q)[i] = q[i + 1]
      /\ Head(q) = q[1]
  BY <1>1
<1>3. \A i \in 1..Len(q) : i = 1 \/ (i - 1 \in 1..(Len(q) - 1) /\ i = (i - 1) + 1)
  BY <1>2
<1>4. \A i \in 1..(Len(q) - 1) : i + 1 \in 1..Len(q)
  BY <1>2
<1>5. 1 \in 1..Len(q)
  BY <1>2
<1>6. QED
  BY <1>2, <1>3, <1>4, <1>5 DEF Named

LEMMA NamedFew ==
  ASSUME NEW g
  PROVE  ~Named(<< >>, g) /\ \A x : Named(<<x>>, g) <=> Names(x, g)
BY DEF Named

(* What names group g on the three channels.                               *)
OnItsWay(g) == Named(commands, g) \/ Named(outbox, g) \/ Named(events, g)

LEMMA UnderwayIs == \A g : (Underway(g) <=> OnItsWay(g)) /\ (Underway(g)' <=> OnItsWay(g)')
BY DEF Underway, OnItsWay, Named, Names

(* The other pages leave the pane as it is when the dashboard starts.      *)
AttendInv ==
  /\ SelectionIsAttended
  /\ scope # "launches" => wanted = NoGroup
  /\ scope = "launches" => ~OnItsWay(NoGroup)

(* A request for a group puts it on its way, or arms the deadline.         *)
LEMMA RequestAttends ==
  ASSUME WireInv, NEW w, w # NoGroup, Request(w)
  PROVE  /\ due' \/ (key' = w /\ Named(commands', w))
         /\ \A g : Named(commands, g) => Named(commands', g)
         /\ Named(commands', NoGroup) => Named(commands, NoGroup)
<1> DEFINE x == [kind |-> "occurrences", of |-> w]
<1>1. Names(x, w) /\ ~Names(x, NoGroup)
  BY DEF Names
<1>2. CASE Room
  <2>1. key' = w /\ commands' = Append(commands, x)
    BY <1>2 DEF Request, TrySend
  <2> HIDE DEF x
  <2>2. QED
    BY <1>1, <2>1, NamedAppend DEF WireInv
<1>3. CASE ~Room
  BY <1>3 DEF Request, TrySend
<1>4. QED
  BY <1>2, <1>3

(* What a step leaves of the messages about a group: all there were, and   *)
(* none about no group that was not there.                                 *)
Carried ==
  /\ \A g : OnItsWay(g) => OnItsWay(g)'
  /\ OnItsWay(NoGroup)' => OnItsWay(NoGroup)

LEMMA TakenCarries ==
  ASSUME WireInv, NEW kind, kind # "occurrences", Draining(kind),
         \A g : Named(commands, g) => Named(commands', g),
         Named(commands', NoGroup) => Named(commands, NoGroup)
  PROVE  Carried
<1>1. events # << >> /\ Head(events).kind # "occurrences" /\ events' = Tail(events)
      /\ outbox' = outbox
  BY DEF Draining
<1>2. \A g : Named(events, g) <=> Named(events', g)
  BY <1>1, NamedTail DEF WireInv, Names
<1>3. QED
  BY <1>1, <1>2 DEF Carried, OnItsWay

LEMMA SyncAttends ==
  ASSUME WireInv, PaneInv, SelectionIsAttended, NEW w, NEW now, SyncTo(w, now),
         (\A g : Named(commands, g) => Named(commands', g))
         /\ (Named(commands', NoGroup) => Named(commands, NoGroup)) => Carried
  PROVE  SelectionIsAttended' /\ Carried
<1>1. wanted' = w
  BY DEF SyncTo
<1> DEFINE moved == w # wanted
           asked == IF moved THEN NoGroup ELSE key
<1>2. CASE w \notin {NoGroup, asked} /\ now /\ Request(w)
  <2>1. /\ due' \/ (key' = w /\ Named(commands', w))
        /\ Carried
    BY <1>2, RequestAttends
  <2>2. QED
    BY <1>1, <2>1, UnderwayIs DEF SelectionIsAttended, OnItsWay
<1>3. CASE w \notin {NoGroup, asked} /\ ~now /\ due' = TRUE /\ UNCHANGED commands
  BY <1>1, <1>3 DEF SelectionIsAttended
<1>4. CASE w \in {NoGroup, asked} /\ key' = asked /\ due' = (~moved /\ due)
           /\ UNCHANGED commands
  <2>1. Carried
    BY <1>4
  <2>2. CASE w = NoGroup
    BY <1>1, <2>1, <2>2 DEF SelectionIsAttended
  <2>3. CASE w # NoGroup
    <3>1. w = wanted /\ key' = key /\ (due' <=> due)
      BY <1>4, <2>3
    <3>2. rows' = rows /\ (failed' <=> failed)
      BY <3>1, <1>4 DEF SyncTo, SelectionIsAttended, PaneInv
    <3>3. QED
      BY <1>1, <2>1, <3>1, <3>2, UnderwayIs DEF SelectionIsAttended, Carried
  <2>4. QED
    BY <2>1, <2>2, <2>3
<1>5. QED
  BY <1>2, <1>3, <1>4 DEF SyncTo

LEMMA LaunchesAttend ==
  ASSUME WireInv, PaneInv, SelectionIsAttended, ~OnItsWay(NoGroup), Launches
  PROVE  SelectionIsAttended' /\ ~OnItsWay(NoGroup)'
<1>1. ASSUME Handling,
             \A g : Named(commands, g) => Named(commands', g),
             Named(commands', NoGroup) => Named(commands, NoGroup)
      PROVE  Carried
  BY <1>1 DEF Handling, Carried, OnItsWay
<1>2. ASSUME UNCHANGED launchVars, Carried
      PROVE  SelectionIsAttended' /\ ~OnItsWay(NoGroup)'
  BY <1>2, UnderwayIs DEF launchVars, Carried, SelectionIsAttended
<1>3. CASE MoveGroup \/ ClickGroup
  <2>1. PICK w, now : SyncTo(w, now) /\ Handling
    BY <1>3 DEF MoveGroup, ClickGroup, Sync
  <2>2. SelectionIsAttended' /\ Carried
    BY <1>1, <2>1, SyncAttends
  <2>3. QED
    BY <2>2 DEF Carried
<1>4. CASE RefreshGroups \/ ToggleFilter
  <2>1. PICK b : TrySend([kind |-> "groups", console |-> b])
    BY <1>4 DEF RefreshGroups, ToggleFilter
  <2> DEFINE x == [kind |-> "groups", console |-> b]
  <2>2. \A g : ~Names(x, g)
    BY DEF Names
  <2> HIDE DEF x
  <2>3. \A g : Named(commands', g) <=> Named(commands, g)
    BY <2>1, <2>2, NamedAppend DEF WireInv, TrySend, x
  <2>4. Carried
    BY <1>1, <1>4, <2>3 DEF RefreshGroups, ToggleFilter
  <2>5. CASE RefreshGroups
    BY <1>2, <2>4, <2>5 DEF RefreshGroups
  <2>6. CASE ToggleFilter
    BY <2>4, <2>6 DEF ToggleFilter, SelectionIsAttended, Carried
  <2>7. QED
    BY <1>4, <2>5, <2>6
<1>5. CASE Fetch
  <2>1. CASE wanted # NoGroup /\ Request(wanted)
    <3>1. /\ due' \/ (key' = wanted /\ Named(commands', wanted))
          /\ Carried
      BY <1>1, <1>5, <2>1, RequestAttends DEF Fetch
    <3>2. QED
      BY <1>5, <3>1, UnderwayIs DEF Fetch, SelectionIsAttended, Carried, OnItsWay
  <2>2. CASE wanted = NoGroup /\ UNCHANGED commands
    BY <1>1, <1>5, <2>2 DEF Fetch, SelectionIsAttended, Carried
  <2>3. QED
    BY <1>5, <2>1, <2>2 DEF Fetch
<1>6. CASE GroupsArrived
  <2>1. SyncTo(SelectedIn(groups', selected'), TRUE) /\ Draining("groups")
    BY <1>6 DEF GroupsArrived, Sync
  <2>2. SelectionIsAttended' /\ Carried
    BY <2>1, SyncAttends, TakenCarries
  <2>3. QED
    BY <2>2 DEF Carried
<1>7. CASE GroupsFailed
  <2>1. Carried
    BY <1>7, TakenCarries DEF GroupsFailed
  <2>2. QED
    BY <1>7, <2>1 DEF GroupsFailed, SelectionIsAttended, Carried
(* The reply that was waited for shows, or fails; any other leaves the one *)
(* that is waited for where it is.                                         *)
<1>8. CASE OccurrencesArrived
  <2>1. /\ events # << >> /\ Head(events).kind = "occurrences" /\ events' = Tail(events)
        /\ outbox' = outbox /\ commands' = commands
    BY <1>8 DEF OccurrencesArrived, Draining, ShowOccurrences
  <2>2. \A g : Named(events, g) <=> Named(events', g) \/ Head(events).of = g
    BY <2>1, NamedTail DEF WireInv, Names
  <2>3. Head(events).of # NoGroup /\ ~OnItsWay(NoGroup)'
    BY <2>1, <2>2 DEF OnItsWay
  <2>4. CASE key = Head(events).of
    <3>1. key = wanted /\ wanted' = wanted /\ (rows' = wanted \/ failed')
      BY <1>8, <2>3, <2>4 DEF OccurrencesArrived, ShowOccurrences, PaneInv
    <3>2. QED
      BY <2>3, <3>1 DEF SelectionIsAttended
  <2>5. CASE key # Head(events).of
    <3>1. UNCHANGED launchVars
      BY <1>8, <2>5 DEF OccurrencesArrived
    <3>2. key = wanted => (OnItsWay(wanted) => OnItsWay(wanted)')
      BY <2>1, <2>2, <2>5, <3>1 DEF OnItsWay, launchVars
    <3>3. QED
      BY <2>3, <3>1, <3>2, UnderwayIs DEF SelectionIsAttended, launchVars
  <2>6. QED
    BY <2>4, <2>5
<1>9. CASE ServeGroups \/ ServeOccurrences
  <2>1. /\ commands # << >> /\ commands' = Tail(commands)
        /\ outbox = << >> /\ events' = events
    BY <1>9 DEF ServeGroups, ServeOccurrences, Serve
  <2>2. \A g : Named(commands, g) <=> Named(commands', g) \/ Names(Head(commands), g)
    BY <2>1, NamedTail DEF WireInv
  <2>3. \A g : Names(Head(commands), g) <=> Named(outbox', g)
    <3>1. CASE ServeGroups
      <4>1. PICK x : outbox' = <<x>> /\ x.kind = "groups"
        BY <3>1 DEF ServeGroups, Serve
      <4>2. \A g : ~Names(Head(commands), g) /\ ~Names(x, g)
        BY <3>1, <4>1 DEF ServeGroups, Serve, Names
      <4>3. QED
        BY <4>1, <4>2, NamedFew
    <3>2. CASE ServeOccurrences
      <4>1. PICK x : outbox' = <<x>> /\ x.kind = "occurrences" /\ x.of = Head(commands).of
        BY <3>2 DEF ServeOccurrences, Serve
      <4>2. \A g : Names(Head(commands), g) <=> Names(x, g)
        BY <3>2, <4>1 DEF ServeOccurrences, Serve, Names
      <4>3. QED
        BY <4>1, <4>2, NamedFew
    <3>3. QED
      BY <1>9, <3>1, <3>2
  <2>4. Carried
    BY <2>1, <2>2, <2>3, NamedFew DEF Carried, OnItsWay
  <2>5. QED
    BY <1>2, <1>9, <2>4 DEF ServeGroups, ServeOccurrences
<1>10. QED
  BY <1>3, <1>4, <1>5, <1>6, <1>7, <1>8, <1>9 DEF Launches, Browse

LEMMA NextAttendInv ==
  ASSUME WireInv, PaneInv, AttendInv, [DashboardNext]_vars
  PROVE  AttendInv'
<1>1. CASE scope # "launches"
  <2>1. wanted = NoGroup /\ scope' = scope
    BY <1>1 DEF AttendInv, DashboardNext, OnlyChat, OnlyLaunch, OnlyLive, OnlyClip, DrainShown,
                NoPage, Worker, vars, pageVars
  <2>2. wanted' = wanted
    BY <1>1, PageCases DEF DashboardNext, OnlyChat, OnlyLaunch, OnlyLive, OnlyClip, DrainShown,
                ClampGroups, Worker, vars, pageVars, launchVars
  <2>3. QED
    BY <1>1, <2>1, <2>2 DEF AttendInv, SelectionIsAttended
<1>2. CASE scope = "launches"
  <2>1. scope' = scope
    BY DEF DashboardNext, OnlyChat, OnlyLaunch, OnlyLive, OnlyClip, DrainShown,
           NoPage, Worker, vars, pageVars
  <2>2. SelectionIsAttended /\ ~OnItsWay(NoGroup)
    BY <1>2 DEF AttendInv
  <2>3. ASSUME Carried, UNCHANGED <<wanted, key, due, rows, failed>>
        PROVE  SelectionIsAttended' /\ ~OnItsWay(NoGroup)'
    BY <2>2, <2>3, UnderwayIs DEF Carried, SelectionIsAttended
  <2> SUFFICES SelectionIsAttended' /\ ~OnItsWay(NoGroup)'
    BY <1>2, <2>1 DEF AttendInv
  <2>4. CASE Launches
    BY <2>2, <2>4, LaunchesAttend
  <2>5. CASE DrainShown
    <3>1. Carried /\ UNCHANGED <<wanted, key, due, rows, failed>>
      BY <2>5, TakenCarries DEF DrainShown, ClampGroups
    <3>2. QED
      BY <2>3, <3>1
  <2>6. CASE Worker
    <3>1. UNCHANGED <<wanted, key, due, rows, failed>>
      BY <2>6 DEF Worker, launchVars
    <3>2. CASE Flush
      <4>1. /\ outbox # << >> /\ commands' = commands /\ outbox' = Tail(outbox)
            /\ events' = Append(events, Head(outbox))
        BY <3>2 DEF Flush
      <4>2. \A g : /\ Named(outbox, g) <=> Named(outbox', g) \/ Names(Head(outbox), g)
                   /\ Named(events', g) <=> Named(events, g) \/ Names(Head(outbox), g)
        BY <4>1, NamedTail, NamedAppend DEF WireInv
      <4>3. Carried
        BY <4>1, <4>2 DEF Carried, OnItsWay
      <4>4. QED
        BY <2>3, <3>1, <4>3
    <3>3. CASE Reap \/ Tick(FALSE) \/ Snapshot
      <4>1. /\ commands' = commands /\ events' = events /\ outbox = << >>
            /\ outbox' = << >> \/ outbox' = <<Shown>>
        BY <3>3 DEF Reap, GoRound, Tick, Snapshot
      <4>2. \A g : ~Names(Shown, g)
        BY DEF Names, Shown
      <4>3. Carried
        BY <4>1, <4>2, NamedFew DEF Carried, OnItsWay
      <4>4. QED
        BY <2>3, <3>1, <4>3
    <3>4. ~Refreshed
      BY <1>2 DEF Refreshed
    <3>5. QED
      BY <2>6, <3>2, <3>3, <3>4 DEF Worker
  <2>7. CASE UNCHANGED pageVars
    BY <2>3, <2>7 DEF pageVars, workerVars, launchVars, Carried, OnItsWay
  <2>8. QED
    BY <1>2, <2>4, <2>5, <2>6, <2>7
       DEF DashboardNext, OnlyChat, OnlyLaunch, OnlyLive, OnlyClip, vars
<1>3. QED
  BY <1>1, <1>2

(* A launch group that is selected is never left waiting for nothing: its  *)
(* rows are there, have failed, are due, or are being fetched and will be  *)
(* taken for it. A refused request, a filter toggled, a reply for a group  *)
(* that was left and back again do not wedge the pane.                     *)
THEOREM SelectionAttended == DashboardSpec => []SelectionIsAttended
<1>1. DashboardInit => AttendInv
  <2> SUFFICES ASSUME DashboardInit PROVE AttendInv
    OBVIOUS
  <2>1. wanted = NoGroup /\ commands = << >> /\ outbox = << >> /\ events = << >>
    BY DEF DashboardInit, LaunchInit, WorkerInit
  <2>2. ~OnItsWay(NoGroup)
    BY <2>1, NamedFew DEF OnItsWay
  <2>3. QED
    BY <2>1, <2>2 DEF AttendInv, SelectionIsAttended
<1>2. QuestionInv => WireInv
  BY DEF QuestionInv
<1>3. AttendInv => SelectionIsAttended
  BY DEF AttendInv
<1>4. QED
  BY <1>1, <1>2, <1>3, InitPane, NextReplies, NextPaneInv, NextAttendInv, QuestionInvariant,
     PTL DEF DashboardSpec

-----------------------------------------------------------------------------
(* Types. The worker: what a step does to the two channels.                *)

Rate(x) == x.kind = "live" => x.fps \in Rates \cup {0}
Rated(q) == IsSeq(q) /\ \A i \in DOMAIN q : Rate(q[i])

LEMMA RatedAppend ==
  ASSUME NEW q, Rated(q), NEW x, Rate(x)
  PROVE  Rated(Append(q, x)) /\ Len(Append(q, x)) = Len(q) + 1 /\ Len(q) \in Nat
<1>1. PICK S : q \in Seq(S)
  BY DEF Rated, IsSeq
<1>2. q \in Seq(S \cup {x}) /\ Len(q) \in Nat
  BY <1>1, SeqMonotonic
<1>3. /\ Append(q, x) \in Seq(S \cup {x}) /\ Len(Append(q, x)) = Len(q) + 1
      /\ DOMAIN Append(q, x) = 1..(Len(q) + 1) /\ Append(q, x)[Len(q) + 1] = x
      /\ \A i \in 1..Len(q) : Append(q, x)[i] = q[i]
      /\ DOMAIN q = 1..Len(q)
  BY <1>2
<1>4. \A i \in DOMAIN Append(q, x) : Rate(Append(q, x)[i])
  BY <1>2, <1>3 DEF Rated
<1>5. QED
  BY <1>2, <1>3, <1>4 DEF Rated, IsSeq

LEMMA RatedTail ==
  ASSUME NEW q, Rated(q), q # << >>
  PROVE  Rated(Tail(q)) /\ Rate(Head(q)) /\ Len(Tail(q)) = Len(q) - 1 /\ Len(q) \in Nat
<1>1. PICK S : q \in Seq(S)
  BY DEF Rated, IsSeq
<1>2. /\ Tail(q) \in Seq(S) /\ Len(q) \in Nat \ {0} /\ DOMAIN q = 1..Len(q)
      /\ DOMAIN Tail(q) = 1..(Len(q) - 1) /\ Len(Tail(q)) = Len(q) - 1
      /\ \A i \in 1..(Len(q) - 1) : Tail(q)[i] = q[i + 1]
      /\ Head(q) = q[1]
  BY <1>1
<1>3. \A i \in DOMAIN Tail(q) : Rate(Tail(q)[i])
  BY <1>2 DEF Rated
<1>4. QED
  BY <1>2, <1>3 DEF Rated, IsSeq

CommandInv == Rated(commands) /\ Len(commands) <= CommandCap
EventInv == Len(events) <= EventCap /\ place \in {"top", "select", "polling"}

Sends(q, r) ==
  \/ r = q
  \/ \E x : Rate(x) /\ Len(q) < CommandCap /\ r = Append(q, x)

(* The interface sends what there is room for, the worker takes the first. *)
CommandStep ==
  \/ commands # << >> /\ commands' = Tail(commands)
  \/ \E q : Sends(commands, q) /\ Sends(q, commands')

EventStep ==
  /\ \/ events' = events
     \/ events # << >> /\ events' = Tail(events)
     \/ Len(events) < EventCap /\ \E x : events' = Append(events, x)
  /\ place' \in {"top", "select", "polling", place}

LEMMA SendsKeepCap ==
  ASSUME NEW q, NEW r, Rated(q), Len(q) <= CommandCap, Sends(q, r)
  PROVE  Rated(r) /\ Len(r) <= CommandCap
<1>1. CASE r = q
  BY <1>1
<1>2. ASSUME NEW x, Rate(x), Len(q) < CommandCap, r = Append(q, x)
      PROVE  Rated(r) /\ Len(r) <= CommandCap
  BY <1>2, RatedAppend, WorkerConstants
<1>3. QED
  BY <1>1, <1>2 DEF Sends

LEMMA CommandStepKeeps == ASSUME CommandInv, CommandStep PROVE CommandInv'
<1>1. Rated(commands) /\ Len(commands) <= CommandCap
  BY DEF CommandInv
<1>2. CASE commands # << >> /\ commands' = Tail(commands)
  BY <1>1, <1>2, RatedTail, WorkerConstants DEF CommandInv, Rated, Rate
<1>3. ASSUME NEW q, Sends(commands, q), Sends(q, commands') PROVE CommandInv'
  <2>1. Rated(q) /\ Len(q) <= CommandCap
    BY <1>1, <1>3, SendsKeepCap
  <2>2. Rated(commands') /\ Len(commands') <= CommandCap
    BY <1>3, <2>1, SendsKeepCap
  <2>3. QED
    BY <2>2 DEF CommandInv, Rated, Rate
<1>4. QED
  BY <1>2, <1>3 DEF CommandStep

LEMMA EventStepKeeps == ASSUME WireInv, EventInv, EventStep PROVE EventInv'
<1>1. PICK S : events \in Seq(S)
  BY DEF WireInv, IsSeq
<1>2. CASE events' = events
  BY <1>2 DEF EventInv, EventStep
<1>3. CASE events # << >> /\ events' = Tail(events)
  BY <1>1, <1>3, WorkerConstants DEF EventInv, EventStep
<1>4. ASSUME NEW x, Len(events) < EventCap, events' = Append(events, x) PROVE EventInv'
  <2>1. Len(events') = Len(events) + 1 /\ Len(events) \in Nat
    BY <1>1, <1>4
  <2>2. QED
    BY <1>4, <2>1, WorkerConstants DEF EventInv, EventStep
<1>5. QED
  BY <1>2, <1>3, <1>4 DEF EventStep

LEMMA SendsOne ==
  ASSUME NEW x, Rate(x), TrySend(x) \/ commands' = commands
  PROVE  CommandStep
BY DEF TrySend, Room, Sends, CommandStep

LEMMA OtherRates == ASSUME NEW x, x.kind # "live" PROVE Rate(x)
BY DEF Rate

LEMMA AskSends ==
  ASSUME NEW id, NEW astray, NEW at, NEW sent, Ask(id, astray, at, sent), Sends(commands, sent)
  PROVE  CommandStep
<1> DEFINE x == [kind |-> "chat", for |-> id]
<1>1. x.kind # "live"
  OBVIOUS
<1>2. Rate(x)
  BY <1>1, OtherRates
<1>3. Sends(sent, commands')
  BY <1>2 DEF Ask, Sends
<1>4. QED
  BY <1>3 DEF CommandStep

LEMMA PressOnWorker == ASSUME Press PROVE CommandStep /\ EventStep
<1> USE DEF Normal, OnPage
<1>1. [kind |-> "page"].kind # "live" /\ [kind |-> "cancel"].kind # "live"
  OBVIOUS
<1>2. Rate([kind |-> "page"]) /\ Rate([kind |-> "cancel"])
  BY <1>1, OtherRates
<1>3. Handling
  BY DEF Press, SelectPage, BeginChat, FocusVault, MoveRow, EnterRow, ClickRow, OpenInput,
         CloseInput, Submit, Investigate, InvestigateAnyway, Cancel, BeginRename,
         BeginRenameAnyway, EndRename, ArmDelete, Delete, DeleteOther, Removed
<1>4. EventStep
  BY <1>3 DEF Handling, EventStep
<1>5. CASE SelectPage \/ Cancel
  BY <1>2, <1>4, <1>5, SendsOne DEF SelectPage, Cancel
<1>6. CASE Submit
  BY <1>4, <1>6, AskSends DEF Submit, Sends
<1>7. CASE Investigate
  <2>1. CASE Room /\ Ask(begun + 1, FALSE, 0, Append(commands, [kind |-> "page"]))
    <3>1. Sends(commands, Append(commands, [kind |-> "page"]))
      BY <1>2, <2>1 DEF Room, Sends
    <3>2. QED
      BY <1>4, <2>1, <3>1, AskSends
  <2>2. CASE Ask(begun + 1, FALSE, 0, commands)
    BY <1>4, <2>2, AskSends DEF Sends
  <2>3. QED
    BY <1>7, <2>1, <2>2 DEF Investigate, InvestigateAnyway
<1>8. CASE commands' = commands
  BY <1>2, <1>4, <1>8, SendsOne
<1>9. QED
  BY <1>4, <1>5, <1>6, <1>7, <1>8
     DEF Press, BeginChat, FocusVault, MoveRow, EnterRow, ClickRow, OpenInput, CloseInput,
         BeginRename, BeginRenameAnyway, EndRename, ArmDelete, Delete, DeleteOther, Removed

LEMMA ServeOnWorker ==
  ASSUME NEW kind, NEW replies, Serve(kind, replies)
  PROVE  CommandStep /\ EventStep
BY DEF Serve, CommandStep, EventStep

LEMMA DrainingOnWorker == ASSUME NEW kind, Draining(kind) PROVE EventStep
BY DEF Draining, EventStep

LEMMA LeftOnWorker ==
  ASSUME commands' = commands
  PROVE  CommandStep /\ (UNCHANGED <<events, place>> => EventStep)
BY DEF CommandStep, Sends, EventStep

LEMMA ChatOnWorker == ASSUME Chat PROVE CommandStep /\ EventStep
<1>1. CASE Press
  BY <1>1, PressOnWorker
<1>2. CASE Answered
  BY <1>2, DrainingOnWorker, LeftOnWorker DEF Answered
<1>3. CASE ServeChat \/ ServeCancel
  BY <1>3, ServeOnWorker DEF ServeChat, ServeCancel
<1>4. CASE CodexEnds \/ ThreadReturns
  BY <1>4, LeftOnWorker DEF CodexEnds, ThreadReturns, workerVars
<1>5. CASE ThreadSends
  BY <1>5, LeftOnWorker DEF ThreadSends, EventStep
<1>6. QED
  BY <1>1, <1>2, <1>3, <1>4, <1>5 DEF Chat

LEMMA LaunchesOnWorker == ASSUME Launches PROVE CommandStep /\ EventStep
<1>1. ASSUME NEW w, Request(w) PROVE CommandStep
  <2>1. [kind |-> "occurrences", of |-> w].kind # "live"
    OBVIOUS
  <2>2. Rate([kind |-> "occurrences", of |-> w])
    BY <2>1, OtherRates
  <2>3. QED
    BY <1>1, <2>2, SendsOne DEF Request
<1>2. ASSUME NEW w, NEW now, SyncTo(w, now) PROVE CommandStep
  BY <1>1, <1>2, LeftOnWorker DEF SyncTo
<1>3. Handling => EventStep
  BY DEF Handling, EventStep
<1>4. CASE MoveGroup \/ ClickGroup
  BY <1>2, <1>3, <1>4 DEF MoveGroup, ClickGroup, Sync
<1>5. CASE RefreshGroups \/ ToggleFilter
  <2>1. PICK b : TrySend([kind |-> "groups", console |-> b])
    BY <1>5 DEF RefreshGroups, ToggleFilter
  <2>2. [kind |-> "groups", console |-> b].kind # "live"
    OBVIOUS
  <2>3. Rate([kind |-> "groups", console |-> b])
    BY <2>2, OtherRates
  <2>4. QED
    BY <1>3, <1>5, <2>1, <2>3, SendsOne DEF RefreshGroups, ToggleFilter
<1>6. CASE Fetch
  BY <1>1, <1>3, <1>6, LeftOnWorker DEF Fetch
<1>7. CASE GroupsArrived
  <2>1. SyncTo(SelectedIn(groups', selected'), TRUE)
    BY <1>7 DEF GroupsArrived, Sync
  <2>2. QED
    BY <1>2, <1>7, <2>1, DrainingOnWorker DEF GroupsArrived
<1>8. CASE GroupsFailed \/ OccurrencesArrived
  BY <1>8, DrainingOnWorker, LeftOnWorker DEF GroupsFailed, OccurrencesArrived, ShowOccurrences
<1>9. CASE ServeGroups \/ ServeOccurrences
  BY <1>9, ServeOnWorker DEF ServeGroups, ServeOccurrences
<1>10. QED
  BY <1>4, <1>5, <1>6, <1>7, <1>8, <1>9 DEF Launches, Browse

LiveRates == fps \in Rates \cup {0} /\ fpsSent \in Rates \cup {0} /\ every \in Rates \cup {0}

LEMMA SyncPollingSends ==
  ASSUME NEW f \in Rates \cup {0}, SyncPolling(f)
  PROVE  CommandStep /\ fpsSent' \in Rates \cup {0}
<1> DEFINE x == [kind |-> "live", fps |-> f]
<1>1. Rate(x)
  BY DEF Rate
<1>2. QED
  BY <1>1, SendsOne DEF SyncPolling

LEMMA LiveOnWorker ==
  ASSUME LiveRates, CommandInv, Live
  PROVE  CommandStep /\ EventStep /\ LiveRates'
<1>1. CASE ChangeRate
  <2>1. fps' \in Rates /\ EventStep /\ every' = every
    BY <1>1 DEF ChangeRate, Handling, EventStep, pollerVars
  <2>2. PICK f \in Rates \cup {0} : SyncPolling(f)
    BY <1>1, <2>1 DEF ChangeRate
  <2>3. QED
    BY <2>1, <2>2, SyncPollingSends DEF LiveRates
<1>2. CASE LiveArrived
  BY <1>2, DrainingOnWorker, LeftOnWorker DEF LiveArrived, LiveRates, pollerVars
<1>3. CASE LiveRefused
  <2>1. SyncPolling(0) /\ EventStep /\ UNCHANGED <<fps, every>>
    BY <1>3, DrainingOnWorker DEF LiveRefused, pollerVars
  <2>2. QED
    BY <2>1, SyncPollingSends DEF LiveRates
<1>4. CASE ServeLive
  <2>1. commands # << >> /\ Head(commands).kind = "live" /\ every' = Head(commands).fps
    BY <1>4 DEF ServeLive, Serve
  <2>2. every' \in Rates \cup {0}
    BY <2>1, RatedTail DEF CommandInv, Rate
  <2>3. QED
    BY <1>4, <2>2, ServeOnWorker DEF ServeLive, LiveRates, tailVars
<1>5. CASE Poll \/ PollReturns \/ PollFails
  BY <1>5, LeftOnWorker DEF Poll, PollReturns, PollFails, EventStep, LiveRates, pollerVars,
                            tailVars
<1>6. CASE PollLatches \/ GrowsIdle \/ OtherAsks \/ \E g \in 1..MaxLoops : LoopStep(g)
  BY <1>6, LeftOnWorker DEF PollLatches, GrowsIdle, OtherAsks, LoopStep, LiveRates, workerVars,
                            pollerVars, tailVars
<1>7. QED
  BY <1>1, <1>2, <1>3, <1>4, <1>5, <1>6 DEF Live

ChannelsInv == CommandInv /\ EventInv /\ LiveRates

LEMMA NextChannelsInv ==
  ASSUME WireInv, ChannelsInv, [DashboardNext]_vars
  PROVE  ChannelsInv'
<1>1. ASSUME CommandStep, EventStep, LiveRates' PROVE ChannelsInv'
  BY <1>1, CommandStepKeeps, EventStepKeeps DEF ChannelsInv
<1>2. UNCHANGED liveVars => LiveRates'
  BY DEF ChannelsInv, LiveRates, liveVars, tailVars, pollerVars
<1>3. CASE Chat /\ UNCHANGED liveVars
  BY <1>1, <1>2, <1>3, ChatOnWorker
<1>4. CASE Launches /\ UNCHANGED liveVars
  BY <1>1, <1>2, <1>4, LaunchesOnWorker
<1>5. CASE Live
  BY <1>1, <1>5, LiveOnWorker DEF ChannelsInv
<1>6. CASE DrainShown /\ UNCHANGED liveVars
  BY <1>1, <1>2, <1>6, DrainingOnWorker, LeftOnWorker DEF DrainShown
<1>7. CASE (Reap \/ Tick(FALSE) \/ Snapshot) /\ UNCHANGED liveVars
  <2>1. commands' = commands /\ EventStep
    BY <1>7 DEF Reap, GoRound, Tick, Snapshot, EventStep
  <2>2. QED
    BY <1>1, <1>2, <1>7, <2>1, LeftOnWorker
<1>8. CASE Flush /\ UNCHANGED liveVars
  <2>1. commands' = commands /\ EventStep
    BY <1>8 DEF Flush, EventStep
  <2>2. QED
    BY <1>1, <1>2, <1>8, <2>1, LeftOnWorker
<1>9. CASE Refreshed /\ UNCHANGED liveVars
  BY <1>1, <1>2, <1>9, ServeOnWorker DEF Refreshed, ServePage
<1>10. CASE UNCHANGED pageVars
  BY <1>1, <1>2, <1>10, LeftOnWorker DEF pageVars, workerVars
<1>11. QED
  BY <1>3, <1>4, <1>5, <1>6, <1>7, <1>8, <1>9, <1>10, PageCases

-----------------------------------------------------------------------------
(* Types of the live channel.                                              *)

Stages == {"starting", "sleeping", "sampling", "clearing", "unlatching"}

StagesInv ==
  /\ loops \in [DOMAIN loops -> Stages] /\ DOMAIN loops \subseteq 1..spawned
  /\ spawned \in 0..MaxLoops

FlagsInv ==
  /\ idle \in BOOLEAN /\ asking \in {"no", "stamped", "latched"}
  /\ unsupported \in BOOLEAN /\ noted \in BOOLEAN /\ tail \in BOOLEAN

LEMMA LoopStepKeepsStages ==
  ASSUME StagesInv, NEW g, LoopStep(g)
  PROVE  StagesInv'
<1> USE DEF At, Goes, Ends
<1>1. spawned' = spawned
  BY DEF LoopStep
<1>2. CASE Start(g) \/ Wake(g) \/ Publish(g) \/ Clear(g)
  <2>1. PICK there \in Stages : g \in DOMAIN loops /\ loops' = [loops EXCEPT ![g] = there]
    BY <1>2 DEF Start, Wake, Publish, Clear, Stages
  <2>2. QED
    BY <1>1, <2>1 DEF StagesInv
<1>3. CASE NoSampler(g) \/ Unlatch(g)
  <2>1. loops' = [h \in DOMAIN loops \ {g} |-> loops[h]]
    BY <1>3 DEF NoSampler, Unlatch
  <2>2. QED
    BY <1>1, <2>1 DEF StagesInv
<1>4. QED
  BY <1>2, <1>3 DEF LoopStep

LEMMA LatchKeepsStages == ASSUME StagesInv, Latch PROVE StagesInv'
<1>1. CASE UNCHANGED <<spawned, loops>>
  BY <1>1 DEF StagesInv
<1>2. CASE /\ spawned < MaxLoops /\ spawned' = spawned + 1
           /\ loops' = [g \in DOMAIN loops \cup {spawned'} |->
                          IF g = spawned' THEN "starting" ELSE loops[g]]
  <2>1. spawned \in Nat /\ spawned' \in 0..MaxLoops /\ spawned' = spawned + 1
    BY <1>2, LiveConstants DEF StagesInv
  <2>2. DOMAIN loops' = DOMAIN loops \cup {spawned'} /\ DOMAIN loops' \subseteq 1..spawned'
    BY <1>2, <2>1 DEF StagesInv
  <2>3. loops' \in [DOMAIN loops' -> Stages]
    BY <1>2, <2>2 DEF StagesInv, Stages
  <2>4. QED
    BY <2>1, <2>2, <2>3 DEF StagesInv
<1>3. QED
  BY <1>1, <1>2 DEF Latch

LEMMA NextStagesInv == ASSUME StagesInv, [DashboardNext]_vars PROVE StagesInv'
<1>1. CASE UNCHANGED <<loops, spawned>>
  BY <1>1 DEF StagesInv
<1>2. CASE Live
  BY <1>1, <1>2, LatchKeepsStages, LoopStepKeepsStages
     DEF Live, ChangeRate, LiveArrived, LiveRefused, ServeLive, Poll, PollLatches, PollReturns,
         PollFails, GrowsIdle, OtherAsks, Stamp, Read, serviceVars
<1>3. QED
  BY <1>1, <1>2, PageCases DEF liveVars, serviceVars, pageVars

LEMMA NextFlagsInv == ASSUME FlagsInv, [DashboardNext]_vars PROVE FlagsInv'
<1> DEFINE Late == fps # 0 /\ ~noted /\ Head(events).loop # 0
           Wanted == fpsSent' # 0
<1>1. CASE UNCHANGED <<idle, asking, unsupported, noted, tail>>
  BY <1>1 DEF FlagsInv
<1>2. CASE ChangeRate \/ LiveArrived \/ LiveRefused
  <2>1. UNCHANGED <<idle, asking, unsupported>>
    BY <1>2 DEF ChangeRate, LiveArrived, LiveRefused, serviceVars, pollerVars
  <2>2. /\ noted' = noted \/ noted' = TRUE
        /\ tail' = FALSE \/ tail' = (tail \/ Late) \/ tail' = (tail /\ Wanted)
    BY <1>2 DEF ChangeRate, LiveArrived, LiveRefused
  <2> HIDE DEF Late, Wanted
  <2>3. noted' \in BOOLEAN /\ tail' \in BOOLEAN
    BY <2>2, Zenon DEF FlagsInv
  <2>4. QED
    BY <2>1, <2>3 DEF FlagsInv
<1>3. CASE ServeLive \/ Poll \/ PollReturns \/ PollFails \/ PollLatches
  BY <1>3 DEF ServeLive, Poll, PollReturns, PollFails, PollLatches, Stamp, Latch, Read,
              serviceVars, pollerVars, tailVars, FlagsInv
<1>4. CASE GrowsIdle \/ OtherAsks \/ \E g \in 1..MaxLoops : LoopStep(g)
  BY <1>4 DEF GrowsIdle, OtherAsks, LoopStep, Stamp, Latch, Read, pollerVars, tailVars, FlagsInv
<1>5. QED
  BY <1>1, <1>2, <1>3, <1>4, PageCases DEF Live, liveVars, serviceVars, pollerVars, tailVars,
                                           pageVars

-----------------------------------------------------------------------------
(* Types of the launches page: the cursor is on a group, or the list is    *)
(* empty.                                                                  *)

CursorInv == consoleOnly \in BOOLEAN /\ due \in BOOLEAN /\ failed \in BOOLEAN
             /\ (groups = << >> => selected \in {0, 1})

LEMMA SyncFlags ==
  ASSUME NEW now, Sync(now), due \in BOOLEAN, failed \in BOOLEAN
  PROVE  due' \in BOOLEAN /\ failed' \in BOOLEAN
<1>1. PICK w : SyncTo(w, now)
  BY DEF Sync
<1> DEFINE moved == w # wanted
<1>2. moved \in BOOLEAN /\ failed' = (~moved /\ failed)
  BY <1>1 DEF SyncTo
<1>3. due' = TRUE \/ due' = ~Room \/ due' = (~moved /\ due)
  BY <1>1 DEF SyncTo, Request
<1>4. Room \in BOOLEAN
  BY DEF Room
<1> HIDE DEF moved
<1>5. QED
  BY <1>2, <1>3, <1>4, Zenon

LEMMA NextCursorInv ==
  ASSUME Replies, PaneInv, CursorInv, [DashboardNext]_vars
  PROVE  CursorInv'
<1>1. CASE UNCHANGED <<consoleOnly, due, failed, groups, selected>>
  BY <1>1 DEF CursorInv
<1>2. ASSUME NEW now, Sync(now), UNCHANGED consoleOnly, groups' = << >> => selected' \in {0, 1}
      PROVE  CursorInv'
  <2>1. due' \in BOOLEAN /\ failed' \in BOOLEAN
    BY <1>2, SyncFlags DEF CursorInv
  <2>2. QED
    BY <1>2, <2>1 DEF CursorInv
<1>3. CASE MoveGroup
  BY <1>2, <1>3 DEF MoveGroup, Clamped
<1>4. CASE ClickGroup
  <2>1. groups' = groups /\ selected' \in DOMAIN groups /\ UNCHANGED consoleOnly /\ Sync(TRUE)
    BY <1>4 DEF ClickGroup
  <2>2. groups # << >>
    BY <2>1
  <2>3. QED
    BY <1>2, <2>1, <2>2
<1>5. CASE GroupsArrived
  BY <1>2, <1>5 DEF GroupsArrived, Clamped
<1>6. CASE ToggleFilter
  BY <1>6 DEF ToggleFilter, CursorInv
<1>7. CASE Fetch
  <2>1. due' = ~Room \/ due' = FALSE
    BY <1>7 DEF Fetch, Request
  <2>2. due' \in BOOLEAN
    BY <2>1 DEF Room
  <2>3. QED
    BY <1>7, <2>2 DEF Fetch, CursorInv
<1>8. CASE GroupsFailed
  BY <1>8 DEF GroupsFailed, CursorInv
<1>9. CASE OccurrencesArrived
  <2>1. failed' \in BOOLEAN /\ UNCHANGED <<consoleOnly, due, groups, selected>>
    BY <1>9 DEF OccurrencesArrived, ShowOccurrences, launchVars, CursorInv
  <2>2. QED
    BY <2>1 DEF CursorInv
<1>10. CASE DrainShown
  BY <1>10 DEF DrainShown, ClampGroups, Clamped, CursorInv
<1>11. QED
  BY <1>1, <1>3, <1>4, <1>5, <1>6, <1>7, <1>8, <1>9, <1>10, PageCases
     DEF Launches, Browse, RefreshGroups, ServeGroups, ServeOccurrences, launchVars, pageVars

LEMMA PaneTypes == ASSUME PaneInv, CursorInv PROVE LaunchTypeOK
<1>1. wanted \in Groups \cup {NoGroup}
  BY DEF PaneInv, SelectedIn
<1>2. selected \in {0, 1} \cup DOMAIN groups
  BY DEF PaneInv, CursorInv
<1>3. QED
  BY <1>1, <1>2 DEF PaneInv, CursorInv, LaunchTypeOK

-----------------------------------------------------------------------------
(* Types of the analyzer page: the vault has one session of a chat, and    *)
(* the cursor is on one of them or on NEW CHAT.                            *)

LEMMA RemoveAtProperties ==
  ASSUME NEW S, NEW s \in Seq(S), NEW i \in 1..Len(s)
  PROVE  /\ RemoveAt(s, i) \in Seq(S) /\ Len(RemoveAt(s, i)) = Len(s) - 1
         /\ \A j \in 1..(Len(s) - 1) : RemoveAt(s, i)[j] = s[IF j < i THEN j ELSE j + 1]
<1> DEFINE before == SubSeq(s, 1, i - 1)
           after == SubSeq(s, i + 1, Len(s))
<1>1. Len(s) \in Nat /\ \A j \in 1..Len(s) : s[j] \in S
  OBVIOUS
<1>2. /\ before \in Seq(S) /\ Len(before) = i - 1
      /\ \A j \in 1..(i - 1) : before[j] = s[j]
  <2>1. 1 \in Int /\ i - 1 \in Int /\ \A j \in 1..(i - 1) : s[j] \in S
    BY <1>1
  <2>2. QED
    BY <2>1, SubSeqProperties
<1>3. /\ after \in Seq(S) /\ Len(after) = Len(s) - i
      /\ \A j \in 1..(Len(s) - i) : after[j] = s[j + i]
  <2>1. i + 1 \in Int /\ Len(s) \in Int /\ \A j \in (i + 1)..Len(s) : s[j] \in S
    BY <1>1
  <2>2. /\ after \in Seq(S) /\ Len(after) = IF i + 1 <= Len(s) THEN Len(s) - (i + 1) + 1 ELSE 0
        /\ \A j \in 1..(Len(s) - (i + 1) + 1) : after[j] = s[(i + 1) + j - 1]
    BY <2>1, SubSeqProperties
  <2> HIDE DEF after
  <2>3. \A j \in 1..(Len(s) - i) : (i + 1) + j - 1 = j + i /\ j \in 1..(Len(s) - (i + 1) + 1)
    BY <1>1
  <2>4. QED
    BY <1>1, <2>2, <2>3
<1>4. RemoveAt(s, i) = before \o after
  BY DEF RemoveAt
<1> HIDE DEF before, after
<1>5. /\ before \o after \in Seq(S) /\ Len(before \o after) = Len(before) + Len(after)
      /\ \A j \in 1..(Len(before) + Len(after)) :
           (before \o after)[j] = IF j <= Len(before) THEN before[j] ELSE after[j - Len(before)]
  BY <1>2, <1>3, ConcatProperties
<1>6. Len(before) + Len(after) = Len(s) - 1
  BY <1>1, <1>2, <1>3
<1>7. ASSUME NEW j \in 1..(Len(s) - 1)
      PROVE  RemoveAt(s, i)[j] = s[IF j < i THEN j ELSE j + 1]
  <2>1. RemoveAt(s, i)[j] = IF j <= i - 1 THEN before[j] ELSE after[j - (i - 1)]
    BY <1>2, <1>4, <1>5, <1>6
  <2>2. CASE j < i
    BY <1>1, <1>2, <2>1, <2>2
  <2>3. CASE ~(j < i)
    <3>1. ~(j <= i - 1) /\ j - (i - 1) \in 1..(Len(s) - i) /\ (j - (i - 1)) + i = j + 1
      BY <1>1, <2>3
    <3>2. QED
      BY <1>3, <2>1, <2>3, <3>1
  <2>4. QED
    BY <2>2, <2>3
<1>8. QED
  BY <1>4, <1>5, <1>6, <1>7

(* A list of sessions of chats begun so far, one of each.                  *)
Saved(upto) == [id : 1..upto, strayed : BOOLEAN]
Vault(q, upto) ==
  /\ q \in Seq(Saved(upto))
  /\ \A i, j \in 1..Len(q) : q[i].id = q[j].id => i = j

LEMMA VaultGrows ==
  ASSUME NEW q, NEW n \in Nat, NEW m \in Nat, n <= m, Vault(q, n)
  PROVE  Vault(q, m)
<1>1. Saved(n) \subseteq Saved(m)
  BY DEF Saved
<1>2. QED
  BY <1>1, SeqMonotonic DEF Vault

LEMMA VaultWithout ==
  ASSUME NEW q, NEW n \in Nat, Vault(q, n), NEW i \in 1..Len(q)
  PROVE  /\ Vault(RemoveAt(q, i), n) /\ Len(RemoveAt(q, i)) = Len(q) - 1
         /\ \A j \in 1..(Len(q) - 1) : RemoveAt(q, i)[j].id # q[i].id
<1> DEFINE r == RemoveAt(q, i)
           at(j) == IF j < i THEN j ELSE j + 1
<1>1. /\ r \in Seq(Saved(n)) /\ Len(r) = Len(q) - 1 /\ Len(q) \in Nat
      /\ \A j \in 1..(Len(q) - 1) : r[j] = q[at(j)]
  <2>1. q \in Seq(Saved(n))
    BY DEF Vault
  <2>2. Len(q) \in Nat
    BY <2>1
  <2>3. /\ r \in Seq(Saved(n)) /\ Len(r) = Len(q) - 1
        /\ \A j \in 1..(Len(q) - 1) : r[j] = q[IF j < i THEN j ELSE j + 1]
    BY <2>1, RemoveAtProperties
  <2> HIDE DEF r
  <2>4. QED
    BY <2>2, <2>3
<1> HIDE DEF r
<1>2. \A j \in 1..(Len(q) - 1) : at(j) \in 1..Len(q) /\ at(j) # i
  BY <1>1
<1>3. \A j, k \in 1..(Len(q) - 1) : at(j) = at(k) => j = k
  BY <1>1
<1> HIDE DEF at
<1>4. \A j, k \in 1..Len(r) : r[j].id = r[k].id => j = k
  BY <1>1, <1>2, <1>3 DEF Vault
<1>5. \A j \in 1..(Len(q) - 1) : r[j].id # q[i].id
  BY <1>1, <1>2 DEF Vault
<1>6. QED
  BY <1>1, <1>4, <1>5 DEF Vault, r

LEMMA OthersKept ==
  ASSUME NEW n \in Nat, Vault(sessions, n), NEW id
  PROVE  /\ Vault(OthersThan(id), n) /\ Len(OthersThan(id)) \in {Len(sessions), Len(sessions) - 1}
         /\ \A j \in 1..Len(OthersThan(id)) : OthersThan(id)[j].id # id
<1> DEFINE places == {i \in DOMAIN sessions : sessions[i].id = id}
<1>1. DOMAIN sessions = 1..Len(sessions)
  BY DEF Vault
<1>2. CASE places = {}
  BY <1>1, <1>2 DEF OthersThan
<1>3. CASE places # {}
  <2> DEFINE i == CHOOSE i \in places : TRUE
  <2>1. i \in 1..Len(sessions) /\ sessions[i].id = id
    BY <1>1, <1>3
  <2>2. OthersThan(id) = RemoveAt(sessions, i)
    BY <1>3 DEF OthersThan
  <2> HIDE DEF i
  <2>3. QED
    BY <2>1, <2>2, VaultWithout
<1>4. QED
  BY <1>2, <1>3

LEMMA PersistKeepsVault ==
  ASSUME NEW n \in Nat, Vault(sessions, n), Len(sessions) <= MaxSessions,
         NEW id \in 1..n, NEW astray \in BOOLEAN, NEW at \in 0..Len(sessions),
         Persist(id, astray, at)
  PROVE  /\ Vault(sessions', n) /\ Len(sessions') <= MaxSessions /\ row' \in 0..Len(sessions')
         /\ strayed' \in BOOLEAN
<1> DEFINE new == [id |-> id, strayed |-> astray]
           rest == OthersThan(id)
           all == <<new>> \o rest
           kept == IF Len(all) > MaxSessions THEN MaxSessions ELSE Len(all)
<1>1. /\ rest \in Seq(Saved(n)) /\ Len(rest) \in {Len(sessions), Len(sessions) - 1}
      /\ \A j, k \in 1..Len(rest) : rest[j].id = rest[k].id => j = k
      /\ \A j \in 1..Len(rest) : rest[j].id # id
  BY OthersKept DEF Vault
<1>2. Len(sessions) \in Nat /\ Len(rest) \in Nat
  BY <1>1 DEF Vault
<1>3. new \in Saved(n)
  BY DEF Saved
<1>4. sessions' = SubSeq(all, 1, kept) /\ row' \in {1, at} /\ strayed' = astray
  BY DEF Persist
<1>5. new.id = id
  OBVIOUS
<1> HIDE DEF rest, new
<1>6. /\ all \in Seq(Saved(n)) /\ Len(all) = 1 + Len(rest) /\ all[1] = new
      /\ \A j \in 2..(1 + Len(rest)) : all[j] = rest[j - 1]
  <2>1. <<new>> \in Seq(Saved(n)) /\ Len(<<new>>) = 1 /\ <<new>>[1] = new
    BY <1>3
  <2>2. /\ all \in Seq(Saved(n)) /\ Len(all) = Len(<<new>>) + Len(rest)
        /\ \A j \in 1..(Len(<<new>>) + Len(rest)) :
             all[j] = IF j <= Len(<<new>>) THEN <<new>>[j] ELSE rest[j - Len(<<new>>)]
    BY <1>1, <2>1, ConcatProperties
  <2> HIDE DEF all
  <2>3. QED
    BY <1>2, <2>1, <2>2
<1> HIDE DEF all
<1>7. \A j, k \in 1..Len(all) : all[j].id = all[k].id => j = k
  <2> SUFFICES ASSUME NEW j \in 1..Len(all), NEW k \in 1..Len(all), all[j].id = all[k].id
               PROVE  j = k
    OBVIOUS
  <2>1. ASSUME NEW i \in 2..Len(all)
        PROVE  i - 1 \in 1..Len(rest) /\ all[i] = rest[i - 1] /\ all[i].id # id
    <3>1. i - 1 \in 1..Len(rest) /\ i \in 2..(1 + Len(rest))
      BY <1>2, <1>6
    <3>2. all[i] = rest[i - 1]
      BY <1>6, <3>1
    <3>3. rest[i - 1].id # id
      BY <1>1, <3>1
    <3>4. QED
      BY <3>1, <3>2, <3>3
  <2>2. CASE j = 1 \/ k = 1
    BY <1>2, <1>5, <1>6, <2>1, <2>2
  <2>3. CASE j # 1 /\ k # 1
    <3>1. j \in 2..Len(all) /\ k \in 2..Len(all)
      BY <1>2, <1>6, <2>3
    <3>2. j - 1 = k - 1
      BY <1>1, <2>1, <3>1
    <3>3. QED
      BY <3>1, <3>2
  <2>4. QED
    BY <2>2, <2>3
<1>8. kept \in Nat /\ 1 <= kept /\ kept <= Len(all) /\ kept <= MaxSessions /\ Len(sessions) <= kept
  BY <1>1, <1>2, <1>6, ChatConstants
<1> HIDE DEF kept
<1>9. /\ SubSeq(all, 1, kept) \in Seq(Saved(n)) /\ Len(SubSeq(all, 1, kept)) = kept
      /\ \A j \in 1..kept : SubSeq(all, 1, kept)[j] = all[j]
  <2>1. 1 \in Int /\ kept \in Int /\ \A j \in 1..kept : all[j] \in Saved(n)
    BY <1>2, <1>6, <1>8
  <2>2. /\ SubSeq(all, 1, kept) \in Seq(Saved(n))
        /\ Len(SubSeq(all, 1, kept)) = IF 1 <= kept THEN kept - 1 + 1 ELSE 0
        /\ \A j \in 1..(kept - 1 + 1) : SubSeq(all, 1, kept)[j] = all[1 + j - 1]
    BY <2>1, SubSeqProperties
  <2>3. \A j \in 1..kept : 1 + j - 1 = j /\ j \in 1..(kept - 1 + 1)
    BY <1>8
  <2>4. QED
    BY <1>8, <2>2, <2>3
<1>10. Vault(sessions', n)
  <2>1. /\ sessions' \in Seq(Saved(n)) /\ Len(sessions') = kept
        /\ \A j \in 1..kept : sessions'[j] = all[j]
    BY <1>4, <1>9
  <2>2. \A j, k \in 1..Len(sessions') : sessions'[j].id = sessions'[k].id => j = k
    BY <1>2, <1>6, <1>7, <1>8, <2>1
  <2>3. QED
    BY <2>1, <2>2 DEF Vault
<1>11. Len(sessions') = kept
  BY <1>4, <1>9
<1>12. QED
  BY <1>2, <1>4, <1>8, <1>10, <1>11

ScreenInv ==
  /\ page \in {"analyzer", "findings"} /\ mode \in {"normal", "chat"}
  /\ running \in BOOLEAN /\ focused \in BOOLEAN

VaultInv ==
  /\ begun \in Chats /\ conversation \in 1..begun /\ strayed \in BOOLEAN
  /\ Vault(sessions, begun) /\ Len(sessions) <= MaxSessions /\ row \in 0..Len(sessions)

BandInv == band \in 0..begun /\ armed \in 0..begun

Runs == {"nothing", "asking", "sending", "returning", "finished"}
AnalyzerInv ==
  \E does, for : does \in Runs /\ analyzer = [does |-> does, for |-> for]

LEMMA ScreenKept == ASSUME ScreenInv, [DashboardNext]_vars PROVE ScreenInv'
<1> USE DEF Normal, OnPage
<1>1. CASE UNCHANGED <<page, mode, running, focused>>
  BY <1>1 DEF ScreenInv
<1>2. CASE SelectPage \/ BeginChat \/ MoveRow \/ EnterRow \/ ClickRow \/ OpenInput \/ CloseInput
  BY <1>2 DEF SelectPage, BeginChat, MoveRow, EnterRow, ClickRow, OpenInput, CloseInput,
              vaultVars, ScreenInv
<1>3. CASE FocusVault
  <2>1. focused' = ~focused /\ UNCHANGED <<page, mode, running>>
    BY <1>3 DEF FocusVault
  <2>2. QED
    BY <2>1 DEF ScreenInv
<1>4. CASE Submit \/ Investigate
  <2>1. running' \in BOOLEAN
    <3>1. ASSUME NEW id, NEW astray, NEW at, NEW sent, Ask(id, astray, at, sent)
          PROVE  running' \in BOOLEAN
      BY <3>1 DEF Ask
    <3>2. QED
      BY <1>4, <3>1 DEF Submit, Investigate, InvestigateAnyway
  <2>2. page' \in {page, "analyzer"} /\ mode' \in {mode, "normal"} /\ focused' \in {focused, FALSE}
    BY <1>4 DEF Submit, Investigate, InvestigateAnyway
  <2>3. focused' \in BOOLEAN
    BY <2>2 DEF ScreenInv
  <2>4. page' \in {"analyzer", "findings"} /\ mode' \in {"normal", "chat"}
    BY <2>2 DEF ScreenInv
  <2>5. QED
    BY <2>1, <2>3, <2>4 DEF ScreenInv
<1>5. CASE Cancel \/ BeginRename \/ EndRename \/ ArmDelete \/ Delete
  BY <1>1, <1>5 DEF Cancel, BeginRename, BeginRenameAnyway, EndRename, ArmDelete, Delete,
                    DeleteOther, Removed
<1>6. CASE Answered
  BY <1>6 DEF Answered, ScreenInv
<1>7. CASE ServeChat \/ ServeCancel \/ CodexEnds \/ ThreadSends \/ ThreadReturns \/ Reap
  BY <1>1, <1>7 DEF ServeChat, ServeCancel, CodexEnds, ThreadSends, ThreadReturns, Reap,
                    screenVars, chatVars, vaultVars
<1>8. QED
  BY <1>1, <1>2, <1>3, <1>4, <1>5, <1>6, <1>7, PageCases DEF Chat, Press, chatVars, vaultVars,
                                                             pageVars

LEMMA RowIsSession ==
  ASSUME VaultInv, NEW i \in 1..Len(sessions)
  PROVE  sessions[i].id \in 1..begun /\ sessions[i].strayed \in BOOLEAN
<1>1. sessions[i] \in Saved(begun)
  BY DEF VaultInv, Vault
<1>2. QED
  BY <1>1 DEF Saved

LEMMA BegunType ==
  ASSUME VaultInv
  PROVE  begun \in Nat /\ begun + 1 \in Nat /\ Len(sessions) \in Nat /\ DOMAIN sessions = 1..Len(sessions)
         /\ (begun < MaxChats => begun + 1 \in Chats /\ Vault(sessions, begun + 1))
<1>1. begun \in Nat /\ begun + 1 \in Nat /\ begun <= begun + 1
  BY ChatConstants DEF VaultInv, Chats
<1>2. Vault(sessions, begun) /\ Vault(sessions, begun + 1)
  BY <1>1, VaultGrows DEF VaultInv
<1>3. begun < MaxChats => begun + 1 \in Chats
  BY <1>1, ChatConstants DEF Chats
<1>4. sessions \in Seq(Saved(begun))
  BY <1>2 DEF Vault
<1>5. Len(sessions) \in Nat /\ DOMAIN sessions = 1..Len(sessions)
  BY <1>4
<1>6. QED
  BY <1>1, <1>2, <1>3, <1>5

(* Steps that save nothing.                                                *)
LEMMA SameVault ==
  ASSUME VaultInv, begun' = begun, sessions' = sessions, conversation' \in 1..begun,
         strayed' \in BOOLEAN, row' \in 0..Len(sessions)
  PROVE  VaultInv'
BY DEF VaultInv, Vault

LEMMA VaultKept == ASSUME VaultInv, [DashboardNext]_vars PROVE VaultInv'
<1> USE DEF Normal, OnPage
<1>1. CASE UNCHANGED <<begun, conversation, strayed, sessions, row>>
  BY <1>1, SameVault DEF VaultInv
<1>2. CASE SelectPage \/ OpenInput \/ CloseInput \/ Cancel \/ BeginRename \/ EndRename \/ ArmDelete
  BY <1>1, <1>2 DEF SelectPage, OpenInput, CloseInput, Cancel, BeginRename, BeginRenameAnyway,
                    EndRename, ArmDelete, vaultVars, shownVars
<1>3. ASSUME NewChat, Vault(sessions', begun), Len(sessions') <= MaxSessions,
             Len(sessions') \in Nat
      PROVE  VaultInv'
  <2>1. begun \in Nat /\ begun + 1 \in Chats /\ begun' = begun + 1
    BY <1>3, BegunType DEF NewChat
  <2>2. Vault(sessions', begun') /\ begun <= begun + 1 /\ begun + 1 \in Nat
    BY <1>3, <2>1, VaultGrows
  <2>3. conversation' = begun' /\ strayed' = FALSE /\ row' = 0
    BY <1>3 DEF NewChat
  <2>4. begun' \in 1..begun' /\ 0 \in 0..Len(sessions') /\ strayed' \in BOOLEAN
    <3>1. begun' \in Nat /\ 1 <= begun'
      BY <2>1, ChatConstants DEF Chats
    <3>2. strayed' \in BOOLEAN
      BY <2>3
    <3>3. 0 \in 0..Len(sessions')
      BY <1>3
    <3>4. QED
      BY <3>1, <3>2, <3>3
  <2>5. QED
    BY <1>3, <2>1, <2>2, <2>3, <2>4 DEF VaultInv, Vault
<1>4. CASE BeginChat
  BY <1>3, <1>4, BegunType DEF BeginChat, VaultInv
<1>5. CASE FocusVault
  <2>1. sessions # << >> => Len(sessions) >= 1
    BY DEF VaultInv, Vault
  <2>2. row' \in 0..Len(sessions)
    BY <1>5, <2>1, BegunType DEF FocusVault, VaultInv
  <2>3. QED
    BY <1>5, <2>2, SameVault DEF FocusVault, shownVars, VaultInv
<1>6. CASE MoveRow
  BY <1>6, SameVault DEF MoveRow, shownVars, VaultInv
<1>7. ASSUME NEW i \in 1..Len(sessions), Activate(i), sessions' = sessions PROVE VaultInv'
  <2>1. i \in 0..Len(sessions)
    BY BegunType
  <2>2. QED
    BY <1>7, <2>1, RowIsSession, SameVault DEF Activate
<1>8. CASE EnterRow
  <2>1. row \in 1..Len(sessions)
    BY <1>8, BegunType DEF EnterRow, VaultInv
  <2>2. QED
    BY <1>7, <1>8, <2>1 DEF EnterRow
<1>9. CASE ClickRow
  BY <1>7, <1>9, BegunType DEF ClickRow
<1>10. ASSUME NEW n \in Chats, begun' = n, begun <= n, NEW id \in 1..n, conversation' = id,
              NEW astray \in BOOLEAN, NEW at \in {0, row}, Persist(id, astray, at)
       PROVE  VaultInv'
  <2>0. at \in 0..Len(sessions)
    BY <1>10, BegunType DEF VaultInv
  <2>1. n \in Nat /\ begun \in Nat
    BY <1>10, BegunType, ChatConstants DEF Chats
  <2>2. Vault(sessions, n)
    BY <1>10, <2>1, VaultGrows DEF VaultInv
  <2>3. /\ Vault(sessions', n) /\ Len(sessions') <= MaxSessions /\ row' \in 0..Len(sessions')
        /\ strayed' \in BOOLEAN
    BY <1>10, <2>1, <2>2, <2>0, PersistKeepsVault DEF VaultInv
  <2>4. QED
    BY <1>10, <2>3 DEF VaultInv, Vault
<1>11. begun \in Chats /\ begun <= begun /\ conversation \in 1..begun /\ strayed \in BOOLEAN
  BY BegunType DEF VaultInv
<1>12. CASE Submit
  BY <1>10, <1>11, <1>12 DEF Submit, Ask
<1>13. CASE Answered
  <2> DEFINE astray == strayed \/ Head(events).for # conversation
  <2>1. astray \in BOOLEAN
    OBVIOUS
  <2>2. Persist(conversation, astray, row) /\ conversation' = conversation /\ begun' = begun
    BY <1>13 DEF Answered
  <2> HIDE DEF astray
  <2>3. QED
    BY <1>10, <1>11, <2>1, <2>2
<1>14. CASE Investigate
  <2>1. begun + 1 \in Chats /\ begun <= begun + 1 /\ begun + 1 \in 1..(begun + 1)
    BY <1>14, BegunType DEF Investigate, InvestigateAnyway, Chats
  <2>2. begun' = begun + 1 /\ conversation' = begun + 1 /\ Persist(begun + 1, FALSE, 0)
    BY <1>14 DEF Investigate, InvestigateAnyway, Ask
  <2>3. QED
    BY <1>10, <2>1, <2>2
<1>15. CASE Delete
  <2>1. row \in 1..Len(sessions) /\ sessions' = RemoveAt(sessions, row)
    BY <1>15, BegunType DEF Delete, DeleteOther, Removed, VaultInv
  <2>2. Vault(sessions', begun) /\ Len(sessions') = Len(sessions) - 1
    BY <2>1, BegunType, VaultWithout DEF VaultInv
  <2>3. Len(sessions') \in Nat /\ Len(sessions') <= MaxSessions
    BY <2>1, <2>2, BegunType, ChatConstants DEF VaultInv
  <2>4. CASE NewChat
    BY <1>3, <2>2, <2>3, <2>4
  <2>5. CASE DeleteOther
    <3>1. row' \in 0..Len(sessions')
      BY <2>1, <2>3, <2>5 DEF DeleteOther
    <3>2. UNCHANGED <<begun, conversation, strayed>>
      BY <2>5 DEF DeleteOther, shownVars
    <3>3. QED
      BY <2>2, <2>3, <3>1, <3>2 DEF VaultInv, Vault
  <2>6. QED
    BY <1>15, <2>4, <2>5 DEF Delete
<1>16. CASE ServeChat \/ ServeCancel \/ CodexEnds \/ ThreadSends \/ ThreadReturns \/ Reap
  BY <1>1, <1>16 DEF ServeChat, ServeCancel, CodexEnds, ThreadSends, ThreadReturns, Reap,
                     screenVars, chatVars, vaultVars, shownVars
<1>17. QED
  BY <1>1, <1>2, <1>4, <1>5, <1>6, <1>8, <1>9, <1>12, <1>13, <1>14, <1>15, <1>16, PageCases
     DEF Chat, Press, chatVars, vaultVars, shownVars, pageVars

LEMMA BandKept == ASSUME VaultInv, BandInv, [DashboardNext]_vars PROVE BandInv'
<1> USE DEF Normal, OnPage
<1>1. begun \in Nat /\ 0 \in 0..begun /\ \A n \in 1..begun : n \in 0..begun
  BY BegunType
<1>2. \A n \in 0..begun : n \in 0..(begun + 1)
  BY <1>1
<1>3. ASSUME begun' = begun \/ begun' = begun + 1, band' \in {band, 0} \cup 1..begun,
             armed' \in {armed, 0} \cup 1..begun
      PROVE  BandInv'
  <2>1. band' \in 0..begun /\ armed' \in 0..begun
    BY <1>1, <1>3 DEF BandInv
  <2>2. QED
    BY <1>2, <1>3, <2>1 DEF BandInv
<1>4. CASE UNCHANGED <<band, armed, begun>>
  BY <1>4 DEF BandInv
<1>5. CASE BeginRename \/ ArmDelete
  <2>1. row \in 1..Len(sessions)
    BY <1>5, BegunType DEF BeginRename, BeginRenameAnyway, ArmDelete, VaultInv
  <2>2. sessions[row].id \in 1..begun
    BY <2>1, RowIsSession
  <2>3. QED
    BY <1>3, <1>5, <2>2 DEF BeginRename, BeginRenameAnyway, ArmDelete, Key, shownVars, NoChat
<1>6. CASE SelectPage \/ BeginChat \/ FocusVault \/ MoveRow \/ EnterRow \/ ClickRow \/ OpenInput
  BY <1>3, <1>6 DEF SelectPage, BeginChat, FocusVault, MoveRow, EnterRow, ClickRow, OpenInput,
                    NewChat, Activate, Key, Click, shownVars, NoChat
<1>7. CASE CloseInput \/ Submit \/ Investigate \/ Cancel \/ EndRename \/ Delete \/ Answered
  BY <1>3, <1>7 DEF CloseInput, Submit, Investigate, InvestigateAnyway, Cancel, EndRename,
                    Delete, DeleteOther, Removed, NewChat, Answered, Key, vaultVars, shownVars,
                    NoChat
<1>8. CASE ServeChat \/ ServeCancel \/ CodexEnds \/ ThreadSends \/ ThreadReturns \/ Reap
  BY <1>4, <1>8 DEF ServeChat, ServeCancel, CodexEnds, ThreadSends, ThreadReturns, Reap,
                    screenVars, chatVars, vaultVars, shownVars
<1>9. QED
  BY <1>4, <1>5, <1>6, <1>7, <1>8, PageCases DEF Chat, Press, chatVars, vaultVars, shownVars,
                                                 pageVars

LEMMA AnalyzerKept == ASSUME AnalyzerInv, [DashboardNext]_vars PROVE AnalyzerInv'
<1> USE DEF Normal, OnPage
<1>1. CASE analyzer' = analyzer
  BY <1>1 DEF AnalyzerInv
<1>2. ASSUME NEW does \in Runs, NEW for, analyzer' = [does |-> does, for |-> for]
      PROVE  AnalyzerInv'
  BY <1>2 DEF AnalyzerInv
<1>3. "asking" \in Runs /\ "sending" \in Runs /\ "returning" \in Runs /\ "finished" \in Runs
      /\ "nothing" \in Runs
  BY DEF Runs
<1>4. CASE Reap
  BY <1>1, <1>2, <1>3, <1>4 DEF Reap, Idle
<1>5. CASE ServeChat
  BY <1>1, <1>2, <1>3, <1>5 DEF ServeChat
<1>6. CASE CodexEnds \/ ThreadSends \/ ThreadReturns
  <2>1. PICK does, for : does \in Runs /\ analyzer = [does |-> does, for |-> for]
    BY DEF AnalyzerInv
  <2>2. PICK next \in {"sending", "returning", "finished"} :
          analyzer' = [analyzer EXCEPT !.does = next]
    BY <1>6 DEF CodexEnds, ThreadSends, ThreadReturns
  <2>3. analyzer' = [does |-> next, for |-> for]
    BY <2>1, <2>2
  <2>4. QED
    BY <1>2, <1>3, <2>2, <2>3
<1>7. CASE Press
  BY <1>1, <1>7
     DEF Press, SelectPage, BeginChat, FocusVault, MoveRow, EnterRow, ClickRow, OpenInput,
         CloseInput, Submit, Investigate, InvestigateAnyway, Cancel, BeginRename,
         BeginRenameAnyway, EndRename, ArmDelete, Delete, DeleteOther, Removed
<1>8. CASE Answered \/ ServeCancel
  BY <1>1, <1>8 DEF Answered, ServeCancel, chatVars
<1>9. QED
  BY <1>1, <1>4, <1>5, <1>6, <1>7, <1>8, PageCases DEF Chat, chatVars, pageVars

-----------------------------------------------------------------------------

TypesInv ==
  /\ ChannelsInv /\ ScreenInv /\ VaultInv /\ BandInv /\ AnalyzerInv
  /\ StagesInv /\ FlagsInv /\ CursorInv /\ scope \in Scopes

(* What the types rest on that is proved above.                            *)
GroundInv == QuestionInv /\ Replies /\ PaneInv /\ LoopInv

LEMMA WorkerTypes == ASSUME QuestionInv, ChannelsInv PROVE WorkerTypeOK
<1>1. PICK S, T : commands \in Seq(S) /\ events \in Seq(T)
  BY DEF QuestionInv, WireInv, IsSeq
<1>2. Len(commands) \in Nat /\ Len(events) \in Nat
  BY <1>1
<1>3. QED
  BY <1>2, WorkerConstants DEF ChannelsInv, CommandInv, EventInv, WorkerTypeOK

LEMMA ChatTypes == ASSUME ScreenInv, VaultInv, BandInv, AnalyzerInv PROVE ChatTypeOK
<1>1. \A i, j \in DOMAIN sessions : sessions[i].id = sessions[j].id => i = j
  BY BegunType DEF VaultInv, Vault
<1>2. analyzer.does \in Runs
  BY DEF AnalyzerInv
<1>3. /\ page \in {"analyzer", "findings"} /\ mode \in {"normal", "chat"}
      /\ running \in BOOLEAN /\ focused \in BOOLEAN
  BY DEF ScreenInv
<1>4. /\ conversation \in 1..begun /\ strayed \in BOOLEAN
      /\ Len(sessions) <= MaxSessions /\ row \in 0..Len(sessions) /\ begun \in Chats
  BY DEF VaultInv
<1>5. QED
  BY <1>1, <1>2, <1>3, <1>4, Zenon DEF BandInv, Runs, ChatTypeOK

LEMMA LiveTypes == ASSUME LoopInv, StagesInv, FlagsInv, LiveRates PROVE LiveTypeOK
<1>1. slot \in 0..spawned
  BY LiveConstants DEF LoopInv, StagesInv
<1>2. {fps, fpsSent, every} \subseteq Rates \cup {0}
  BY DEF LiveRates
<1>3. {unsupported, noted, tail} \subseteq BOOLEAN
  BY DEF FlagsInv
<1>4. latch \in BOOLEAN /\ idle \in BOOLEAN /\ asking \in {"no", "stamped", "latched"}
  BY DEF LoopInv, FlagsInv
<1>5. QED
  BY <1>1, <1>2, <1>3, <1>4, Zenon DEF StagesInv, Stages, LiveTypeOK

LEMMA InitTypesInv == ASSUME DashboardInit PROVE TypesInv
<1>1. WorkerInit /\ ChatInit /\ LaunchInit /\ LiveInit /\ scope \in Scopes
  BY DEF DashboardInit
<1>2. ChannelsInv
  <2>1. /\ commands = << >> /\ events = << >> /\ place = "top"
        /\ fps = 0 /\ fpsSent = 0 /\ every = 0
    BY <1>1 DEF WorkerInit, LiveInit
  <2>2. Rated(<< >>) /\ Len(<< >>) = 0
    BY EmptySeqCount DEF Rated
  <2>3. QED
    BY <2>1, <2>2, WorkerConstants DEF ChannelsInv, CommandInv, EventInv, LiveRates
<1>3. ScreenInv
  BY <1>1 DEF ChatInit, ScreenInv
<1>4. VaultInv /\ BandInv
  <2>1. /\ begun = 1 /\ conversation = 1 /\ strayed = FALSE /\ sessions = << >> /\ row = 0
        /\ band = 0 /\ armed = 0
    BY <1>1 DEF ChatInit, NoChat
  <2>2. Vault(sessions, begun) /\ Len(sessions) = 0
    BY <2>1 DEF Vault
  <2>3. strayed \in BOOLEAN
    BY <2>1
  <2>4. begun \in Chats /\ conversation \in 1..begun /\ row \in 0..Len(sessions)
        /\ Len(sessions) <= MaxSessions
    BY <2>1, <2>2, ChatConstants DEF Chats
  <2>5. BandInv
    BY <2>1 DEF BandInv
  <2>6. QED
    BY <2>2, <2>3, <2>4, <2>5 DEF VaultInv
<1>5. AnalyzerInv
  <2>1. "nothing" \in Runs
    BY DEF Runs
  <2>2. \E for : analyzer = [does |-> "nothing", for |-> for]
    BY <1>1 DEF ChatInit, Idle
  <2>3. QED
    BY <2>1, <2>2 DEF AnalyzerInv
<1>6. StagesInv
  <2>1. loops = << >> /\ spawned = 0
    BY <1>1 DEF LiveInit
  <2>2. DOMAIN loops = {} /\ loops \in [DOMAIN loops -> Stages]
    BY <2>1
  <2>3. QED
    BY <2>1, <2>2, LiveConstants DEF StagesInv
<1>7. FlagsInv
  BY <1>1 DEF LiveInit, FlagsInv
<1>8. CursorInv
  BY <1>1 DEF LaunchInit, CursorInv
<1>9. QED
  BY <1>1, <1>2, <1>3, <1>4, <1>5, <1>6, <1>7, <1>8 DEF TypesInv

LEMMA NextTypesInv ==
  ASSUME GroundInv, TypesInv, [DashboardNext]_vars
  PROVE  TypesInv'
<1>1. WireInv
  BY DEF GroundInv, QuestionInv
<1>2. scope' = scope
  BY DEF DashboardNext, OnlyChat, OnlyLaunch, OnlyLive, OnlyClip, DrainShown, NoPage, Worker,
         vars, pageVars
<1>3. ChannelsInv'
  BY <1>1, NextChannelsInv DEF TypesInv
<1>4. ScreenInv' /\ VaultInv' /\ BandInv' /\ AnalyzerInv'
  BY ScreenKept, VaultKept, BandKept, AnalyzerKept DEF TypesInv
<1>5. StagesInv' /\ FlagsInv'
  BY NextStagesInv, NextFlagsInv DEF TypesInv
<1>6. CursorInv'
  BY NextCursorInv DEF TypesInv, GroundInv
<1>7. QED
  BY <1>2, <1>3, <1>4, <1>5, <1>6 DEF TypesInv

LEMMA TypesFollow == ASSUME GroundInv, TypesInv, ClipTypeOK PROVE DashboardTypeOK
<1>1. WorkerTypeOK /\ ChatTypeOK
  BY WorkerTypes, ChatTypes DEF GroundInv, TypesInv
<1>2. LaunchTypeOK /\ LiveTypeOK
  BY PaneTypes, LiveTypes DEF GroundInv, TypesInv, ChannelsInv
<1>3. QED
  BY <1>1, <1>2 DEF TypesInv, DashboardTypeOK

(* Every variable has its type: no channel is over its capacity, the vault *)
(* has one session of a chat and no more than it may keep, the cursors of  *)
(* the vault and of the launches page are on a row that is there.          *)
THEOREM DashboardTypes == DashboardSpec => []DashboardTypeOK
<1>1. DashboardInit => GroundInv /\ TypesInv
  BY InitPane, InitQuestionInv, InitLoopInv, InitTypesInv DEF GroundInv
<1>2. GroundInv /\ [DashboardNext]_vars => GroundInv'
  BY NextQuestionInv, NextReplies, NextPaneInv, NextLoopInv DEF GroundInv
<1>3. GroundInv /\ TypesInv /\ [DashboardNext]_vars => TypesInv'
  BY NextTypesInv
<1>4. GroundInv /\ TypesInv /\ ClipTypeOK => DashboardTypeOK
  BY TypesFollow
<1>5. QED
  BY <1>1, <1>2, <1>3, <1>4, ClipTypes, PTL DEF DashboardSpec
=============================================================================
