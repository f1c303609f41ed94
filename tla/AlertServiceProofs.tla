------------------------- MODULE AlertServiceProofs -------------------------
(* Proofs about AlertService, for any fingerprints, identities,            *)
(* generations and marks: its types, what engine, table and snapshot agree *)
(* on between two ticks, and that the tray remembers nothing the table     *)
(* could fall behind.                                                      *)
EXTENDS AlertService, WellFoundedInduction, TLAPS

-----------------------------------------------------------------------------
(* The inductive invariant. A restart makes the engine remember the newest *)
(* row, so identities are never reused and a generation of the engine is   *)
(* never behind that of the row it is going to replace.                    *)

Identified ==
  \A k \in Keys :
    /\ Open(k) => last[k] = Engine!Nothing /\ ledger[k].n <= minted[k]
    /\ last[k] # Engine!Nothing =>
         /\ last[k].n <= minted[k]
         /\ store[<<k, last[k].n>>].gen <= last[k].gen
    /\ \A n \in 1..MaxIds : n > minted[k] => store[<<k, n>>] = Absent

(* The table has the engine's incident open, and nothing else.             *)
Settled(k) ==
  /\ \A n \in 1..MaxIds : store[<<k, n>>].open <=> Open(k) /\ ledger[k].n = n
  /\ Open(k) => store[<<k, ledger[k].n>>].gen = ledger[k].gen

(* The row about to be written makes it so.                                *)
Settling(k) ==
  /\ \/ /\ Open(k) /\ batch[k].open
        /\ batch[k].n = ledger[k].n /\ batch[k].gen = ledger[k].gen
     \/ /\ ~Open(k) /\ ~batch[k].open
        /\ last[k] = [n |-> batch[k].n, gen |-> batch[k].gen]
  /\ store[<<k, batch[k].n>>].gen <= batch[k].gen
  /\ \A n \in 1..MaxIds : n # batch[k].n => ~store[<<k, n>>].open

Ticking ==
  \A k \in Keys :
    /\ pc # "evaluated" => batch[k] = None
    /\ batch[k] = None => Settled(k)
    /\ batch[k] # None => Settling(k)
    /\ pc # "idle" =>
         /\ view[k].n = ledger[k].n
         /\ Open(k) => view[k].gen = ledger[k].gen
    /\ pc = "idle" => snapshot[k].n = ledger[k].n

Durable(p) == store[p[1]] # Absent /\ store[p[1]].gen >= p[2]

ShownIsDurable ==
  \A k \in Keys : snapshot[k] # None =>
    Pair(k, snapshot[k]) \in early \/ Durable(Pair(k, snapshot[k]))

Requested ==
  request # Idle =>
    /\ store[<<request.key, request.n>>] # Absent
    /\ request.alert # None => request.alert.n = request.n

ServiceInv ==
  TypeOK /\ Identified /\ Ticking /\ ShownIsDurable /\ Requested /\ SeenIsDurable

(* Values and the signs of their absence.                                  *)
LEMMA Signs ==
  /\ \A x \in Shown : x # None /\ x.n \in 1..MaxIds /\ x.gen \in 0..MaxGen
  /\ \A x \in Written : x # None /\ x.n \in 1..MaxIds /\ x.gen \in 0..MaxGen
  /\ \A x \in Stored : x # Absent
  /\ \A x \in Engine!Incidents : x # Engine!Closed /\ x.n \in 1..MaxIds /\ x.gen \in 0..MaxGen
  /\ \A x \in Engine!Resolved : x # Engine!Nothing /\ x.n \in 1..MaxIds /\ x.gen \in 0..MaxGen
<1>1. \A x \in Shown : x.n # 0
  BY ServiceConstants DEF Shown
<1>2. \A x \in Written : x.n # 0
  BY ServiceConstants DEF Written
<1>3. \A x \in Engine!Incidents : x.n # 0
  BY ServiceConstants DEF Engine!Incidents
<1>4. \A x \in Engine!Resolved : x.n # 0
  BY ServiceConstants DEF Engine!Resolved
<1>5. None.n = 0 /\ Engine!Closed.n = 0 /\ Engine!Nothing.n = 0
  BY DEF None, Engine!Closed, Engine!Nothing
<1>6. \A x \in Stored : "absent" \notin x.marks
  BY ServiceConstants DEF Stored
<1>7. "absent" \in Absent.marks
  BY DEF Absent
<1>8. QED
  BY <1>1, <1>2, <1>3, <1>4, <1>5, <1>6, <1>7
     DEF Shown, Written, Engine!Incidents, Engine!Resolved

(* What the types say of one fingerprint.                                  *)
LEMMA Values ==
  ASSUME TypeOK, NEW k \in Keys
  PROVE  /\ ledger[k] \in Engine!Incidents \cup {Engine!Closed}
         /\ ledger[k].n \in 0..MaxIds /\ ledger[k].gen \in 0..MaxGen
         /\ last[k] \in Engine!Resolved \cup {Engine!Nothing}
         /\ minted[k] \in 0..MaxIds
         /\ marks[k] \in SUBSET Marks
         /\ batch[k] \in Written \cup {None}
         /\ view[k] \in Shown \cup {None}
         /\ snapshot[k] \in Shown \cup {None}
<1>1. /\ ledger[k] \in Engine!Incidents \cup {Engine!Closed}
      /\ last[k] \in Engine!Resolved \cup {Engine!Nothing}
      /\ minted[k] \in 0..MaxIds
      /\ marks[k] \in SUBSET Marks
      /\ batch[k] \in Written \cup {None}
      /\ view[k] \in Shown \cup {None}
      /\ snapshot[k] \in Shown \cup {None}
  BY DEF TypeOK, Engine!TypeOK
<1>2. ledger[k].n \in 0..MaxIds /\ ledger[k].gen \in 0..MaxGen
  BY <1>1, Signs, ServiceConstants DEF Engine!Closed
<1>3. QED
  BY <1>1, <1>2

LEMMA Rows ==
  ASSUME TypeOK, NEW k \in Keys, NEW n \in 1..MaxIds
  PROVE  /\ <<k, n>> \in Ids
         /\ store[<<k, n>>] \in Stored \cup {Absent}
         /\ store[<<k, n>>].gen \in 0..MaxGen
         /\ store[<<k, n>>].open \in BOOLEAN
         /\ store[<<k, n>>].open => store[<<k, n>>] # Absent
<1>1. <<k, n>> \in Ids
  BY DEF Ids
<1>2. store[<<k, n>>] \in Stored \cup {Absent}
  BY <1>1 DEF TypeOK
<1>3. Absent.gen = 0 /\ Absent.open = FALSE
  BY DEF Absent
<1>4. \A x \in Stored : x.gen \in 0..MaxGen /\ x.open \in BOOLEAN
  BY DEF Stored
<1>5. store[<<k, n>>] = Absent =>
        store[<<k, n>>].gen \in 0..MaxGen /\ store[<<k, n>>].open = FALSE
  BY <1>3, ServiceConstants
<1>6. QED
  BY <1>1, <1>2, <1>4, <1>5

(* A row rebuilt, marked or resolved is a row.                             *)
LEMMA RowsMade ==
  /\ \A g \in 0..MaxGen, open \in BOOLEAN, ms \in SUBSET Marks :
       /\ [gen |-> g, open |-> open, marks |-> ms] \in Stored
       /\ [gen |-> g, open |-> open, marks |-> ms].gen = g
       /\ [gen |-> g, open |-> open, marks |-> ms].open = open
  /\ \A x \in Stored, ms \in SUBSET Marks :
       /\ [x EXCEPT !.marks = ms] \in Stored
       /\ [x EXCEPT !.marks = ms].gen = x.gen /\ [x EXCEPT !.marks = ms].open = x.open
  /\ \A x \in Stored :
       /\ [x EXCEPT !.open = FALSE] \in Stored
       /\ [x EXCEPT !.open = FALSE].gen = x.gen /\ [x EXCEPT !.open = FALSE].open = FALSE
<1>1. \A g \in 0..MaxGen, open \in BOOLEAN, ms \in SUBSET Marks :
        /\ [gen |-> g, open |-> open, marks |-> ms] \in Stored
        /\ [gen |-> g, open |-> open, marks |-> ms].gen = g
        /\ [gen |-> g, open |-> open, marks |-> ms].open = open
  BY DEF Stored
<1>2. \A x \in Stored, ms \in SUBSET Marks :
        /\ [x EXCEPT !.marks = ms] \in Stored
        /\ [x EXCEPT !.marks = ms].gen = x.gen /\ [x EXCEPT !.marks = ms].open = x.open
  BY DEF Stored
<1>3. \A x \in Stored :
        /\ [x EXCEPT !.open = FALSE] \in Stored
        /\ [x EXCEPT !.open = FALSE].gen = x.gen /\ [x EXCEPT !.open = FALSE].open = FALSE
  BY DEF Stored
<1>4. QED
  BY <1>1, <1>2, <1>3

(* A request being served is a record of one.                              *)
LEMMA Serving ==
  ASSUME TypeOK, request # Idle
  PROVE  request \in Requests
BY DEF TypeOK

(* The newest row is one of the rows.                                      *)
LEMMA NewestStored ==
  ASSUME NEW k, StoredIds(k) # {}
  PROVE  Newest(k) \in StoredIds(k)
<1> DEFINE S == StoredIds(k)
           T == {MaxIds - n : n \in S}
<1>1. S \subseteq 1..MaxIds
  BY DEF StoredIds
<1>2. T \subseteq Nat /\ T # {}
  BY <1>1, ServiceConstants
<1> HIDE DEF T
<1>3. PICK x \in T : \A y \in T : <<y, x>> \notin OpToRel(<, Nat)
  BY <1>2, NatLessThanWellFounded, WFMin, Zenon
<1>4. \A y \in T : ~(y < x)
  BY <1>2, <1>3, Zenon DEF OpToRel
<1>5. \A y \in T : x <= y
  BY <1>2, <1>4
<1> USE DEF T
<1>6. PICK n \in S : x = MaxIds - n
  BY <1>3
<1>7. \A m \in S : m <= n
  <2> TAKE m \in S
  <2>1. MaxIds - m \in T
    OBVIOUS
  <2>2. MaxIds - n <= MaxIds - m
    BY <1>5, <1>6, <2>1
  <2>3. QED
    BY <1>1, <2>2, ServiceConstants
<1>8. QED
  BY <1>6, <1>7 DEF Newest

-----------------------------------------------------------------------------
(* The start.                                                              *)

LEMMA ServiceInit == Init => ServiceInv
<1> SUFFICES ASSUME Init PROVE ServiceInv
  OBVIOUS
<1>1. TypeOK
  <2>1. Engine!TypeOK
    BY ServiceConstants DEF Init, Engine!Init, Engine!TypeOK
  <2>2. QED
    BY <2>1 DEF Init, TypeOK
<1>2. /\ \A k \in Keys : /\ ledger[k] = Engine!Closed /\ last[k] = Engine!Nothing
                         /\ batch[k] = None /\ snapshot[k] = None /\ minted[k] = 0
      /\ pc = "idle" /\ request = Idle /\ seen = {}
  BY DEF Init, Engine!Init
<1>3. \A k \in Keys, n \in 1..MaxIds : store[<<k, n>>] = Absent
  BY DEF Init, Ids
<1>4. Identified
  BY <1>2, <1>3 DEF Identified, Open
<1>5. Ticking
  <2> SUFFICES ASSUME NEW k \in Keys
      PROVE  Settled(k) /\ snapshot[k].n = ledger[k].n
    BY <1>2 DEF Ticking
  <2>1. QED
    BY <1>2, <1>3 DEF Settled, Open, Absent, None, Engine!Closed
<1>6. ShownIsDurable /\ Requested /\ SeenIsDurable
  BY <1>2 DEF ShownIsDurable, Requested, SeenIsDurable
<1>7. QED
  BY <1>1, <1>4, <1>5, <1>6 DEF ServiceInv

-----------------------------------------------------------------------------
(* Rows never vanish and generations never fall, so what is durable stays. *)

Grows ==
  \A i \in Ids : store[i] # Absent => store'[i] # Absent /\ store'[i].gen >= store[i].gen

LEMMA StaysDurable ==
  ASSUME TypeOK, TypeOK', Grows, NEW p \in Ids \X (0..MaxGen), Durable(p)
  PROVE  Durable(p)'
<1>1. PICK k \in Keys, n \in 1..MaxIds : p[1] = <<k, n>>
  BY DEF Ids
<1>2. /\ store[<<k, n>>].gen \in Nat /\ store'[<<k, n>>].gen \in Nat
      /\ p[1] \in Ids /\ p[2] \in Nat
  BY <1>1, Rows, ServiceConstants DEF TypeOK, Stored, Absent
<1>3. QED
  BY <1>1, <1>2 DEF Durable, Grows

LEMMA StillShown ==
  ASSUME TypeOK, TypeOK', Grows, ShownIsDurable, SeenIsDurable,
         snapshot' = snapshot, seen' = seen, early' = early
  PROVE  ShownIsDurable' /\ SeenIsDurable'
<1>1. ShownIsDurable'
  <2> SUFFICES ASSUME NEW k \in Keys, snapshot[k] # None, Pair(k, snapshot[k]) \notin early
      PROVE  Durable(Pair(k, snapshot[k]))'
    BY DEF ShownIsDurable, Pair
  <2>1. Pair(k, snapshot[k]) \in Ids \X (0..MaxGen)
    BY Values, Signs DEF Pair, Ids
  <2>2. Durable(Pair(k, snapshot[k]))
    BY DEF ShownIsDurable
  <2> DEFINE p == Pair(k, snapshot[k])
  <2>3. p' = p
    BY DEF Pair
  <2>4. Durable(p)'
    BY <2>1, <2>2, <2>3, StaysDurable DEF Durable, Grows
  <2>5. QED
    BY <2>4
<1>2. SeenIsDurable'
  <2> SUFFICES ASSUME NEW p \in seen \ early PROVE Durable(p)'
    BY DEF SeenIsDurable, Durable
  <2>1. p \in Ids \X (0..MaxGen) /\ Durable(p)
    BY DEF SeenIsDurable, Durable, TypeOK
  <2>2. QED
    BY <2>1, StaysDurable
<1>3. QED
  BY <1>1, <1>2

-----------------------------------------------------------------------------
(* An evaluation: one of the ledger's five steps for each fingerprint.     *)

LEMMA EvaluateTypes ==
  ASSUME TypeOK, Evaluate
  PROVE  TypeOK'
<1>1. Engine!TypeOK'
  <2>1. /\ ledger' \in [Keys -> Engine!Incidents \cup {Engine!Closed}]
        /\ last' \in [Keys -> Engine!Resolved \cup {Engine!Nothing}]
    BY DEF Evaluate
  <2>2. minted' \in [Keys -> 0..MaxIds]
    BY ServiceConstants DEF Evaluate, TypeOK, Engine!TypeOK
  <2>3. told' \subseteq Keys \X (1..MaxIds) \X (0..MaxGen)
    <3>1. \A k \in Keys : ledger'[k].notify => ledger'[k] \in Engine!Incidents
      BY <2>1 DEF Engine!Closed
    <3>2. \A k \in Keys : ledger'[k].notify =>
             ledger'[k].n \in 1..MaxIds /\ ledger'[k].gen \in 0..MaxGen
      BY <3>1, Signs
    <3>3. QED
      BY <3>2 DEF Evaluate, Engine!Evaluate, TypeOK, Engine!TypeOK
  <2>4. QED
    BY <2>1, <2>2, <2>3 DEF Engine!TypeOK
<1>2. marks' \in [Keys -> SUBSET Marks]
  BY DEF Evaluate, TypeOK
<1>3. batch' \in [Keys -> Written \cup {None}]
  <2> SUFFICES ASSUME NEW k \in Keys, NEW touched \in SUBSET Keys
      PROVE  Changed(k, k \in touched) \in Written \cup {None}
    BY DEF Evaluate
  <2>1. /\ ledger[k] \in Engine!Incidents \cup {Engine!Closed}
        /\ ledger'[k] \in Engine!Incidents \cup {Engine!Closed}
        /\ marks[k] \in SUBSET Marks /\ marks'[k] \in SUBSET Marks
    BY <1>1, <1>2 DEF TypeOK, Engine!TypeOK
  <2>2. \A x \in Engine!Incidents, ms \in SUBSET Marks, open \in BOOLEAN :
          [n |-> x.n, gen |-> x.gen, open |-> open, marks |-> ms] \in Written
    BY Signs DEF Written
  <2>3. QED
    BY <2>1, <2>2 DEF Changed, Open
<1>4. view' \in [Keys -> Shown \cup {None}]
  <2>1. \A x \in Engine!Incidents, ms \in SUBSET Marks : Clone(x, ms) \in Shown
    BY DEF Clone, Shown, Engine!Incidents
  <2>2. \A k \in Keys : /\ ledger'[k] \in Engine!Incidents \cup {Engine!Closed}
                        /\ marks'[k] \in SUBSET Marks
    BY <1>1, <1>2 DEF Engine!TypeOK
  <2>3. QED
    BY <2>1, <2>2 DEF Evaluate
<1>5. QED
  BY <1>1, <1>2, <1>3, <1>4 DEF Evaluate, TypeOK, trayVars

(* What an evaluation does to one fingerprint.                             *)
LEMMA EvaluateOne ==
  ASSUME ServiceInv, Evaluate, NEW k \in Keys
  PROVE  /\ Open(k)' => last'[k] = Engine!Nothing /\ ledger'[k].n <= minted'[k]
         /\ last'[k] # Engine!Nothing =>
              /\ last'[k].n <= minted'[k]
              /\ store[<<k, last'[k].n>>].gen <= last'[k].gen
         /\ minted[k] <= minted'[k]
         /\ batch'[k] = None => Settled(k)'
         /\ batch'[k] # None => Settling(k)'
<1> DEFINE o == <<ledger'[k], last'[k], minted'[k]>>
<1>1. PICK touched \in SUBSET Keys : batch'[k] = Changed(k, k \in touched)
  BY DEF Evaluate
<1>2. /\ pc = "idle" /\ store' = store
      /\ Engine!Step(k, o)
  BY DEF Evaluate, Engine!Evaluate
<1>3. /\ Settled(k)
      /\ Open(k) => last[k] = Engine!Nothing /\ ledger[k].n <= minted[k]
      /\ last[k] # Engine!Nothing =>
           last[k].n <= minted[k] /\ store[<<k, last[k].n>>].gen <= last[k].gen
      /\ \A n \in 1..MaxIds : n > minted[k] => store[<<k, n>>] = Absent
  BY <1>2 DEF ServiceInv, Ticking, Identified
<1>4. /\ ledger[k] \in Engine!Incidents \cup {Engine!Closed}
      /\ ledger'[k] \in Engine!Incidents \cup {Engine!Closed}
      /\ last[k] \in Engine!Resolved \cup {Engine!Nothing}
      /\ last'[k] \in Engine!Resolved \cup {Engine!Nothing}
      /\ minted[k] \in 0..MaxIds /\ minted'[k] \in 0..MaxIds
  BY EvaluateTypes, Values DEF ServiceInv, TypeOK, Engine!TypeOK
<1>5. \A n \in 1..MaxIds : /\ store[<<k, n>>].gen \in 0..MaxGen
                           /\ store[<<k, n>>].open \in BOOLEAN
                           /\ store[<<k, n>>].open => store[<<k, n>>] # Absent
  BY Rows DEF ServiceInv
<1>6. Engine!Closed.n = 0 /\ Engine!Nothing.n = 0 /\ None.n = 0
  BY DEF Engine!Closed, Engine!Nothing, None
<1>7. CASE Engine!Stays(k, o)
  <2>1. ~Open(k) /\ ~Open(k)' /\ last'[k] \in {last[k], Engine!Nothing} /\ minted'[k] = minted[k]
    BY <1>7 DEF Engine!Stays, Open
  <2>2. batch'[k] = None
    BY <1>1, <2>1 DEF Changed, Open
  <2>3. Settled(k)'
    BY <1>2, <1>3, <2>1 DEF Settled
  <2>4. QED
    BY <1>3, <1>4, <2>1, <2>2, <2>3
<1>8. CASE Engine!Mints(k, o)
  <2>1. /\ ~Open(k) /\ ledger'[k].n = minted[k] + 1 /\ ledger'[k].gen = 0
        /\ last'[k] = Engine!Nothing /\ minted'[k] = minted[k] + 1
    BY <1>8 DEF Engine!Mints, Open
  <2>2. Open(k)' /\ ledger'[k] # ledger[k]
    BY <1>4, <1>6, <2>1 DEF Open
  <2>3. /\ batch'[k] # None /\ batch'[k].n = minted[k] + 1 /\ batch'[k].gen = 0
        /\ batch'[k].open
    BY <1>1, <1>4, <1>6, <2>1, <2>2 DEF Changed, Open
  <2>4. minted[k] + 1 \in 1..MaxIds
    BY <1>4, <2>1, ServiceConstants
  <2>5. store[<<k, minted[k] + 1>>].gen = 0
    BY <1>3, <1>4, <2>4 DEF Absent
  <2>6. \A n \in 1..MaxIds : ~store[<<k, n>>].open
    BY <1>3, <1>5, <2>1 DEF Settled
  <2>7. Settling(k)'
    BY <1>2, <2>1, <2>2, <2>3, <2>5, <2>6 DEF Settling
  <2>8. QED
    BY <1>4, <2>1, <2>3, <2>7
<1>9. CASE Engine!Reopens(k, o)
  <2>1. /\ ~Open(k) /\ last[k] # Engine!Nothing
        /\ ledger'[k].n = last[k].n /\ ledger'[k].gen \in {last[k].gen, last[k].gen + 1}
        /\ last'[k] = Engine!Nothing /\ minted'[k] = minted[k]
    BY <1>9 DEF Engine!Reopens, Engine!Renotifies, Open
  <2>2. last[k].n \in 1..MaxIds /\ last[k].gen \in 0..MaxGen
    BY <1>4, <2>1, Signs
  <2>3. Open(k)' /\ ledger'[k] # ledger[k]
    BY <1>6, <2>1, <2>2 DEF Open
  <2>4. /\ batch'[k].n = ledger'[k].n /\ batch'[k].gen = ledger'[k].gen
        /\ batch'[k].open
    BY <1>1, <2>1, <2>3 DEF Changed, Open
  <2>5. batch'[k] # None
    BY <1>6, <2>1, <2>2, <2>4
  <2>6. \A n \in 1..MaxIds : ~store[<<k, n>>].open
    BY <1>3, <1>5, <2>1 DEF Settled
  <2>7. store[<<k, last[k].n>>].gen <= ledger'[k].gen
    BY <1>3, <1>5, <2>1, <2>2
  <2>8. Settling(k)'
    BY <1>2, <2>1, <2>3, <2>4, <2>6, <2>7 DEF Settling
  <2>9. QED
    BY <1>3, <1>4, <2>1, <2>5, <2>8
<1>10. CASE Engine!Updates(k, o)
  <2>1. /\ Open(k) /\ ledger'[k].n = ledger[k].n
        /\ ledger'[k].gen \in {ledger[k].gen, ledger[k].gen + 1}
        /\ last'[k] = last[k] /\ minted'[k] = minted[k]
    BY <1>10 DEF Engine!Updates, Engine!Renotifies, Open
  <2>2. ledger[k].n \in 1..MaxIds /\ ledger[k].gen \in 0..MaxGen
    BY <1>4, <2>1, Signs DEF Open
  <2>3. Open(k)'
    BY <1>6, <2>1, <2>2 DEF Open
  <2>4. last[k] = Engine!Nothing
    BY <1>3, <2>1
  <2>5. CASE batch'[k] = None
    <3>1. ledger'[k] = ledger[k]
      <4>1. CASE ledger'[k] # ledger[k]
        <5>1. batch'[k].n = ledger'[k].n
          BY <1>1, <2>1, <2>3, <4>1 DEF Changed, Open
        <5>2. QED
          BY <1>6, <2>1, <2>2, <2>5, <5>1
      <4>2. QED
        BY <4>1
    <3>2. Settled(k)'
      BY <1>2, <1>3, <3>1 DEF Settled, Open
    <3>3. QED
      BY <1>3, <1>4, <2>1, <2>4, <2>5, <3>2
  <2>6. CASE batch'[k] # None
    <3>1. /\ batch'[k].n = ledger'[k].n /\ batch'[k].gen = ledger'[k].gen
          /\ batch'[k].open
      BY <1>1, <2>1, <2>3, <2>6 DEF Changed, Open
    <3>2. \A n \in 1..MaxIds : n # ledger[k].n => ~store[<<k, n>>].open
      BY <1>3, <1>5 DEF Settled
    <3>3. store[<<k, ledger[k].n>>].gen <= ledger'[k].gen
      BY <1>3, <2>1, <2>2 DEF Settled
    <3>4. Settling(k)'
      BY <1>2, <2>1, <2>3, <3>1, <3>2, <3>3 DEF Settling
    <3>5. QED
      BY <1>3, <1>4, <2>1, <2>4, <2>6, <3>4
  <2>7. QED
    BY <2>5, <2>6
<1>11. CASE Engine!Closes(k, o)
  <2>1. /\ Open(k) /\ ~Open(k)' /\ ledger'[k] = Engine!Closed
        /\ last'[k] = [n |-> ledger[k].n, gen |-> ledger[k].gen]
        /\ minted'[k] = minted[k]
    BY <1>11 DEF Engine!Closes, Open
  <2>2. ledger[k].n \in 1..MaxIds /\ ledger[k].gen \in 0..MaxGen
    BY <1>4, <2>1, Signs DEF Open
  <2>3. /\ batch'[k].n = ledger[k].n /\ batch'[k].gen = ledger[k].gen
        /\ batch'[k].open = FALSE
    BY <1>1, <2>1 DEF Changed
  <2>4. batch'[k] # None
    BY <1>6, <2>2, <2>3
  <2>5. \A n \in 1..MaxIds : n # ledger[k].n => ~store[<<k, n>>].open
    BY <1>3, <1>5 DEF Settled
  <2>6. store[<<k, ledger[k].n>>].gen <= ledger[k].gen
    BY <1>3, <2>1, <2>2 DEF Settled
  <2>7. Settling(k)'
    BY <1>2, <2>1, <2>3, <2>5, <2>6 DEF Settling
  <2>8. QED
    BY <1>3, <1>4, <2>1, <2>4, <2>6, <2>7
<1>12. QED
  BY <1>2, <1>7, <1>8, <1>9, <1>10, <1>11 DEF Engine!Step

LEMMA EvaluateKeeps ==
  ASSUME ServiceInv, Evaluate
  PROVE  ServiceInv'
<1>1. /\ store' = store /\ snapshot' = snapshot /\ request' = request
      /\ seen' = seen /\ early' = early /\ pc' = "evaluated"
  BY DEF Evaluate, trayVars
<1>2. TypeOK /\ TypeOK'
  BY EvaluateTypes DEF ServiceInv
<1>3. Identified'
  <2> SUFFICES ASSUME NEW k \in Keys
      PROVE  /\ Open(k)' => last'[k] = Engine!Nothing /\ ledger'[k].n <= minted'[k]
             /\ last'[k] # Engine!Nothing =>
                  /\ last'[k].n <= minted'[k]
                  /\ store[<<k, last'[k].n>>].gen <= last'[k].gen
             /\ \A n \in 1..MaxIds : n > minted'[k] => store[<<k, n>>] = Absent
    BY <1>1 DEF Identified
  <2>1. minted[k] \in Nat /\ minted'[k] \in Nat
    BY <1>2, ServiceConstants DEF TypeOK, Engine!TypeOK
  <2>2. \A n \in 1..MaxIds : n > minted[k] => store[<<k, n>>] = Absent
    BY DEF ServiceInv, Identified
  <2>3. QED
    BY <2>1, <2>2, EvaluateOne
<1>4. Ticking'
  <2> SUFFICES ASSUME NEW k \in Keys
      PROVE  /\ batch'[k] = None => Settled(k)'
             /\ batch'[k] # None => Settling(k)'
             /\ view'[k].n = ledger'[k].n
             /\ Open(k)' => view'[k].gen = ledger'[k].gen
    BY <1>1 DEF Ticking
  <2>1. view'[k] = IF ledger'[k] = Engine!Closed THEN None ELSE Clone(ledger'[k], marks'[k])
    BY DEF Evaluate
  <2>2. view'[k].n = ledger'[k].n /\ (Open(k)' => view'[k].gen = ledger'[k].gen)
    BY <2>1 DEF Clone, None, Engine!Closed, Open
  <2>3. QED
    BY <2>2, EvaluateOne
<1>5. ShownIsDurable' /\ SeenIsDurable'
  BY <1>1, <1>2, StillShown DEF ServiceInv, Grows, ShownIsDurable, SeenIsDurable, Durable, Pair
<1>6. Requested'
  BY <1>1 DEF ServiceInv, Requested
<1>7. QED
  BY <1>2, <1>3, <1>4, <1>5, <1>6 DEF ServiceInv

-----------------------------------------------------------------------------
(* The rest of the tick: what was settling is settled, then shown.         *)

LEMMA UpsertKeeps ==
  ASSUME ServiceInv, Upsert
  PROVE  ServiceInv'
<1> DEFINE Changes(k, n) == batch[k] # None /\ batch[k].n = n
<1>1. /\ pc = "evaluated" /\ pc' = "stored" /\ batch' = [k \in Keys |-> None]
      /\ UNCHANGED <<ledger, last, minted, told, marks, view, snapshot, request,
                     seen, initialized, early>>
  BY DEF Upsert, engineVars, trayVars
<1>2. \A k \in Keys, n \in 1..MaxIds :
        store'[<<k, n>>] =
          IF Changes(k, n)
          THEN [gen |-> batch[k].gen, open |-> batch[k].open, marks |-> batch[k].marks]
          ELSE store[<<k, n>>]
  BY DEF Upsert, Row, Ids
<1>3. \A k \in Keys, n \in 1..MaxIds : Changes(k, n) =>
        /\ store'[<<k, n>>] \in Stored
        /\ store'[<<k, n>>].gen = batch[k].gen
        /\ store'[<<k, n>>].open = batch[k].open
  <2> SUFFICES ASSUME NEW k \in Keys, NEW n \in 1..MaxIds, Changes(k, n)
      PROVE  /\ store'[<<k, n>>] \in Stored
             /\ store'[<<k, n>>].gen = batch[k].gen
             /\ store'[<<k, n>>].open = batch[k].open
    OBVIOUS
  <2>1. batch[k] \in Written
    BY Values DEF ServiceInv
  <2>2. batch[k].gen \in 0..MaxGen /\ batch[k].open \in BOOLEAN
        /\ batch[k].marks \in SUBSET Marks
    BY <2>1 DEF Written
  <2>3. store'[<<k, n>>] =
          [gen |-> batch[k].gen, open |-> batch[k].open, marks |-> batch[k].marks]
    BY <1>2
  <2>4. QED
    BY <2>2, <2>3, RowsMade
<1>4. TypeOK /\ TypeOK'
  <2>1. store' \in [Ids -> Stored \cup {Absent}]
    <3>1. store' = [i \in Ids |-> Row(i)]
      BY DEF Upsert
    <3>2. ASSUME NEW i \in Ids PROVE store'[i] \in Stored \cup {Absent}
      <4>1. PICK k \in Keys, n \in 1..MaxIds : i = <<k, n>>
        BY DEF Ids
      <4>2. QED
        BY <1>2, <1>3, <4>1, Rows DEF ServiceInv
    <3>3. QED
      BY <3>1, <3>2
  <2>2. QED
    BY <1>1, <2>1 DEF ServiceInv, TypeOK, Engine!TypeOK
<1>5. \A k \in Keys : /\ batch[k] = None => Settled(k)
                      /\ batch[k] # None => Settling(k) /\ batch[k] \in Written
                                            /\ batch[k].n \in 1..MaxIds
  BY <1>1, <1>4, Values, Signs DEF ServiceInv, Ticking
<1>6. Grows
  <2> SUFFICES ASSUME NEW k \in Keys, NEW n \in 1..MaxIds, store[<<k, n>>] # Absent
      PROVE  store'[<<k, n>>] # Absent /\ store'[<<k, n>>].gen >= store[<<k, n>>].gen
    BY DEF Grows, Ids
  <2>1. store[<<k, n>>].gen \in Nat
    BY <1>4, Rows, ServiceConstants
  <2>2. CASE Changes(k, n)
    <3>1. store[<<k, n>>].gen <= batch[k].gen
      BY <1>5, <2>2 DEF Settling
    <3>2. store'[<<k, n>>].gen = batch[k].gen /\ store'[<<k, n>>] # Absent
      BY <1>3, <2>2, Signs
    <3>3. batch[k].gen \in 0..MaxGen
      BY <1>5, <2>2, Signs
    <3>4. QED
      BY <2>1, <3>1, <3>2, <3>3, ServiceConstants
  <2>3. CASE ~Changes(k, n)
    <3>1. store'[<<k, n>>] = store[<<k, n>>]
      BY <1>2, <2>3
    <3>2. QED
      BY <2>1, <3>1
  <2>4. QED
    BY <2>2, <2>3
<1>7. ShownIsDurable' /\ SeenIsDurable'
  BY <1>1, <1>4, <1>6, StillShown DEF ServiceInv
<1>8. \A k \in Keys : Settled(k)'
  <2> SUFFICES ASSUME NEW k \in Keys PROVE Settled(k)'
    OBVIOUS
  <2>1. CASE batch[k] = None
    <3>1. \A n \in 1..MaxIds : store'[<<k, n>>] = store[<<k, n>>]
      BY <1>2, <2>1
    <3>2. Open(k) => ledger[k].n \in 1..MaxIds
      BY <1>4, Values, Signs DEF Open
    <3>3. QED
      BY <1>1, <1>5, <2>1, <3>1, <3>2 DEF Settled, Open
  <2>2. CASE batch[k] # None
    <3>1. \A n \in 1..MaxIds : n # batch[k].n =>
            ~store'[<<k, n>>].open
      BY <1>2, <1>5, <2>2 DEF Settling
    <3>2. /\ store'[<<k, batch[k].n>>].open = batch[k].open
          /\ store'[<<k, batch[k].n>>].gen = batch[k].gen
      BY <1>3, <1>5, <2>2
    <3>3. batch[k].open \in BOOLEAN
      BY <1>5, <2>2 DEF Written
    <3>4. CASE Open(k)
      <4>1. /\ batch[k].open /\ batch[k].n = ledger[k].n /\ batch[k].gen = ledger[k].gen
        BY <1>5, <2>2, <3>4 DEF Settling
      <4>2. QED
        BY <1>1, <3>1, <3>2, <3>4, <4>1 DEF Settled, Open
    <3>5. CASE ~Open(k)
      <4>1. ~batch[k].open
        BY <1>5, <2>2, <3>5 DEF Settling
      <4>2. QED
        BY <1>1, <3>1, <3>2, <3>5, <4>1 DEF Settled, Open
    <3>6. QED
      BY <3>4, <3>5
  <2>3. QED
    BY <2>1, <2>2
<1>9. Identified'
  <2> SUFFICES ASSUME NEW k \in Keys
      PROVE  /\ last[k] # Engine!Nothing => store'[<<k, last[k].n>>].gen <= last[k].gen
             /\ \A n \in 1..MaxIds : n > minted[k] => store'[<<k, n>>] = Absent
    BY <1>1 DEF ServiceInv, Identified, Open
  <2>1. CASE batch[k] = None
    <3>1. \A n \in 1..MaxIds : store'[<<k, n>>] = store[<<k, n>>]
      BY <1>2, <2>1
    <3>2. last[k] # Engine!Nothing => last[k].n \in 1..MaxIds
      BY <1>4, Values, Signs
    <3>3. QED
      BY <3>1, <3>2 DEF ServiceInv, Identified
  <2>2. CASE batch[k] # None
    <3>1. batch[k].n <= minted[k]
      <4>1. CASE Open(k)
        BY <1>5, <2>2, <4>1 DEF Settling, ServiceInv, Identified
      <4>2. CASE ~Open(k)
        <5>1. last[k] = [n |-> batch[k].n, gen |-> batch[k].gen]
          BY <1>5, <2>2, <4>2 DEF Settling
        <5>2. last[k] # Engine!Nothing
          BY <1>5, <2>2, <5>1 DEF Engine!Nothing
        <5>3. last[k].n <= minted[k]
          BY <5>2 DEF ServiceInv, Identified
        <5>4. QED
          BY <5>1, <5>3
      <4>3. QED
        BY <4>1, <4>2
    <3>2. \A n \in 1..MaxIds : n > minted[k] => store'[<<k, n>>] = Absent
      <4> SUFFICES ASSUME NEW n \in 1..MaxIds, n > minted[k]
          PROVE  store'[<<k, n>>] = Absent
        OBVIOUS
      <4>1. n # batch[k].n
        BY <1>4, <1>5, <2>2, <3>1, Values
      <4>2. QED
        BY <1>2, <4>1 DEF ServiceInv, Identified
    <3>3. ASSUME last[k] # Engine!Nothing
          PROVE  store'[<<k, last[k].n>>].gen <= last[k].gen
      <4>1. last[k].n \in 1..MaxIds /\ last[k].gen \in Nat
        BY <1>4, <3>3, Values, Signs, ServiceConstants
      <4>2. CASE Changes(k, last[k].n)
        <5>1. last[k] = [n |-> batch[k].n, gen |-> batch[k].gen]
          BY <1>5, <2>2, <3>3 DEF Settling, ServiceInv, Identified
        <5>2. QED
          BY <1>3, <4>1, <4>2, <5>1
      <4>3. CASE ~Changes(k, last[k].n)
        BY <1>2, <3>3, <4>1, <4>3 DEF ServiceInv, Identified
      <4>4. QED
        BY <4>2, <4>3
    <3>4. QED
      BY <3>2, <3>3
  <2>3. QED
    BY <2>1, <2>2
<1>10. Ticking'
  <2> SUFFICES ASSUME NEW k \in Keys
      PROVE  /\ batch'[k] = None /\ Settled(k)'
             /\ view'[k].n = ledger'[k].n
             /\ Open(k)' => view'[k].gen = ledger'[k].gen
    BY <1>1 DEF Ticking
  <2>1. view[k].n = ledger[k].n /\ (Open(k) => view[k].gen = ledger[k].gen)
    BY <1>1 DEF ServiceInv, Ticking
  <2>2. QED
    BY <1>1, <1>8, <2>1 DEF Open
<1>11. Requested'
  <2> SUFFICES ASSUME request # Idle PROVE Requested'
    BY <1>1 DEF Requested
  <2>1. request.key \in Keys /\ request.n \in 1..MaxIds
    BY <1>4, Serving DEF Requests
  <2>2. <<request.key, request.n>> \in Ids
    BY <2>1 DEF Ids
  <2>3. QED
    BY <1>1, <1>6, <2>2 DEF ServiceInv, Requested, Grows
<1>12. QED
  BY <1>4, <1>7, <1>9, <1>10, <1>11 DEF ServiceInv

LEMMA PublishKeeps ==
  ASSUME ServiceInv, Publish
  PROVE  ServiceInv'
<1>1. /\ pc = "stored" /\ pc' = "idle" /\ snapshot' = view
      /\ view' = [k \in Keys |-> None]
      /\ UNCHANGED <<ledger, last, minted, told, marks, batch, store, request,
                     seen, initialized, early>>
  BY DEF Publish, engineVars, trayVars
<1>2. TypeOK /\ TypeOK'
  BY <1>1 DEF ServiceInv, TypeOK, Engine!TypeOK
<1>3. \A k \in Keys : /\ Settled(k) /\ batch[k] = None /\ view[k].n = ledger[k].n
                      /\ Open(k) => view[k].gen = ledger[k].gen
  BY <1>1 DEF ServiceInv, Ticking
<1>4. Ticking'
  BY <1>1, <1>3 DEF Ticking, Settled, Open
<1>5. ShownIsDurable'
  <2> SUFFICES ASSUME NEW k \in Keys, view[k] # None
      PROVE  Durable(Pair(k, view[k]))
    BY <1>1 DEF ShownIsDurable, Pair, Durable
  <2>1. view[k].n \in 1..MaxIds
    BY <1>2, Values, Signs
  <2>2. Open(k)
    BY <1>3, <2>1 DEF Open, Engine!Closed
  <2>3. store[<<k, view[k].n>>].open /\ store[<<k, view[k].n>>].gen = view[k].gen
    BY <1>3, <2>1, <2>2 DEF Settled
  <2>4. store[<<k, view[k].n>>] # Absent /\ store[<<k, view[k].n>>].gen \in Nat
    BY <1>2, <2>1, <2>3, Rows, ServiceConstants
  <2>5. QED
    BY <2>3, <2>4 DEF Durable, Pair
<1>6. Identified' /\ Requested' /\ SeenIsDurable'
  BY <1>1 DEF ServiceInv, Identified, Open, Requested, SeenIsDurable
<1>7. QED
  BY <1>2, <1>4, <1>5, <1>6 DEF ServiceInv

-----------------------------------------------------------------------------
(* The pipe thread: no generation and no openness moves, only marks do.    *)

LEMMA MarkEngineKeeps ==
  ASSUME ServiceInv, NEW k \in Keys, NEW n \in 1..MaxIds, NEW m \in Marks,
         NEW on \in BOOLEAN, MarkEngine(k, n, m, on)
  PROVE  ServiceInv'
<1> DEFINE active == ledger[k].n = n
           ms     == IF active THEN With(marks[k], m, on) ELSE marks[k]
           alert  == IF active THEN Clone(ledger[k], ms) ELSE None
<1>1. /\ store[<<k, n>>] # Absent
      /\ marks' = [marks EXCEPT ![k] = ms]
      /\ request' = [step |-> "engine", key |-> k, n |-> n, mark |-> m, on |-> on,
                     alert |-> alert]
      /\ UNCHANGED <<ledger, last, minted, told, pc, batch, view, store, snapshot,
                     seen, initialized, early>>
  BY DEF MarkEngine, loopVars, trayVars
<1>2. ms \in SUBSET Marks
  BY Values DEF ServiceInv, With
<1>3. alert \in Shown \cup {None}
  <2>1. CASE active
    <3>1. ledger[k] \in Engine!Incidents
      BY <2>1, Values DEF ServiceInv, Engine!Closed
    <3>2. QED
      BY <1>2, <2>1, <3>1 DEF Clone, Shown, Engine!Incidents
  <2>2. QED
    BY <2>1
<1>4. request' \in Requests
  <2> HIDE DEF alert
  <2>1. QED
    BY <1>1, <1>3 DEF Requests
<1>5. TypeOK'
  BY <1>1, <1>2, <1>4 DEF ServiceInv, TypeOK, Engine!TypeOK
<1>6. Requested'
  BY <1>1 DEF Requested, Clone
<1>7. Identified' /\ ShownIsDurable' /\ SeenIsDurable'
  BY <1>1 DEF ServiceInv, Identified, Open, ShownIsDurable, SeenIsDurable, Durable, Pair
<1>8. Ticking'
  BY <1>1 DEF ServiceInv, Ticking, Settled, Settling, Open
<1>9. QED
  BY <1>5, <1>6, <1>7, <1>8 DEF ServiceInv

LEMMA MarkStoreKeeps ==
  ASSUME ServiceInv, MarkStore
  PROVE  ServiceInv'
<1> DEFINE i0 == <<request.key, request.n>>
<1>1. request # Idle /\ request \in Requests
  BY Serving DEF ServiceInv, MarkStore, Idle
<1>2. i0 \in Ids /\ store[i0] # Absent /\ request.mark \in Marks
  BY <1>1 DEF Requests, Ids, ServiceInv, Requested
<1>3. store[i0] \in Stored
  BY <1>2 DEF ServiceInv, TypeOK
<1>4. /\ store' = [store EXCEPT ![i0].marks = With(store[i0].marks, request.mark, request.on)]
      /\ request' = [request EXCEPT !.step = "stored"]
      /\ UNCHANGED <<ledger, last, minted, told, marks, pc, batch, view, snapshot,
                     seen, initialized, early>>
  BY DEF MarkStore, engineVars, loopVars, trayVars
<1>5. /\ store'[i0] \in Stored
      /\ store'[i0].gen = store[i0].gen /\ store'[i0].open = store[i0].open
  <2>1. With(store[i0].marks, request.mark, request.on) \in SUBSET Marks
    BY <1>2, <1>3 DEF Stored, With
  <2>2. store'[i0] =
          [store[i0] EXCEPT !.marks = With(store[i0].marks, request.mark, request.on)]
    BY <1>2, <1>4 DEF ServiceInv, TypeOK
  <2>3. QED
    BY <1>3, <2>1, <2>2, RowsMade
<1>6. \A i \in Ids : /\ store'[i].gen = store[i].gen /\ store'[i].open = store[i].open
                     /\ store'[i] = Absent <=> store[i] = Absent
  BY <1>2, <1>3, <1>4, <1>5, Signs DEF ServiceInv, TypeOK
<1>7. TypeOK'
  <2>1. store' \in [Ids -> Stored \cup {Absent}]
    BY <1>2, <1>4, <1>5 DEF ServiceInv, TypeOK
  <2>2. request' \in Requests
    BY <1>1, <1>4 DEF Requests
  <2>3. QED
    BY <1>4, <2>1, <2>2 DEF ServiceInv, TypeOK, Engine!TypeOK
<1>8. \A k \in Keys, n \in 1..MaxIds :
        /\ store'[<<k, n>>].gen = store[<<k, n>>].gen
        /\ store'[<<k, n>>].open = store[<<k, n>>].open
        /\ store'[<<k, n>>] = Absent <=> store[<<k, n>>] = Absent
  BY <1>6 DEF Ids
<1>9. Grows
  <2>1. \A i \in Ids : store[i].gen \in Nat
    BY Rows, ServiceConstants DEF ServiceInv, Ids
  <2>2. QED
    BY <1>6, <2>1 DEF Grows
<1>10. ShownIsDurable' /\ SeenIsDurable'
  BY <1>4, <1>7, <1>9, StillShown DEF ServiceInv
<1>11. Requested'
  BY <1>1, <1>2, <1>4, <1>6 DEF ServiceInv, Requested, Requests
<1>12. Identified'
  BY <1>4, <1>8, Values, Signs DEF ServiceInv, Identified, Open
<1>13. Ticking'
  <2> SUFFICES ASSUME NEW k \in Keys
      PROVE  /\ Settled(k) => Settled(k)'
             /\ batch[k] # None /\ Settling(k) => Settling(k)'
    BY <1>4 DEF ServiceInv, Ticking, Open
  <2>1. Open(k) => ledger[k].n \in 1..MaxIds
    BY Values, Signs DEF ServiceInv, Open
  <2>2. Settled(k) => Settled(k)'
    BY <1>4, <1>8, <2>1 DEF Settled, Open
  <2>3. batch[k] # None => batch[k].n \in 1..MaxIds
    BY Values, Signs DEF ServiceInv
  <2>4. QED
    BY <1>4, <1>8, <2>2, <2>3 DEF Settling, Open
<1>14. QED
  BY <1>7, <1>10, <1>11, <1>12, <1>13 DEF ServiceInv

LEMMA MarkFailsKeeps ==
  ASSUME ServiceInv, MarkFails
  PROVE  ServiceInv'
<1>1. /\ request' = Idle
      /\ UNCHANGED <<ledger, last, minted, told, marks, pc, batch, view, store, snapshot,
                     seen, initialized, early>>
  BY DEF MarkFails, engineVars, loopVars, trayVars
<1>2. TypeOK' /\ Requested'
  BY <1>1 DEF ServiceInv, TypeOK, Engine!TypeOK, Requested
<1>3. Identified' /\ ShownIsDurable' /\ SeenIsDurable'
  BY <1>1 DEF ServiceInv, Identified, Open, ShownIsDurable, SeenIsDurable, Durable, Pair
<1>4. Ticking'
  BY <1>1 DEF ServiceInv, Ticking, Settled, Settling, Open
<1>5. QED
  BY <1>2, <1>3, <1>4 DEF ServiceInv

(* The clone replaces an item of its own identity, and is remembered as    *)
(* early where it is ahead of the table.                                   *)
LEMMA MarkSnapshotKeeps ==
  ASSUME ServiceInv, MarkSnapshot
  PROVE  ServiceInv'
<1> DEFINE k0    == request.key
           found == request.alert # None /\ snapshot[k0].n = request.n
           late  == found /\ store[<<k0, request.n>>].gen < request.alert.gen
<1>1. request # Idle /\ request \in Requests
  BY Serving DEF ServiceInv, MarkSnapshot, Idle
<1>2. /\ k0 \in Keys /\ request.n \in 1..MaxIds /\ request.alert \in Shown \cup {None}
      /\ store[<<k0, request.n>>] # Absent
      /\ request.alert # None => request.alert.n = request.n
  BY <1>1 DEF Requests, ServiceInv, Requested
<1>3. /\ request' = Idle
      /\ snapshot' = IF found THEN [snapshot EXCEPT ![k0] = request.alert] ELSE snapshot
      /\ early' = IF late THEN early \cup {Pair(k0, request.alert)} ELSE early
      /\ UNCHANGED <<ledger, last, minted, told, marks, pc, batch, view, store,
                     seen, initialized>>
  BY DEF MarkSnapshot, engineVars, loopVars, trayVars
<1>4. TypeOK'
  <2>1. snapshot' \in [Keys -> Shown \cup {None}]
    BY <1>2, <1>3 DEF ServiceInv, TypeOK
  <2>2. late => Pair(k0, request.alert) \in Ids \X (0..MaxGen)
    BY <1>2, Signs DEF Pair, Ids
  <2>3. early' \subseteq Ids \X (0..MaxGen)
    BY <1>3, <2>2 DEF ServiceInv, TypeOK
  <2>4. QED
    BY <1>3, <2>1, <2>3 DEF ServiceInv, TypeOK, Engine!TypeOK
<1>5. \A k \in Keys : snapshot'[k].n = snapshot[k].n
  BY <1>2, <1>3 DEF ServiceInv, TypeOK
<1>6. Ticking'
  <2> SUFFICES ASSUME NEW k \in Keys
      PROVE  pc' = "idle" => snapshot'[k].n = ledger'[k].n
    BY <1>3 DEF ServiceInv, Ticking, Settled, Settling, Open
  <2>1. QED
    BY <1>3, <1>5 DEF ServiceInv, Ticking
<1>7. ShownIsDurable'
  <2> SUFFICES ASSUME NEW k \in Keys, snapshot'[k] # None, Pair(k, snapshot'[k]) \notin early'
      PROVE  Durable(Pair(k, snapshot'[k]))
    BY <1>3 DEF ShownIsDurable, Pair, Durable
  <2>1. CASE found /\ k = k0
    <3>1. snapshot'[k] = request.alert
      BY <1>2, <1>3, <2>1 DEF ServiceInv, TypeOK
    <3>2. ~(store[<<k0, request.n>>].gen < request.alert.gen)
      BY <1>3, <2>1, <3>1
    <3>3. store[<<k0, request.n>>].gen \in Nat /\ request.alert.gen \in Nat
      BY <1>2, <2>1, Rows, Signs, ServiceConstants DEF ServiceInv
    <3>4. QED
      BY <1>2, <2>1, <3>1, <3>2, <3>3 DEF Durable, Pair
  <2>2. CASE ~(found /\ k = k0)
    <3>1. snapshot'[k] = snapshot[k]
      BY <1>3, <2>2 DEF ServiceInv, TypeOK
    <3>2. Pair(k, snapshot[k]) \notin early
      BY <1>3, <3>1
    <3>3. QED
      BY <3>1, <3>2 DEF ServiceInv, ShownIsDurable
  <2>3. QED
    BY <2>1, <2>2
<1>8. SeenIsDurable'
  BY <1>3 DEF ServiceInv, SeenIsDurable
<1>9. Identified' /\ Requested'
  BY <1>3 DEF ServiceInv, Identified, Open, Requested
<1>10. QED
  BY <1>4, <1>6, <1>7, <1>8, <1>9 DEF ServiceInv

-----------------------------------------------------------------------------
(* The tray, and a restart of the service.                                 *)

LEMMA TrayKeeps ==
  ASSUME ServiceInv, Poll \/ TrayRestart
  PROVE  ServiceInv'
<1>1. UNCHANGED <<ledger, last, minted, told, marks, pc, batch, view, store, snapshot,
                  request, early>>
  BY DEF Poll, TrayRestart, engineVars, loopVars
<1>2. /\ seen' \subseteq seen \cup {Pair(k, snapshot[k]) : k \in Notifiable}
      /\ initialized' \in BOOLEAN
  BY DEF Poll, TrayRestart
<1>3. \A k \in Notifiable : /\ Pair(k, snapshot[k]) \in Ids \X (0..MaxGen)
                            /\ Pair(k, snapshot[k]) \in early \/ Durable(Pair(k, snapshot[k]))
  <2> TAKE k \in Notifiable
  <2>1. k \in Keys /\ snapshot[k] # None
    BY DEF Notifiable
  <2>2. QED
    BY <2>1, Values, Signs DEF ServiceInv, ShownIsDurable, Pair, Ids
<1>4. TypeOK'
  BY <1>1, <1>2, <1>3 DEF ServiceInv, TypeOK, Engine!TypeOK
<1>5. SeenIsDurable'
  <2> SUFFICES ASSUME NEW p \in seen', p \notin early PROVE Durable(p)
    BY <1>1 DEF SeenIsDurable, Durable
  <2>1. CASE p \in seen
    BY <2>1 DEF ServiceInv, SeenIsDurable, Durable
  <2>2. CASE p \notin seen
    BY <1>2, <1>3, <2>2
  <2>3. QED
    BY <2>1, <2>2
<1>6. Identified' /\ ShownIsDurable' /\ Requested'
  BY <1>1 DEF ServiceInv, Identified, Open, ShownIsDurable, Requested, Durable, Pair
<1>7. Ticking'
  BY <1>1 DEF ServiceInv, Ticking, Settled, Settling, Open
<1>8. QED
  BY <1>4, <1>5, <1>6, <1>7 DEF ServiceInv

(* What the new engine may reopen is the newest row, at its generation.    *)
LEMMA RestartKeeps ==
  ASSUME ServiceInv, Restart
  PROVE  ServiceInv'
<1>1. /\ ledger' = [k \in Keys |-> Engine!Closed] /\ marks' = [k \in Keys |-> {}]
      /\ pc' = "idle" /\ batch' = [k \in Keys |-> None] /\ view' = [k \in Keys |-> None]
      /\ snapshot' = [k \in Keys |-> None] /\ request' = Idle
      /\ store' = [i \in Ids |-> Resolve(store[i])]
      /\ last' \in [Keys -> Engine!Resolved \cup {Engine!Nothing}]
      /\ \A k \in Keys : last'[k] \in Seeds(k)
      /\ UNCHANGED <<minted, told, seen, initialized, early>>
  BY DEF Restart, trayVars
<1>2. \A i \in Ids : /\ store[i] \in Stored \cup {Absent}
                     /\ store'[i] \in Stored \cup {Absent}
                     /\ store'[i].gen = store[i].gen /\ store[i].gen \in Nat
                     /\ store'[i].open = FALSE
                     /\ store'[i] = Absent <=> store[i] = Absent
  <2> TAKE i \in Ids
  <2>1. store[i] \in Stored \cup {Absent} /\ store'[i] = Resolve(store[i])
    BY <1>1 DEF ServiceInv, TypeOK
  <2>2. CASE store[i] = Absent
    <3>1. Absent.gen = 0 /\ Absent.open = FALSE
      BY DEF Absent
    <3>2. QED
      BY <2>1, <2>2, <3>1 DEF Resolve
  <2>3. CASE store[i] \in Stored
    <3>1. store'[i] = [store[i] EXCEPT !.open = FALSE]
      BY <2>1, <2>3, Signs DEF Resolve
    <3>2. /\ store'[i] \in Stored /\ store'[i].gen = store[i].gen
          /\ store[i].gen \in Nat /\ store'[i].open = FALSE
      <4>1. store[i].gen \in Nat
        BY <2>3, ServiceConstants DEF Stored
      <4>2. QED
        BY <2>3, <3>1, <4>1, RowsMade
    <3>3. QED
      BY <2>1, <2>3, <3>2, Signs
  <2>4. QED
    BY <2>1, <2>2, <2>3
<1>3. TypeOK'
  <2>1. store' \in [Ids -> Stored \cup {Absent}]
    BY <1>1, <1>2
  <2>2. Engine!TypeOK'
    BY <1>1 DEF ServiceInv, TypeOK, Engine!TypeOK
  <2>3. QED
    BY <1>1, <2>1, <2>2 DEF ServiceInv, TypeOK
<1>4. Grows
  BY <1>2 DEF Grows
<1>5. SeenIsDurable'
  <2> SUFFICES ASSUME NEW p \in seen \ early PROVE Durable(p)'
    BY <1>1 DEF SeenIsDurable, Durable
  <2>1. p \in Ids \X (0..MaxGen) /\ Durable(p)
    BY DEF ServiceInv, SeenIsDurable, Durable, TypeOK
  <2>2. QED
    BY <1>3, <1>4, <2>1, StaysDurable DEF ServiceInv
<1>6. Identified'
  <2> SUFFICES ASSUME NEW k \in Keys
      PROVE  /\ last'[k] # Engine!Nothing =>
                  /\ last'[k].n <= minted[k]
                  /\ store'[<<k, last'[k].n>>].gen <= last'[k].gen
             /\ \A n \in 1..MaxIds : n > minted[k] => store'[<<k, n>>] = Absent
    BY <1>1 DEF Identified, Open
  <2>1. \A n \in 1..MaxIds : n > minted[k] => store'[<<k, n>>] = Absent
    BY <1>2 DEF ServiceInv, Identified, Ids
  <2>2. ASSUME last'[k] # Engine!Nothing
        PROVE  /\ last'[k].n <= minted[k]
               /\ store'[<<k, last'[k].n>>].gen <= last'[k].gen
    <3>1. StoredIds(k) # {} /\ last'[k] = Seed(k)
      BY <1>1, <2>2 DEF Seeds
    <3>2. Newest(k) \in 1..MaxIds /\ store[<<k, Newest(k)>>] # Absent
      BY <3>1, NewestStored DEF StoredIds
    <3>3. last'[k].n = Newest(k) /\ last'[k].gen = store[<<k, Newest(k)>>].gen
      BY <3>1 DEF Seed
    <3>4. ~(Newest(k) > minted[k])
      BY <3>2 DEF ServiceInv, Identified
    <3>5. minted[k] \in Nat
      BY ServiceConstants DEF ServiceInv, TypeOK, Engine!TypeOK
    <3>6. <<k, Newest(k)>> \in Ids
      BY <3>2 DEF Ids
    <3>7. QED
      BY <1>2, <3>2, <3>3, <3>4, <3>5, <3>6
  <2>3. QED
    BY <2>1, <2>2
<1>7. Ticking'
  <2> SUFFICES ASSUME NEW k \in Keys
      PROVE  Settled(k)' /\ snapshot'[k].n = ledger'[k].n
    BY <1>1 DEF Ticking
  <2>1. \A n \in 1..MaxIds : ~store'[<<k, n>>].open
    BY <1>2 DEF Ids
  <2>2. QED
    BY <1>1, <2>1 DEF Settled, Open, None, Engine!Closed
<1>8. ShownIsDurable' /\ Requested'
  BY <1>1 DEF ShownIsDurable, Requested
<1>9. QED
  BY <1>3, <1>5, <1>6, <1>7, <1>8 DEF ServiceInv

-----------------------------------------------------------------------------
(* The theorems.                                                           *)

LEMMA ServiceKeeps ==
  ASSUME ServiceInv, [Next]_vars
  PROVE  ServiceInv'
<1>1. CASE Loop
  BY <1>1, EvaluateKeeps, UpsertKeeps, PublishKeeps DEF Loop
<1>2. CASE \E i \in Ids, m \in Marks, on \in BOOLEAN : MarkEngine(i[1], i[2], m, on)
  BY <1>2, MarkEngineKeeps DEF Ids
<1>3. CASE Handler
  BY <1>3, MarkStoreKeeps, MarkFailsKeeps, MarkSnapshotKeeps DEF Handler
<1>4. CASE Poll \/ TrayRestart
  BY <1>4, TrayKeeps
<1>5. CASE Restart
  BY <1>5, RestartKeeps
<1>6. CASE UNCHANGED vars
  <2>1. UNCHANGED <<ledger, last, minted, told, marks, pc, batch, view, store, snapshot,
                    request, seen, initialized, early>>
    BY <1>6 DEF vars, engineVars, loopVars, trayVars
  <2>2. TypeOK' /\ Identified' /\ Requested'
    BY <2>1 DEF ServiceInv, TypeOK, Engine!TypeOK, Identified, Open, Requested
  <2>3. ShownIsDurable' /\ SeenIsDurable'
    BY <2>1 DEF ServiceInv, ShownIsDurable, SeenIsDurable, Durable, Pair
  <2>4. Ticking'
    BY <2>1 DEF ServiceInv, Ticking, Settled, Settling, Open
  <2>5. QED
    BY <2>2, <2>3, <2>4 DEF ServiceInv
<1>7. QED
  BY <1>1, <1>2, <1>3, <1>4, <1>5, <1>6 DEF Next

LEMMA ServiceInvariant == Spec => []ServiceInv
BY ServiceInit, ServiceKeeps, PTL DEF Spec

(* Whatever the loop, the pipe thread, the tray and restarts do, the       *)
(* batch, the view, the table, the snapshot and the request in service     *)
(* hold rows, alerts and marks of known fingerprints and identities.       *)
THEOREM ServiceTypes == Spec => []TypeOK
<1>1. ServiceInv => TypeOK
  BY DEF ServiceInv
<1>2. QED
  BY <1>1, ServiceInvariant, PTL

(* Between two ticks of the loop the alerts table has exactly the engine's *)
(* incidents open, at the engine's generation, and the snapshot lists the  *)
(* same: also after marks that failed half-way and after a restart.        *)
THEOREM IdleAgreement == Spec => []IdleAgrees
<1>1. ServiceInv => IdleAgrees
  BY DEF ServiceInv, Ticking, Settled, IdleAgrees
<1>2. QED
  BY <1>1, ServiceInvariant, PTL

(* A notification pair the tray remembers is in the table, or the table is *)
(* past it, except for pairs a mark request showed ahead of the write.     *)
THEOREM SeenDurable == Spec => []SeenIsDurable
<1>1. ServiceInv => SeenIsDurable
  BY DEF ServiceInv
<1>2. QED
  BY <1>1, ServiceInvariant, PTL

=============================================================================
