----------------------------- MODULE LaunchPane -----------------------------
(***************************************************************************)
(* The LAUNCHES page: the list of launch groups and the drill-down into    *)
(* the occurrences of the selected one. The service ranks the groups anew  *)
(* in every reply, a selection is fetched when it has settled, and a       *)
(* command may find the channel full.                                      *)
(***************************************************************************)
EXTENDS ClientWorker, FiniteSets, SequencesExt

CONSTANTS
  Groups,    \* launch groups, by (exe_path, lineage_sig); naturals from 1
  Consoles   \* those of console hosts

ASSUME LaunchConstants ==
  Groups \subseteq Nat \ {0} /\ IsFiniteSet(Groups) /\ Consoles \subseteq Groups

VARIABLES
  consoleOnly, \* launch_console_only
  groups,      \* launch_groups
  selected,    \* launch_state: an index, 0 for none
  wanted,      \* launch_wanted
  key,         \* launch_key: the group asked for
  due,         \* launch_fetch_due is armed
  rows,        \* launch_occurrences: whose they are
  failed       \* launch_occurrence_error

launchVars == <<consoleOnly, groups, selected, wanted, key, due, rows, failed>>

NoGroup == 0

LaunchInit ==
  /\ consoleOnly = FALSE /\ groups = << >> /\ selected = 0 /\ wanted = NoGroup
  /\ key = NoGroup /\ due = FALSE /\ rows = NoGroup /\ failed = FALSE

LaunchTypeOK ==
  /\ consoleOnly \in BOOLEAN /\ due \in BOOLEAN /\ failed \in BOOLEAN
  /\ groups \in Seq(Groups) /\ selected \in {0, 1} \cup DOMAIN groups
  /\ {wanted, key, rows} \subseteq Groups \cup {NoGroup}

-----------------------------------------------------------------------------

SelectedIn(list, i) == IF i \in DOMAIN list THEN list[i] ELSE NoGroup
Clamped(list, i) ==
  IF list = << >> THEN 0 ELSE IF i = 0 THEN 1 ELSE IF i > Len(list) THEN Len(list) ELSE i

(* A request that takes a refused command for a sent one.                  *)
RequestForgetting(w) ==
  /\ key' = w
  /\ due' = FALSE
  /\ TrySend([kind |-> "occurrences", of |-> w])

(* request_launch_occurrences: a refused command re-arms the deadline.     *)
Request(w) ==
  /\ key' = IF Room THEN w ELSE NoGroup
  /\ due' = ~Room
  /\ TrySend([kind |-> "occurrences", of |-> w])

(* sync_launch_occurrences, for the list and the cursor the step leaves.   *)
SyncTo(w, now) ==
  LET moved == w # wanted
      asked == IF moved THEN NoGroup ELSE key
  IN  /\ wanted' = w
      /\ rows' = IF moved THEN NoGroup ELSE rows
      /\ failed' = (~moved /\ failed)
      /\ \/ w \notin {NoGroup, asked} /\ now /\ Request(w)
         \/ w \notin {NoGroup, asked} /\ ~now /\ due' = TRUE /\ key' = asked
            /\ UNCHANGED commands
         \/ w \in {NoGroup, asked} /\ key' = asked /\ due' = (~moved /\ due)
            /\ UNCHANGED commands

Sync(now) == SyncTo(SelectedIn(groups', selected'), now)

-----------------------------------------------------------------------------
(* Keys, clicks and the clock of the main loop.                            *)

MoveGroup ==
  /\ Handling
  /\ selected' \in {Clamped(groups, i) : i \in {selected - 1, selected + 1} \cap Nat}
  /\ UNCHANGED <<consoleOnly, groups>> /\ Sync(FALSE)

ClickGroup ==
  /\ Handling /\ selected' \in DOMAIN groups
  /\ UNCHANGED <<consoleOnly, groups>> /\ Sync(TRUE)

(* r                                                                       *)
RefreshGroups ==
  /\ Handling /\ TrySend([kind |-> "groups", console |-> consoleOnly])
  /\ UNCHANGED launchVars

(* toggle_launch_console_filter                                            *)
ToggleFilter ==
  /\ Handling /\ consoleOnly' = ~consoleOnly
  /\ groups' = << >> /\ selected' = 1
  /\ rows' = NoGroup /\ key' = NoGroup /\ wanted' = NoGroup /\ due' = FALSE /\ failed' = FALSE
  /\ TrySend([kind |-> "groups", console |-> consoleOnly'])

(* poll_launch_fetch when the deadline has passed, flush_launch_fetch when *)
(* a focus change or a jump cannot wait for it.                            *)
Fetch ==
  /\ Handling /\ due
  /\ \/ wanted # NoGroup /\ Request(wanted)
     \/ wanted = NoGroup /\ due' = FALSE /\ UNCHANGED <<commands, key>>
  /\ UNCHANGED <<consoleOnly, groups, selected, wanted, rows, failed>>

-----------------------------------------------------------------------------
(* drain_events                                                            *)

GroupsArrived ==
  /\ Draining("groups") /\ Head(events).ok
  /\ groups' = Head(events).list /\ selected' = Clamped(groups', selected)
  /\ UNCHANGED consoleOnly /\ Sync(TRUE)

GroupsFailed ==
  /\ Draining("groups") /\ ~Head(events).ok
  /\ groups' = << >> /\ selected' = 0
  /\ rows' = NoGroup /\ key' = NoGroup /\ wanted' = NoGroup /\ failed' = FALSE
  /\ UNCHANGED <<commands, consoleOnly, due>>

ShowOccurrences(e) ==
  /\ rows' = IF e.ok THEN e.of ELSE NoGroup
  /\ failed' = ~e.ok
  /\ UNCHANGED <<commands, consoleOnly, groups, selected, wanted, key, due>>

(* Every reply shown, whoever it is for.                                   *)
ShowAnyReply == Draining("occurrences") /\ ShowOccurrences(Head(events))

(* A reply for a group the selection has left is dropped.                  *)
OccurrencesArrived ==
  /\ Draining("occurrences")
  /\ IF key = Head(events).of THEN ShowOccurrences(Head(events))
                              ELSE UNCHANGED <<commands, launchVars>>

(* clamp_selection, after a snapshot or another page's reply.              *)
ClampGroups ==
  /\ selected' = Clamped(groups, selected)
  /\ UNCHANGED <<consoleOnly, groups, wanted, key, due, rows, failed>>

-----------------------------------------------------------------------------
(* The worker. The ranking is the service's.                               *)

Rankings(console) ==
  UNION {SetToSeqs(s) : s \in SUBSET (IF console THEN Consoles ELSE Groups)}

ServeGroups ==
  /\ Serve("groups", {<<[kind |-> "groups", ok |-> TRUE, list |-> l]>>
                        : l \in Rankings(Head(commands).console)}
                     \cup {<<[kind |-> "groups", ok |-> FALSE, list |-> << >>]>>})
  /\ UNCHANGED launchVars

ServeOccurrences ==
  /\ Serve("occurrences", {<<[kind |-> "occurrences", of |-> Head(commands).of, ok |-> b]>>
                             : b \in BOOLEAN})
  /\ UNCHANGED launchVars

Browse ==
  \/ MoveGroup \/ ClickGroup \/ RefreshGroups \/ ToggleFilter
  \/ GroupsArrived \/ GroupsFailed \/ OccurrencesArrived

-----------------------------------------------------------------------------
(* The pane never attaches one group's occurrences to another's row: what  *)
(* it shows belongs to the row under the cursor, over re-rankings, filter  *)
(* toggles and replies that cross a moving selection (drain_events).       *)
OccurrencesAreSelected == rows # NoGroup => rows = SelectedIn(groups, selected)

(* The pane never just waits: a selected group is on screen, has failed,   *)
(* is due to be asked for, or the question or its answer is on its way and *)
(* will still be taken for the selection's when it comes.                  *)
Underway(g) ==
  LET Names(q) == \E i \in DOMAIN q : q[i].kind = "occurrences" /\ q[i].of = g
  IN  Names(commands) \/ Names(outbox) \/ Names(events)

SelectionIsAttended ==
  wanted # NoGroup =>
    rows = wanted \/ failed \/ due \/ (key = wanted /\ Underway(wanted))

(* A selected group is loaded, or reports why not, or is left, unless the  *)
(* command channel keeps filling up: a refused request costs a settle      *)
(* window and does not wedge the pane (request_launch_occurrences).        *)
SelectionLoads ==
  \A g \in Groups : wanted = g ~> wanted # g \/ rows = g \/ failed \/ ~Room
=============================================================================
