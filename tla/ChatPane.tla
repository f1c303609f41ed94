------------------------------ MODULE ChatPane ------------------------------
(***************************************************************************)
(* The analyzer page: the conversation on display, the Chat Vault, the     *)
(* question in flight, and the thread that runs Codex for it.              *)
(*                                                                         *)
(* A conversation is a number, fresh for every new one. Of a transcript    *)
(* the model keeps whether it holds an answer, or a failure, to another    *)
(* conversation's question. The vault is the list the page shows, latest   *)
(* first; its file is not modelled beyond the saves that fail.             *)
(***************************************************************************)
EXTENDS ClientWorker, SequencesExt

CONSTANTS
  MaxChats,     \* bound: conversations begun
  MaxSessions   \* chat_history.rs MAX_SESSIONS

ASSUME ChatConstants == MaxChats \in Nat \ {0} /\ MaxSessions \in Nat \ {0}

VARIABLES
  page,        \* App.page: "analyzer", "findings", another
  mode,        \* App.mode: "normal" or "chat"
  running,     \* analyzer_running
  focused,     \* chat_history_focused
  conversation, \* conversation_id
  strayed,     \* of chat_messages: one answers another conversation
  sessions,    \* chat_sessions
  row,         \* chat_session_state; 0 is the NEW CHAT row
  band,        \* vault_rename: the conversation whose title it opened with
  armed,       \* vault_delete_armed
  analyzer,    \* the worker's analyzer: what the thread does, for whom
  begun        \* conversations begun

vaultVars == <<focused, row, band, armed>>
shownVars == <<conversation, strayed, begun>>
chatVars == <<page, mode, running, vaultVars, shownVars, sessions, analyzer>>

Chats == 1..MaxChats
NoChat == 0
Idle == [does |-> "nothing", for |-> NoChat]

ChatInit ==
  /\ page = "analyzer" /\ mode = "normal" /\ running = FALSE /\ focused = FALSE
  /\ conversation = 1 /\ strayed = FALSE /\ sessions = << >> /\ row = 0
  /\ band = NoChat /\ armed = NoChat /\ analyzer = Idle /\ begun = 1

ChatTypeOK ==
  /\ page \in {"analyzer", "findings"} /\ mode \in {"normal", "chat"}
  /\ running \in BOOLEAN /\ focused \in BOOLEAN
  /\ conversation \in 1..begun /\ strayed \in BOOLEAN
  /\ Len(sessions) <= MaxSessions /\ row \in 0..Len(sessions)
  /\ \A i, j \in DOMAIN sessions : sessions[i].id = sessions[j].id => i = j
  /\ band \in 0..begun /\ armed \in 0..begun /\ begun \in Chats
  /\ analyzer.does \in {"nothing", "asking", "sending", "returning", "finished"}

-----------------------------------------------------------------------------
(* The conversation on display.                                            *)

(* begin_new_chat                                                          *)
NewChat ==
  /\ begun < MaxChats /\ begun' = begun + 1 /\ conversation' = begun + 1
  /\ strayed' = FALSE /\ band' = NoChat /\ armed' = NoChat /\ row' = 0

(* activate_chat_history_index of a saved chat.                            *)
Activate(i) ==
  /\ conversation' = sessions[i].id /\ strayed' = sessions[i].strayed
  /\ row' = i /\ UNCHANGED begun

(* What upsert leaves in place; at most one session has the id.            *)
OthersThan(id) ==
  LET at == {i \in DOMAIN sessions : sessions[i].id = id}
  IN  IF at = {} THEN sessions ELSE RemoveAt(sessions, CHOOSE i \in at : TRUE)

(* persist_current_chat: the session goes to the front, the oldest beyond  *)
(* the cap is forgotten. A save that fails leaves the cursor where it was, *)
(* at a row of the list before.                                            *)
Persist(id, astray, at) ==
  LET all == <<[id |-> id, strayed |-> astray]>> \o OthersThan(id)
  IN  /\ strayed' = astray /\ row' \in {1, at}
      /\ sessions' = SubSeq(all, 1, IF Len(all) > MaxSessions THEN MaxSessions ELSE Len(all))

(* submit_chat_message, when sent is on the channel already.               *)
Ask(id, astray, at, sent) ==
  /\ Persist(id, astray, at)
  /\ running' = (Len(sent) < CommandCap)
  /\ commands' = IF running' THEN Append(sent, [kind |-> "chat", for |-> id]) ELSE sent

-----------------------------------------------------------------------------
(* Keys and clicks. A key of the normal mode disarms a pending delete, a   *)
(* click does not.                                                         *)

Normal == Handling /\ mode = "normal" /\ band = NoChat
OnPage == Normal /\ page = "analyzer"
Key    == armed' = NoChat
Click  == UNCHANGED armed

SelectPage ==
  /\ Normal /\ (Key \/ Click)
  /\ page' \in {"analyzer", "findings"} /\ TrySend([kind |-> "page"])
  /\ UNCHANGED <<mode, running, focused, row, band, shownVars, sessions, analyzer>>

(* n, c and a click on the NEW CHAT row; Enter there asks for the focus    *)
(* only.                                                                   *)
BeginChat ==
  /\ OnPage /\ NewChat /\ focused' = FALSE
  /\ ~running \/ (focused /\ row = 0)
  /\ UNCHANGED <<commands, page, mode, running, sessions, analyzer>>

(* h, and Esc.                                                             *)
FocusVault ==
  /\ OnPage /\ Key /\ ~running
  /\ focused' = ~focused
  /\ row' = IF focused' /\ sessions # << >> /\ row = 0 THEN 1 ELSE row
  /\ UNCHANGED <<commands, page, mode, running, band, shownVars, sessions, analyzer>>

MoveRow ==
  /\ OnPage /\ Key /\ focused
  /\ row' \in {row - 1, row + 1} \cap (0..Len(sessions))
  /\ UNCHANGED <<commands, page, mode, running, focused, band, shownVars, sessions, analyzer>>

(* Enter in the focused vault: a run in flight does not hold it back.      *)
EnterRow ==
  /\ OnPage /\ Key /\ focused /\ row # 0
  /\ Activate(row) /\ focused' = FALSE
  /\ UNCHANGED <<commands, page, mode, running, band, sessions, analyzer>>

(* register_vault_click; a click outside the input leaves it.              *)
ClickRow ==
  /\ Handling /\ band = NoChat /\ page = "analyzer" /\ ~running /\ Click
  /\ \E i \in DOMAIN sessions : Activate(i)
  /\ focused' = TRUE /\ mode' = "normal"
  /\ UNCHANGED <<commands, page, running, band, sessions, analyzer>>

(* Enter, / and e open the input outside the vault, a click on the         *)
(* transcript wherever the focus is.                                       *)
OpenInput ==
  /\ OnPage /\ ~running /\ mode' = "chat"
  /\ (Key /\ ~focused) \/ Click
  /\ UNCHANGED <<commands, page, running, focused, row, band, shownVars, sessions, analyzer>>

CloseInput ==
  /\ Handling /\ mode = "chat" /\ mode' = "normal"
  /\ UNCHANGED <<commands, page, running, vaultVars, shownVars, sessions, analyzer>>

Submit ==
  /\ Handling /\ mode = "chat" /\ mode' = "normal"
  /\ Ask(conversation, strayed, row, commands)
  /\ UNCHANGED <<page, focused, band, armed, conversation, begun, analyzer>>

(* investigate_selected_finding: select_page, a new chat with the cursor   *)
(* on its row, the question.                                               *)
(* The worker may have taken the page's refresh before the question comes. *)
InvestigateAnyway ==
  /\ Normal /\ page = "findings" /\ page' = "analyzer"
  /\ begun < MaxChats /\ begun' = begun + 1 /\ conversation' = begun + 1
  /\ focused' = FALSE /\ Key
  /\ \/ Room /\ Ask(begun + 1, FALSE, 0, Append(commands, [kind |-> "page"]))
     \/ Ask(begun + 1, FALSE, 0, commands)
  /\ UNCHANGED <<mode, band, analyzer>>

Investigate == ~running /\ InvestigateAnyway

Cancel ==
  /\ OnPage /\ Key /\ running /\ TrySend([kind |-> "cancel"])
  /\ UNCHANGED <<page, mode, running, focused, row, band, shownVars, sessions, analyzer>>

(* r in the vault; the band takes every key until Enter or Esc. Enter      *)
(* renames the session under the cursor.                                   *)
BeginRenameAnyway ==
  /\ OnPage /\ Key /\ focused /\ row # 0
  /\ band' = sessions[row].id
  /\ UNCHANGED <<commands, page, mode, running, focused, row, shownVars, sessions, analyzer>>

BeginRename == ~running /\ BeginRenameAnyway

EndRename ==
  /\ Handling /\ band # NoChat /\ band' = NoChat
  /\ UNCHANGED <<commands, page, mode, running, focused, row, armed, shownVars, sessions,
                 analyzer>>

(* vault_delete_step                                                       *)
ArmDelete ==
  /\ OnPage /\ focused /\ ~running /\ row # 0 /\ armed # sessions[row].id
  /\ armed' = sessions[row].id
  /\ UNCHANGED <<commands, page, mode, running, focused, row, band, shownVars, sessions,
                 analyzer>>

Removed ==
  /\ OnPage /\ focused /\ ~running /\ row # 0 /\ armed = sessions[row].id
  /\ sessions' = RemoveAt(sessions, row)
  /\ UNCHANGED <<commands, page, mode, running, focused, analyzer>>

DeleteOther ==
  /\ Removed /\ Key
  /\ row' = IF row > Len(sessions') THEN Len(sessions') ELSE row
  /\ UNCHANGED <<band, shownVars>>

(* The conversation on display goes with its session.                      *)
Delete ==
  \/ DeleteOther /\ conversation # armed
  \/ Removed /\ NewChat /\ conversation = armed

-----------------------------------------------------------------------------
(* drain_events                                                            *)

AnsweredStillRunning ==
  /\ Draining("chat")
  /\ Persist(conversation, strayed \/ Head(events).for # conversation, row)
  /\ UNCHANGED <<commands, page, mode, running, focused, band, armed, conversation, begun,
                 analyzer>>

(* The answer or the failure is filed in the conversation on display; that *)
(* it belongs there was checked where the thread knew which was asked.     *)
Answered ==
  /\ Draining("chat") /\ running' = FALSE
  /\ Persist(conversation, strayed \/ Head(events).for # conversation, row)
  /\ UNCHANGED <<commands, page, mode, focused, band, armed, conversation, begun, analyzer>>

-----------------------------------------------------------------------------
(* The worker and the analyzer's thread.                                   *)

screenVars == <<page, mode, running, vaultVars, shownVars, sessions>>

(* Top of worker_loop: a thread that has returned is joined.               *)
Reap ==
  /\ GoRound /\ UNCHANGED screenVars
  /\ analyzer' = IF analyzer.does = "finished" THEN Idle ELSE analyzer

(* RunChat spawns the thread or reports that it could not; it falls        *)
(* through while the last thread has not been joined.                      *)
ServeChat ==
  /\ UNCHANGED screenVars
  /\ \/ analyzer = Idle /\ Serve("chat", {<< >>})
        /\ analyzer' = [does |-> "asking", for |-> Head(commands).for]
     \/ analyzer = Idle /\ Serve("chat", {<<Head(commands)>>}) /\ UNCHANGED analyzer
     \/ analyzer # Idle /\ Serve("chat", {<< >>}) /\ UNCHANGED analyzer

ServeCancel ==
  /\ Serve("cancel", {<< >>}) /\ UNCHANGED chatVars

(* wait_for_codex ends by an answer, a failure, Cancel's flag or the time  *)
(* budget; the reply is sent, and then the thread returns.                 *)
CodexEnds ==
  /\ analyzer.does = "asking" /\ analyzer' = [analyzer EXCEPT !.does = "sending"]
  /\ UNCHANGED <<workerVars, screenVars>>

ThreadSends ==
  /\ analyzer.does = "sending" /\ Len(events) < EventCap
  /\ events' = Append(events, [kind |-> "chat", for |-> analyzer.for])
  /\ analyzer' = [analyzer EXCEPT !.does = "returning"]
  /\ UNCHANGED <<commands, place, outbox, screenVars>>

ThreadReturns ==
  /\ analyzer.does = "returning" /\ analyzer' = [analyzer EXCEPT !.does = "finished"]
  /\ UNCHANGED <<workerVars, screenVars>>

Press ==
  \/ SelectPage \/ BeginChat \/ FocusVault \/ MoveRow \/ EnterRow \/ ClickRow \/ OpenInput
  \/ CloseInput \/ Submit \/ Investigate \/ Cancel \/ BeginRename \/ EndRename
  \/ ArmDelete \/ Delete
=============================================================================
