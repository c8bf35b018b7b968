----------------------------- MODULE ChatSession -----------------------------
(***************************************************************************)
(* AiChatSessionController: the turns of one AI conversation.  A call of    *)
(* the user starts a turn, in which rounds follow each other: a request     *)
(* goes out, its answer streams in and is saved now and then (a checkpoint), *)
(* and if it ends in a tool call or a question, the next round follows once *)
(* the tool has run or the user has answered.                               *)
(*                                                                         *)
(* Dart runs one piece of code at a time, from one await to the next: these *)
(* pieces are the actions.  What is awaited is the conversation's store,    *)
(* whose operations take effect in the order in which they are issued       *)
(* (queue), the end of the request, a tool, and the user's verdict.         *)
(*                                                                         *)
(* A change of settings replaces the controller (_attachSession) while      *)
(* calls of the old one may still be under way; a restart of the app leaves *)
(* only the store.                                                          *)
(***************************************************************************)
EXTENDS Naturals, Sequences, FiniteSets

CONSTANTS
    MaxSessions,    \* controllers of the conversation, one after the other
    MaxCalls,       \* calls of the user that await something
    MaxReplies,     \* answers of the model: each has a number, its message's id
    MaxRounds,      \* toolPolicy.maxRounds
    MaxFailures,    \* bound on the operations of the store that throw
    Overlapping     \* a call may start before the one before it is shown

ASSUME ChatConstants ==
    /\ {MaxSessions, MaxCalls, MaxReplies, MaxRounds} \subseteq Nat \ {0}
    /\ MaxFailures \in Nat
    /\ Overlapping \in BOOLEAN

Sessions == 1 .. MaxSessions
Calls    == 1 .. MaxCalls
Replies  == 1 .. MaxReplies

VARIABLES
    current,    \* the controller that is attached
    session,    \* the state of each controller
    call,       \* the coroutine of each call
    run,        \* the request behind each answer
    store,      \* the messages as they are stored
    queue,      \* operations of the store that are under way
    failures,   \* how many of them have thrown
    consented   \* history: the calls of tools the user has agreed to

vars == <<current, session, call, run, store, queue, failures, consented>>

Open    == {"queued", "streaming"}
Settled == {"completed", "failed", "cancelled"}

(* The messages of a conversation, in the order of their numbers: for each   *)
(* answer whether a message of the user precedes it, the status of its own   *)
(* message, and the message with the result of its tool call.                *)
Messages == [Replies -> [user : BOOLEAN,
                         status : {"none", "interrupted"} \cup Open \cup Settled,
                         result : {"none", "ok", "failed", "rejected"}]]

Nothing == [user |-> FALSE, status |-> "none", result |-> "none"]

NewSession == [phase |-> "loading", loaded |-> FALSE, closed |-> FALSE,
               view |-> [r \in Replies |-> Nothing],
               request |-> 0,       \* activeRequestId
               run |-> 0,           \* _activeRun
               timer |-> 0,         \* the snapshot its checkpoint timer will save
               approver |-> 0,      \* the call behind _approvalCompleter
               asker |-> 0]         \* the call behind _answerCompleter

NewCall == [pc |-> "idle", session |-> 1, retry |-> FALSE, round |-> 0, reply |-> 0,
            history |-> [r \in Replies |-> Nothing],
            part |-> "none",         \* of the message it deletes
            verdict |-> "none"]      \* of the user, or of the tool

NewRun == [state |-> "unused", outcome |-> "none", cancelled |-> FALSE,
            risky |-> FALSE]         \* its tool call needs approval

(* Where a call awaits the store. *)
Saving == {"saveUser", "discard", "saveAgain", "discardResult", "deleteMessage",
           "savePlaceholder", "saveCall", "saveResult", "saveQuestion", "saveAnswer",
           "saveFinal", "saveConversation", "saveFailed"}

(* Where it awaits something else. *)
Waiting == {"running", "tailCall", "tailFinal", "tailFailed", "tool", "approve", "ask"}

CallOp(l)          == [by |-> "call", id |-> l, reply |-> 0]
CheckpointOp(c, r) == [by |-> "checkpoint", id |-> c, reply |-> r]
OpeningOp(c)       == [by |-> "opening", id |-> c, reply |-> 0]

Phases == {"loading", "ready", "failed", "requesting", "streaming", "cancelling",
           "awaitingToolApproval", "awaitingUserAnswer"}

(* A call has an operation under way exactly when it awaits one, and only    *)
(* one at a time.                                                            *)
TypeOK ==
    /\ current \in Sessions
    /\ \A c \in Sessions :
          /\ session[c].phase \in Phases
          /\ session[c].view \in Messages
          /\ {session[c].request, session[c].run, session[c].timer} \subseteq 0 .. MaxReplies
          /\ {session[c].approver, session[c].asker} \subseteq 0 .. MaxCalls
          /\ c < current => session[c].closed
    /\ \A l \in Calls :
          /\ call[l].pc \in {"idle", "returned"} \cup Saving \cup Waiting
          /\ call[l].history \in Messages
          /\ call[l].round \in 0 .. MaxReplies + MaxRounds
          /\ Cardinality({i \in DOMAIN queue : queue[i] = CallOp(l)})
                = IF call[l].pc \in Saving THEN 1 ELSE 0
    /\ store \in Messages
    /\ failures \in 0 .. MaxFailures
    /\ consented \subseteq Replies

Init ==
    /\ current = 1
    /\ session = [c \in Sessions |-> NewSession]
    /\ call = [l \in Calls |-> NewCall]
    /\ run = [r \in Replies |-> NewRun]
    /\ store = [r \in Replies |-> Nothing]
    /\ queue = <<OpeningOp(1)>>
    /\ failures = 0
    /\ consented = {}

-----------------------------------------------------------------------------
(* Messages. *)

(* The answer carries a call of a tool. *)
Calling(messages, r) == messages[r].status = "completed" /\ run[r].outcome = "tools"

(* The calls the user is shown as waiting for approval. *)
Pending(messages) == {r \in Replies : Calling(messages, r) /\ messages[r].result = "none"}

Without(messages, replies) == [r \in Replies |-> IF r \in replies THEN Nothing ELSE messages[r]]

From(messages, first) == {r \in Replies : r >= first /\ messages[r] # Nothing}

(* _toolRoundsInCurrentTurn *)
RoundsInTurn(messages) ==
    Cardinality({r \in Replies :
        /\ Calling(messages, r)
        /\ \A x \in Replies : x > r => ~messages[x].user})

(* _messageFromSnapshot of the last snapshot. *)
Outcome(r) ==
    CASE run[r].outcome \in {"text", "question"} -> "completed"
      [] run[r].outcome \in {"failed", "tools"}  -> "failed"
      [] OTHER                                   -> "cancelled"

Used == {r \in Replies : run[r].state # "unused"}

(* Its request offers the tools: the budget of rounds is not used up. *)
OffersTools(l) == call[l].round < MaxRounds

CallsTool(l) == run[call[l].reply].outcome = "tools" /\ OffersTools(l)

(* The calls that will ask the model again. *)
Owing == {l \in Calls :
            \/ call[l].pc \in {"saveUser", "discard", "saveAgain", "discardResult", "tool",
                               "saveResult", "tailCall", "saveCall", "approve",
                               "saveQuestion", "ask", "saveAnswer"}
            \/ /\ call[l].pc = "running"
               /\ run[call[l].reply].state = "ended"
               /\ run[call[l].reply].outcome = "question" \/ CallsTool(l)}

(* The bound on the answers leaves one for a call that is not owing yet. *)
Spare == Cardinality(Used) + Cardinality(Owing) < MaxReplies

-----------------------------------------------------------------------------
(* Steps of a call. *)

(* _emit *)
Shows(c, messages, phase, request) ==
    IF session[c].closed THEN session[c]
    ELSE [session[c] EXCEPT !.view = messages, !.phase = phase, !.request = request]

Idle(l) == call[l].pc = "idle" /\ \A k \in Calls : k < l => call[k].pc # "idle"

Live(l) == call[l].pc \notin {"idle", "returned", "approve", "ask"}

(* _ensureCanStart, in the session the interface is attached to. *)
CanStart(c) ==
    /\ c = current
    /\ ~session[c].closed
    /\ session[c].phase \in {"ready", "failed"}
    /\ session[c].run = 0
    /\ Overlapping \/ \A l \in Calls : Live(l) => call[l].session # c

Issues(l, pc, before) ==
    /\ call' = [call EXCEPT ![l].pc = pc]
    /\ queue' = Append(before, CallOp(l))

Goes(l, pc) == call' = [call EXCEPT ![l].pc = pc]

Returns(l) == call' = [call EXCEPT ![l] = [NewCall EXCEPT !.pc = "returned"]]

(* The operation that l awaits at pc has taken effect. *)
Done(l, pc) == call[l].pc = pc /\ queue # <<>> /\ Head(queue) = CallOp(l)

(* The head of the loop of _runAssistantLoopUnsafe, up to its first await.   *)
(* "asked": what the answer follows is a message of the user.                *)
NextRound(l, history, round, asked, stored, before) ==
    LET r == Cardinality(Used) + 1 IN
    /\ call' = [call EXCEPT ![l].pc = "savePlaceholder", ![l].retry = FALSE,
                            ![l].round = round, ![l].reply = r,
                            ![l].history = [history EXCEPT ![r].user = asked],
                            ![l].verdict = "none"]
    /\ run' = [run EXCEPT ![r].state = "reserved"]
    /\ store' = [stored EXCEPT ![r].user = asked]
    /\ queue' = Append(before, CallOp(l))

Starts(l, c, pc, reply, history, part) ==
    /\ Idle(l)
    /\ CanStart(c)
    /\ call' = [call EXCEPT ![l] = [NewCall EXCEPT !.pc = pc, !.session = c, !.reply = reply,
                                                   !.history = history, !.part = part,
                                                   !.retry = (pc = "discardResult")]]
    /\ queue' = Append(queue, CallOp(l))

(* sendText, continueFromInterruption, and what retries by continuing. *)
SendText(l, c) ==
    /\ Spare
    /\ Starts(l, c, "saveUser", 0, session[c].view, "none")
    /\ UNCHANGED <<current, session, run, store, failures, consented>>

UserSaved(l) ==
    /\ Done(l, "saveUser")
    /\ NextRound(l, call[l].history, 0, TRUE, store, Tail(queue))
    /\ UNCHANGED <<current, session, failures, consented>>

(* _regenerateFrom the message of the user before answer r. *)
Regenerate(l, c, r) ==
    /\ Spare
    /\ session[c].view[r].user
    /\ Starts(l, c, "discard", r, session[c].view, "none")
    /\ UNCHANGED <<current, session, run, store, failures, consented>>

(* Mutant: one message too many is skipped. *)
DiscardsFromNext(l) ==
    /\ Done(l, "discard")
    /\ store' = Without(store, From(call[l].history, call[l].reply + 1))
    /\ Issues(l, "saveAgain", Tail(queue))
    /\ UNCHANGED <<current, session, run, failures, consented>>

Discarded(l) ==
    LET r == call[l].reply IN
    /\ Done(l, "discard")
    /\ store' = [Without(store, From(call[l].history, r)) EXCEPT ![r].user = store[r].user]
    /\ Issues(l, "saveAgain", Tail(queue))
    /\ UNCHANGED <<current, session, run, failures, consented>>

(* The message of the user goes with the next answer.  The history is taken   *)
(* from what is shown by now.                                                *)
SavedAgain(l) ==
    LET c == call[l].session
        history == Without(session[c].view, From(session[c].view, call[l].reply))
    IN  /\ Done(l, "saveAgain")
        /\ session' = [session EXCEPT
                         ![c] = Shows(c, history, session[c].phase, session[c].request)]
        /\ NextRound(l, history, 0, TRUE,
                     [store EXCEPT ![call[l].reply].user = FALSE], Tail(queue))
        /\ UNCHANGED <<current, failures, consented>>

(* _retryFailedToolResult: the user asks for the tool to be called again. *)
RetryTool(l, c, r) ==
    /\ Spare
    /\ session[c].view[r].result \in {"failed", "rejected"}
    /\ Calling(session[c].view, r)
    /\ Starts(l, c, "discardResult", r, session[c].view, "none")
    /\ consented' = consented \cup {r}
    /\ UNCHANGED <<current, session, run, store, failures>>

(* Mutant: the turn that is taken up again has a new budget. *)
DiscardsRounds(l) ==
    LET c == call[l].session
        r == call[l].reply
        Kept(messages, later) == [Without(messages, From(later, r + 1))
                                    EXCEPT ![r].result = "none"]
        history == Kept(session[c].view, session[c].view)
    IN  /\ Done(l, "discardResult")
        /\ store' = Kept(store, call[l].history)
        /\ session' = [session EXCEPT
                         ![c] = Shows(c, history, "requesting", session[c].request)]
        /\ call' = [call EXCEPT ![l].pc = "tool", ![l].history = history,
                                ![l].round = 0]
        /\ queue' = Tail(queue)
        /\ UNCHANGED <<current, run, failures, consented>>

ResultDiscarded(l) ==
    LET c == call[l].session
        r == call[l].reply
        Kept(messages, later) == [Without(messages, From(later, r + 1))
                                    EXCEPT ![r].result = "none"]
        history == Kept(session[c].view, session[c].view)
    IN  /\ Done(l, "discardResult")
        /\ store' = Kept(store, call[l].history)
        /\ session' = [session EXCEPT
                         ![c] = Shows(c, history, "requesting", session[c].request)]
        /\ call' = [call EXCEPT ![l].pc = "tool", ![l].history = history,
                                ![l].round = RoundsInTurn(history)]
        /\ queue' = Tail(queue)
        /\ UNCHANGED <<current, run, failures, consented>>

(* deleteMessage: of the user, of the model, or of a tool. *)
DeleteMessage(l, c, r, part) ==
    /\ session[c].view[r][part] # Nothing[part]
    /\ Starts(l, c, "deleteMessage", r, session[c].view, part)
    /\ UNCHANGED <<current, session, run, store, failures, consented>>

MessageDeleted(l) ==
    LET c == call[l].session
        Gone(messages) ==
          [messages EXCEPT ![call[l].reply][call[l].part] = Nothing[call[l].part]]
    IN  /\ Done(l, "deleteMessage")
        /\ store' = Gone(store)
        /\ session' = [session EXCEPT
             ![c] = Shows(c, Gone(session[c].view), session[c].phase, session[c].request)]
        /\ Returns(l)
        /\ queue' = Tail(queue)
        /\ UNCHANGED <<current, run, failures, consented>>

-----------------------------------------------------------------------------
(* A round. *)

(* The request goes out; the controller may have been closed by now. *)
PlaceholderSaved(l) ==
    LET c == call[l].session
        r == call[l].reply
        messages == [call[l].history EXCEPT ![r].status = "queued"]
    IN  /\ Done(l, "savePlaceholder")
        /\ store' = [store EXCEPT ![r].status = "queued"]
        /\ session' = [session EXCEPT ![c] = [Shows(c, messages, "requesting", r)
                                                EXCEPT !.run = r]]
        /\ run' = [run EXCEPT ![r].state = "open"]
        /\ Goes(l, "running")
        /\ queue' = Tail(queue)
        /\ UNCHANGED <<current, failures, consented>>

(* _handleSnapshot of a part of the answer. *)
HandleSnapshot(l) ==
    LET c == call[l].session
        r == call[l].reply
    IN  /\ call[l].pc = "running"
        /\ run[r].state = "open"
        /\ session[c].request = r
        /\ ~session[c].closed
        /\ session' = [session EXCEPT ![c].phase = "streaming", ![c].timer = r]
        /\ UNCHANGED <<current, call, run, store, queue, failures, consented>>

(* _checkpointTail is done *)
NoCheckpoint(c) ==
    \A i \in DOMAIN queue : ~(queue[i].by = "checkpoint" /\ queue[i].id = c)

(* The checkpoint timer of _scheduleCheckpoint: one checkpoint follows the    *)
(* other.                                                                    *)
Checkpoint(c) ==
    /\ session[c].timer # 0
    /\ NoCheckpoint(c)
    /\ session' = [session EXCEPT ![c].timer = 0]
    /\ queue' = IF session[c].timer = session[c].request
                THEN Append(queue, CheckpointOp(c, session[c].timer)) ELSE queue
    /\ UNCHANGED <<current, call, run, store, failures, consented>>

CheckpointSaved ==
    /\ queue # <<>>
    /\ Head(queue).by = "checkpoint"
    /\ store' = [store EXCEPT ![Head(queue).reply].status = "streaming"]
    /\ queue' = Tail(queue)
    /\ UNCHANGED <<current, session, call, run, failures, consented>>

(* The transport ends the request, also one that was cancelled too late. *)
RunEnds(r, outcome, risky) ==
    /\ run[r].state = "open"
    /\ outcome = "cancelled" => run[r].cancelled
    /\ \/ outcome = "question"
       \/ outcome = "tools" /\ \E l \in Calls : call[l].reply = r /\ OffersTools(l)
       => Spare
    /\ risky => outcome = "tools"
    /\ run' = [run EXCEPT ![r].state = "ended", ![r].outcome = outcome, ![r].risky = risky,
                             ![r].cancelled = FALSE]
    /\ UNCHANGED <<current, session, call, store, queue, failures, consented>>

(* run.completed: an answer that asks goes before one that calls a tool. *)
Ended(l) ==
    /\ call[l].pc = "running"
    /\ run[call[l].reply].state = "ended"

Quiet(c) == [session[c] EXCEPT !.run = 0, !.timer = 0]

EndsInQuestion(l) ==
    /\ Ended(l)
    /\ run[call[l].reply].outcome = "question"
    /\ session' = [session EXCEPT ![call[l].session].run = 0]
    /\ Issues(l, "saveQuestion", queue)
    /\ UNCHANGED <<current, run, store, failures, consented>>

(* _persistCompletedToolCall *)
EndsInCall(l) ==
    /\ Ended(l)
    /\ CallsTool(l)
    /\ session' = [session EXCEPT ![call[l].session] = Quiet(call[l].session)]
    /\ Goes(l, "tailCall")
    /\ UNCHANGED <<current, run, store, queue, failures, consented>>

(* Mutant: the checkpoint timer goes on. *)
FinishesUnderTimer(l) ==
    LET c == call[l].session IN
    /\ Ended(l)
    /\ run[call[l].reply].outcome # "question"
    /\ ~CallsTool(l)
    /\ IF session[c].request = call[l].reply
       THEN /\ session' = [session EXCEPT ![c].run = 0]
            /\ Goes(l, "tailFinal")
       ELSE /\ session' = [session EXCEPT ![c].run = 0]
            /\ Returns(l)
    /\ UNCHANGED <<current, run, store, queue, failures, consented>>

(* _finishRun, of an answer that is shown as the active one or not at all. *)
Finishes(l) ==
    LET c == call[l].session IN
    /\ Ended(l)
    /\ run[call[l].reply].outcome # "question"
    /\ ~CallsTool(l)
    /\ IF session[c].request = call[l].reply
       THEN /\ session' = [session EXCEPT ![c] = Quiet(c)]
            /\ Goes(l, "tailFinal")
       ELSE /\ session' = [session EXCEPT ![c].run = 0]
            /\ Returns(l)
    /\ UNCHANGED <<current, run, store, queue, failures, consented>>

TailAwaited(l) ==
    /\ NoCheckpoint(call[l].session)
    /\ \/ call[l].pc = "tailCall" /\ Issues(l, "saveCall", queue)
       \/ call[l].pc = "tailFinal" /\ Issues(l, "saveFinal", queue)
    /\ UNCHANGED <<current, session, run, store, failures, consented>>

(* Mutant: the conversation's record is not awaited. *)
FinalSavedUnawaited(l) ==
    /\ Done(l, "saveFinal")
    /\ store' = [store EXCEPT ![call[l].reply].status = Outcome(call[l].reply)]
    /\ Returns(l)
    /\ queue' = Append(Tail(queue), CallOp(l))
    /\ UNCHANGED <<current, session, run, failures, consented>>

FinalSaved(l) ==
    /\ Done(l, "saveFinal")
    /\ store' = [store EXCEPT ![call[l].reply].status = Outcome(call[l].reply)]
    /\ Issues(l, "saveConversation", Tail(queue))
    /\ UNCHANGED <<current, session, run, failures, consented>>

(* The message, if it is still shown, gets its last status. *)
Settle(messages, r, status) ==
    IF messages[r].status = "none" THEN messages ELSE [messages EXCEPT ![r].status = status]

ConversationSaved(l) ==
    LET c == call[l].session
        r == call[l].reply
    IN  /\ Done(l, "saveConversation")
        /\ session' = [session EXCEPT
              ![c] = [Shows(c, Settle(session[c].view, r, Outcome(r)),
                            IF Outcome(r) = "failed" THEN "failed" ELSE "ready", 0)
                        EXCEPT !.run = 0]]
        /\ Returns(l)
        /\ queue' = Tail(queue)
        /\ UNCHANGED <<current, run, store, failures, consented>>

-----------------------------------------------------------------------------
(* Tools. *)

(* The tool is called, or the user is asked whether it may be. *)
CallSaved(l) ==
    LET c == call[l].session
        r == call[l].reply
        history == [call[l].history EXCEPT ![r].status = "completed"]
    IN  /\ Done(l, "saveCall")
        /\ store' = [store EXCEPT ![r].status = "completed"]
        /\ call' = [call EXCEPT ![l].history = history, ![l].verdict = "none",
                                ![l].pc = IF run[r].risky THEN "approve" ELSE "tool"]
        /\ session' = [session EXCEPT
             ![c] = IF run[r].risky
                    THEN [Shows(c, history, "awaitingToolApproval", 0) EXCEPT !.approver = l]
                    ELSE Shows(c, history, "requesting", 0)]
        /\ queue' = Tail(queue)
        /\ UNCHANGED <<current, run, failures, consented>>

(* The user decides, once, for the call that has set up the completer. *)
Decides(l, verdict) ==
    /\ l # 0
    /\ call[l].verdict = "none"
    /\ call' = [call EXCEPT ![l].verdict = verdict]

(* approvePendingTools and rejectPendingTools: the interface offers them for *)
(* the calls it shows as pending, and has let go of a controller it closes.  *)
Approve(c) ==
    /\ c = current
    /\ ~session[c].closed
    /\ session[c].phase = "awaitingToolApproval"
    /\ Decides(session[c].approver, "yes")
    /\ consented' = consented \cup Pending(session[c].view)
    /\ UNCHANGED <<current, session, run, store, queue, failures>>

Reject(c) ==
    /\ c = current
    /\ ~session[c].closed
    /\ session[c].phase = "awaitingToolApproval"
    /\ Decides(session[c].approver, "no")
    /\ UNCHANGED <<current, session, run, store, queue, failures, consented>>

Approved(l) ==
    LET c == call[l].session IN
    /\ call[l].pc = "approve"
    /\ call[l].verdict = "yes"
    /\ session' = [session EXCEPT
                     ![c] = [Shows(c, call[l].history, "requesting", 0) EXCEPT !.approver = 0]]
    /\ Goes(l, "tool")
    /\ UNCHANGED <<current, run, store, queue, failures, consented>>

(* _createRejectedToolResults: the results are shown, and not stored. *)
Rejected(l) ==
    LET c == call[l].session
        history == [call[l].history EXCEPT ![call[l].reply].result = "rejected"]
    IN  /\ call[l].pc = "approve"
        /\ call[l].verdict = "no"
        /\ session' = [session EXCEPT
                         ![c] = [Shows(c, history, "requesting", 0) EXCEPT !.approver = 0]]
        /\ NextRound(l, history, call[l].round + 1, FALSE, store, queue)
        /\ UNCHANGED <<current, failures, consented>>

(* _executeToolCall; an exception of the tool is a failed result. *)
ToolReturns(l, result) ==
    /\ call[l].pc = "tool"
    /\ call' = [call EXCEPT ![l].pc = "saveResult", ![l].verdict = result]
    /\ queue' = Append(queue, CallOp(l))
    /\ UNCHANGED <<current, session, run, store, failures, consented>>

ResultSaved(l) ==
    LET c == call[l].session
        r == call[l].reply
        history == [call[l].history EXCEPT ![r].result = call[l].verdict]
        shown == [session[c].view EXCEPT ![r].result = call[l].verdict]
    IN  /\ Done(l, "saveResult")
        /\ session' = [session EXCEPT
             ![c] = IF call[l].retry THEN Shows(c, shown, "requesting", session[c].request)
                    ELSE Shows(c, history, "requesting", 0)]
        /\ NextRound(l, history, call[l].round + (IF call[l].retry THEN 0 ELSE 1), FALSE,
                     [store EXCEPT ![r].result = call[l].verdict], Tail(queue))
        /\ UNCHANGED <<current, failures, consented>>

-----------------------------------------------------------------------------
(* Questions. *)

QuestionSaved(l) ==
    LET c == call[l].session
        r == call[l].reply
        history == Settle(session[c].view, r, "completed")
    IN  /\ Done(l, "saveQuestion")
        /\ store' = [store EXCEPT ![r].status = "completed"]
        /\ call' = [call EXCEPT ![l].pc = "ask", ![l].history = history,
                                ![l].verdict = "none"]
        /\ session' = [session EXCEPT
             ![c] = [Shows(c, history, "awaitingUserAnswer", 0) EXCEPT !.asker = l]]
        /\ queue' = Tail(queue)
        /\ UNCHANGED <<current, run, failures, consented>>

(* submitAnswer, with an answer or with none. *)
SubmitAnswer(c, verdict) ==
    /\ c = current
    /\ ~session[c].closed
    /\ session[c].phase = "awaitingUserAnswer"
    /\ Decides(session[c].asker, verdict)
    /\ UNCHANGED <<current, session, run, store, queue, failures, consented>>

Answered(l) ==
    LET c == call[l].session IN
    /\ call[l].pc = "ask"
    /\ call[l].verdict # "none"
    /\ session' = [session EXCEPT ![c].asker = 0]
    /\ IF call[l].verdict = "yes" /\ ~session[c].closed
       THEN Issues(l, "saveAnswer", queue)
       ELSE Returns(l) /\ UNCHANGED queue
    /\ UNCHANGED <<current, run, store, failures, consented>>

AnswerSaved(l) ==
    LET c == call[l].session IN
    /\ Done(l, "saveAnswer")
    /\ session' = [session EXCEPT
                     ![c] = Shows(c, call[l].history, "requesting", session[c].request)]
    /\ NextRound(l, call[l].history, call[l].round + 1, TRUE, store, Tail(queue))
    /\ UNCHANGED <<current, failures, consented>>

-----------------------------------------------------------------------------
(* Failure, cancellation, and the end of a controller. *)

(* Mutant: it completes with consent. *)
RefusesWithYes(completers) ==
    [l \in Calls |-> IF l \in completers /\ call[l].verdict = "none"
                     THEN [call[l] EXCEPT !.verdict = "yes"] ELSE call[l]]

(* Completes what is not completed yet with a refusal. *)
Refused(completers) ==
    [l \in Calls |-> IF l \in completers /\ call[l].verdict = "none"
                     THEN [call[l] EXCEPT !.verdict = "no"] ELSE call[l]]

Completers(c) == {session[c].approver, session[c].asker}

Throws(l) ==
    /\ call[l].pc \in Saving
    /\ Done(l, call[l].pc)
    /\ failures < MaxFailures
    /\ failures' = failures + 1

(* What throws before the loop, or beside it, is thrown at the caller. *)
ThrowsToCaller(l) ==
    /\ Throws(l)
    /\ \/ call[l].pc \in {"saveUser", "discard", "saveAgain", "discardResult", "deleteMessage"}
       \/ call[l].pc = "saveResult" /\ call[l].retry
    /\ Returns(l)
    /\ queue' = Tail(queue)
    /\ UNCHANGED <<current, session, run, store, consented>>

(* _recoverFromLoopFailure, up to the await of the last checkpoint.  The     *)
(* number of an answer that was never stored nor shown is free again, unless *)
(* a message of the user goes before it or a later number is in use.         *)
LoopFails(l) ==
    LET c == call[l].session
        r == call[l].reply
    IN  /\ Throws(l)
        /\ \/ call[l].pc \in {"savePlaceholder", "saveCall", "saveQuestion", "saveAnswer",
                              "saveFinal", "saveConversation"}
           \/ call[l].pc = "saveResult" /\ ~call[l].retry
        /\ call' = [Refused(Completers(c)) EXCEPT ![l].pc = "tailFailed"]
        /\ session' = [session EXCEPT ![c] = [Quiet(c) EXCEPT !.approver = 0, !.asker = 0]]
        /\ run' = IF /\ call[l].pc = "savePlaceholder"
                     /\ ~call[l].history[r].user
                     /\ \A x \in Used : x <= r
                  THEN [run EXCEPT ![r] = NewRun] ELSE run
        /\ queue' = Tail(queue)
        /\ UNCHANGED <<current, store, consented>>

(* Mutant: a message that is queued is not looked for. *)
UnsettledStreaming(messages) ==
    {r \in Replies : messages[r].status \in {"streaming", "interrupted"}}

(* The last message that is not settled fails with the loop. *)
Unsettled(messages) ==
    {r \in Replies : messages[r].status \in Open \cup {"interrupted"}}

Last(replies) == CHOOSE r \in replies : \A x \in replies : x <= r

Recovers(l) ==
    LET c == call[l].session
        view == session[c].view
        r == Last(Unsettled(view))
    IN  /\ call[l].pc = "tailFailed"
        /\ NoCheckpoint(c)
        /\ IF Unsettled(view) = {}
           THEN /\ session' = [session EXCEPT ![c] = Shows(c, view, "failed", 0)]
                /\ Returns(l)
                /\ UNCHANGED queue
           ELSE /\ call' = [call EXCEPT ![l].pc = "saveFailed", ![l].reply = r,
                                        ![l].history = [view EXCEPT ![r].status = "failed"]]
                /\ queue' = Append(queue, CallOp(l))
                /\ UNCHANGED session
        /\ UNCHANGED <<current, run, store, failures, consented>>

(* Stored or not, the failure is shown. *)
FailureSaved(l) ==
    LET c == call[l].session IN
    /\ Done(l, "saveFailed")
    /\ store' \in {store, [store EXCEPT ![call[l].reply].status = "failed"]}
    /\ session' = [session EXCEPT ![c] = Shows(c, call[l].history, "failed", 0)]
    /\ Returns(l)
    /\ queue' = Tail(queue)
    /\ UNCHANGED <<current, run, failures, consented>>

(* run.cancel() *)
CancelRun(r) ==
    [x \in Replies |-> IF x = r /\ run[x].state = "open"
                       THEN [run[x] EXCEPT !.cancelled = TRUE] ELSE run[x]]

(* stopStreaming, which the interface offers while a turn is under way. *)
Cancel(c) ==
    /\ c = current
    /\ ~session[c].closed
    /\ session[c].phase \notin {"loading", "ready", "failed"}
    /\ call' = Refused(Completers(c))
    /\ session' = [session EXCEPT ![c].phase = IF session[c].run = 0 THEN @ ELSE "cancelling"]
    /\ run' = CancelRun(session[c].run)
    /\ UNCHANGED <<current, store, queue, failures, consented>>

(* Mutant: the completers are dropped as they are. *)
CloseForgets(c) ==
    /\ c = current
    /\ c < MaxSessions
    /\ session[c].phase # "loading"
    /\ ~session[c].closed
    /\ session' = [session EXCEPT ![c].closed = TRUE, ![c].timer = 0,
                                  ![c].approver = 0, ![c].asker = 0]
    /\ run' = CancelRun(session[c].run)
    /\ UNCHANGED <<current, call, store, queue, failures, consented>>

(* _attachSession: the controller is closed, *)
Close(c) ==
    /\ c = current
    /\ c < MaxSessions
    /\ session[c].phase # "loading"
    /\ ~session[c].closed
    /\ call' = Refused(Completers(c))
    /\ session' = [session EXCEPT ![c].closed = TRUE, ![c].timer = 0,
                                  ![c].approver = 0, ![c].asker = 0]
    /\ run' = CancelRun(session[c].run)
    /\ UNCHANGED <<current, store, queue, failures, consented>>

(* and the next one is opened once the last checkpoint is written. *)
Attach(c) ==
    /\ c = current
    /\ session[c].closed
    /\ NoCheckpoint(c)
    /\ current' = c + 1
    /\ queue' = Append(queue, OpeningOp(c + 1))
    /\ UNCHANGED <<session, call, run, store, failures, consented>>

(* The app is killed and started again: what was under way is lost. *)
Restart(c) ==
    /\ c = current
    /\ c < MaxSessions
    /\ current' = c + 1
    /\ session' = [session EXCEPT ![c] = [NewSession EXCEPT !.closed = TRUE]]
    /\ call' = [l \in Calls |-> IF call[l].pc = "idle" THEN NewCall
                                ELSE [NewCall EXCEPT !.pc = "returned"]]
    /\ run' = [r \in Replies |-> IF run[r].state = "unused" THEN NewRun
                                 ELSE [run[r] EXCEPT !.state = "ended"]]
    /\ queue' = <<OpeningOp(c + 1)>>
    /\ UNCHANGED <<store, failures, consented>>

Opening(c) == queue # <<>> /\ Head(queue) = OpeningOp(c)

(* _initialize loads the messages, *)
Load(c) ==
    LET open == {r \in Replies : store[r].status \in Open} IN
    /\ Opening(c)
    /\ ~session[c].loaded
    /\ session' = [session EXCEPT ![c].loaded = TRUE, ![c].view = store,
                                  ![c].phase = IF open = {} THEN "ready" ELSE @]
    /\ queue' = IF open = {} THEN Tail(queue) ELSE Append(Tail(queue), OpeningOp(c))
    /\ UNCHANGED <<current, call, run, store, failures, consented>>

(* _repairInterruptedMessages, of the messages as they were loaded. *)
Repair(c) ==
    LET Repaired(messages) ==
          [r \in Replies |-> IF session[c].view[r].status \in Open
                             THEN [messages[r] EXCEPT !.status = "interrupted"]
                             ELSE messages[r]]
    IN  /\ Opening(c)
        /\ session[c].loaded
        /\ store' = Repaired(store)
        /\ session' = [session EXCEPT ![c].view = Repaired(@), ![c].phase = "ready"]
        /\ queue' = Tail(queue)
        /\ UNCHANGED <<current, call, run, failures, consented>>

-----------------------------------------------------------------------------
(* What the user does. *)
User ==
    \/ \E l \in Calls : SendText(l, current)
    \/ \E l \in Calls, r \in Replies :
          \/ Regenerate(l, current, r)
          \/ RetryTool(l, current, r)
          \/ \E part \in {"user", "status", "result"} : DeleteMessage(l, current, r, part)
    \/ Approve(current) \/ Reject(current)
    \/ \E verdict \in {"yes", "no"} : SubmitAnswer(current, verdict)
    \/ Cancel(current) \/ Close(current) \/ Restart(current)

Coroutine(l) ==
    \/ UserSaved(l) \/ Discarded(l) \/ SavedAgain(l) \/ ResultDiscarded(l)
    \/ MessageDeleted(l)
    \/ PlaceholderSaved(l) \/ EndsInQuestion(l) \/ EndsInCall(l) \/ Finishes(l)
    \/ TailAwaited(l) \/ FinalSaved(l) \/ ConversationSaved(l)
    \/ CallSaved(l) \/ Approved(l) \/ Rejected(l)
    \/ \E result \in {"ok", "failed"} : ToolReturns(l, result)
    \/ ResultSaved(l)
    \/ QuestionSaved(l) \/ Answered(l) \/ AnswerSaved(l)
    \/ ThrowsToCaller(l) \/ LoopFails(l) \/ Recovers(l) \/ FailureSaved(l)

RunEndsSomehow ==
    \E r \in Replies, risky \in BOOLEAN,
       outcome \in {"text", "tools", "question", "failed", "cancelled"} :
          RunEnds(r, outcome, risky)

Next ==
    \/ User
    \/ \E l \in Calls : HandleSnapshot(l) \/ Coroutine(l)
    \/ \E c \in Sessions : Checkpoint(c) \/ Attach(c) \/ Load(c) \/ Repair(c)
    \/ CheckpointSaved
    \/ RunEndsSomehow

Spec == Init /\ [][Next]_vars

(* The store, the transport (which has a timeout) and the tools come back,   *)
(* and what awaits them goes on.  Nothing is assumed of the user.            *)
FairSpec ==
    /\ Spec
    /\ WF_vars(\/ \E l \in Calls : Coroutine(l)
               \/ \E c \in Sessions : Attach(c) \/ Load(c) \/ Repair(c))
    /\ WF_vars(CheckpointSaved)
    /\ WF_vars(RunEndsSomehow)

-----------------------------------------------------------------------------
(* Properties. *)

(* A tool that needs approval is called only if the user has agreed to this  *)
(* call, or has asked for it again.                                          *)
OnlyConsentedToolsRun ==
    \A l \in Calls :
        call[l].pc = "tool" /\ run[call[l].reply].risky => call[l].reply \in consented

(* A turn whose answers have used up the budget of rounds is offered no more *)
(* tools, also when it is taken up again by calling its last tool again.     *)
BudgetIsKept ==
    \A l \in Calls :
        call[l].pc = "running" /\ RoundsInTurn(call[l].history) >= MaxRounds
        => ~OffersTools(l)

(* When nothing is under way, nothing is shown as if it were. *)
NothingOpen ==
    \A c \in Sessions :
        /\ session[c].phase \in {"ready", "failed"}
        /\ ~session[c].closed
        /\ \A l \in Calls : call[l].session = c => ~Live(l)
        => \A r \in Replies : session[c].view[r].status \notin Open

(* And what is shown is what a restart will load, unless the store has       *)
(* failed: only the refusals of tools are shown but not stored, and the      *)
(* record of a question may be overwritten by its last checkpoint.  (After a *)
(* replacement a call of the old controller may still settle its answer.)    *)
ShownIsStored ==
    LET shown == session[1].view IN
    /\ failures = 0
    /\ ~session[1].closed
    /\ session[1].phase \in {"ready", "failed"}
    /\ \A l \in Calls : ~Live(l)
    => \A r \in Replies :
          /\ shown[r].user = store[r].user
          /\ shown[r].status = store[r].status \/ run[r].outcome = "question"
          /\ shown[r].result = store[r].result \/ shown[r].result = "rejected"

(* A conversation at rest is shown as it is: a failure of the store, or a     *)
(* controller that was replaced in the middle of an answer, leaves no        *)
(* message behind that looks as if it were still coming in.                  *)
RestIsTrue == NothingOpen /\ ShownIsStored

(* A checkpoint does not overwrite the answer it is a part of, unless that   *)
(* is a question.                                                            *)
NoLateCheckpoint ==
    [][\A r \in Replies :
         store[r].status \in {"completed", "cancelled"} /\ run[r].outcome # "question"
           => store'[r].status # "streaming"]_vars

(* It has set up the completer that the user's verdict completes, and the     *)
(* user is asked (unless the controller had been closed before it came to    *)
(* that: then nobody is, and it waits for ever).                             *)
AwaitsVerdict(l) ==
    LET c == call[l].session IN
    \/ /\ call[l].pc = "approve"
       /\ session[c].approver = l
       /\ session[c].closed \/ session[c].phase = "awaitingToolApproval"
    \/ /\ call[l].pc = "ask"
       /\ session[c].asker = l
       /\ session[c].closed \/ session[c].phase = "awaitingUserAnswer"

(* Every call returns or waits for a verdict the user can give: neither a     *)
(* failure of the store nor a replacement of the controller leaves behind a  *)
(* call that was waiting already.                                            *)
CallsReturn ==
    <>[](\A l \in Calls : call[l].pc \in {"idle", "returned"} \/ AwaitsVerdict(l))

(* "rejects a second run in the same conversation" (the test of that name).  *)
OneRunAtATime ==
    \A r, x \in Replies :
        /\ {run[r].state, run[x].state} = {"open"}
        /\ ~run[r].cancelled /\ ~run[x].cancelled
        => r = x

InBetween(c) == ~session[c].closed /\ session[c].phase \in {"requesting", "streaming"}

(* The comment in _runAssistantLoop: whatever throws, the session does not   *)
(* stay "requesting" or "streaming" for ever.                                *)
NeverStuck == \A c \in Sessions : InBetween(c) ~> ~InBetween(c)
=============================================================================
