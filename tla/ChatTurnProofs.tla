---------------------------- MODULE ChatTurnProofs ----------------------------
(***************************************************************************)
(* What holds in the course of a turn: that the user has agreed to the      *)
(* tools it calls, when a call starts only after the one before it is       *)
(* shown, for then each controller has one call at a time, and what it      *)
(* shows is what that call asks; that the checkpoints of an answer come     *)
(* before its end, whatever overlaps; and that what is shown when nothing   *)
(* is under way is settled, and stored, where calls do not overlap.         *)
(***************************************************************************)
EXTENDS ChatSessionProofs

Alone ==
  \A k, l \in Calls : Active(k) /\ Active(l) /\ call[k].session = call[l].session => k = l

(* A completer of a controller that is not closed is that of a call that waits *)
(* for it.                                                                   *)
Completing(c) ==
  ~session[c].closed =>
     /\ session[c].approver # 0 => /\ call[session[c].approver].pc = "approve"
                                   /\ call[session[c].approver].session = c
     /\ session[c].asker # 0 => /\ call[session[c].asker].pc = "ask"
                                /\ call[session[c].asker].session = c

(* No request is under way when the user is asked, and what is shown is the    *)
(* call of the tool that the user is asked about.                            *)
Offered(l) ==
  LET c == call[l].session
      r == call[l].reply
  IN  /\ call[l].pc \in {"tailCall", "saveCall", "approve", "saveQuestion", "ask"}
           => session[c].run = 0
      /\ call[l].pc \in {"savePlaceholder", "running", "tailCall", "saveCall", "approve"}
           => call[l].history[r].result = "none"
      /\ call[l].pc \in {"tailCall", "saveCall", "approve"} => run[r].outcome = "tools"
      /\ call[l].pc = "approve" /\ ~session[c].closed =>
           session[c].phase = "awaitingToolApproval" /\ r \in Pending(session[c].view)
      /\ call[l].pc = "ask" /\ ~session[c].closed => session[c].phase = "awaitingUserAnswer"

Consented(l) ==
  /\ call[l].pc = "approve" /\ call[l].verdict = "yes" => call[l].reply \in consented
  /\ call[l].pc = "discardResult" => call[l].reply \in consented
  /\ call[l].pc = "tool" /\ run[call[l].reply].risky => call[l].reply \in consented

ConsentInv ==
  /\ IndInv /\ Alone
  /\ \A c \in Sessions : Completing(c)
  /\ \A l \in Calls : Offered(l) /\ Consented(l)

-------------------------------------------------------------------------------
(* What a step of a call shows of the verdict it waits for. *)

(* A completer is dropped, kept by a call that does not wait for it, or set up. *)
Sets(l, before, after, pc) ==
  after = 0 \/ (after = before /\ call[l].pc # pc) \/ (after = l /\ call'[l].pc = pc)

Offers(l) ==
  LET c == call[l].session IN
  /\ Sets(l, session[c].approver, session'[c].approver, "approve")
  /\ Sets(l, session[c].asker, session'[c].asker, "ask")
  /\ call'[l].pc \in {"tailCall", "saveQuestion"} => session'[c].run = 0
  /\ call'[l].pc \in {"saveCall", "approve", "ask"} => session'[c].run = session[c].run
  /\ call'[l].pc = "approve" =>
       /\ call'[l].verdict = "none"
       /\ ~session[c].closed => /\ session'[c].phase = "awaitingToolApproval"
                                /\ session'[c].view = call'[l].history
  /\ call'[l].pc = "ask" /\ ~session[c].closed => session'[c].phase = "awaitingUserAnswer"
  /\ call'[l].pc = "tool" =>
       /\ call[l].pc = "saveCall" => ~run[call[l].reply].risky
       /\ call[l].pc = "approve" => call[l].verdict = "yes"

(* The fields of a controller that shows something else. *)
LEMMA ShowsFields ==
  ASSUME IndInv, NEW c \in Sessions, NEW m, NEW p, NEW q
  PROVE  /\ Shows(c, m, p, q).approver = session[c].approver
         /\ Shows(c, m, p, q).asker = session[c].asker
         /\ Shows(c, m, p, q).run = session[c].run
         /\ Shows(c, m, p, q).timer = session[c].timer
         /\ ~session[c].closed => Shows(c, m, p, q).view = m /\ Shows(c, m, p, q).phase = p
         /\ DOMAIN Shows(c, m, p, q) = {"phase", "loaded", "closed", "view", "request", "run",
                                        "timer", "approver", "asker"}
<1>1. DOMAIN session[c] = {"phase", "loaded", "closed", "view", "request", "run", "timer",
                           "approver", "asker"}
  BY SessionFields DEF Controllers, IndInv
<1> QED
  BY <1>1 DEF Shows

(* Where a call comes from that is about to ask the user. *)
LEMMA CameFrom ==
  ASSUME IndInv, NEW l \in Calls, HandleSnapshot(l) \/ Coroutine(l)
  PROVE  /\ call'[l].pc \in {"tailCall", "tailFinal", "saveQuestion"} => call[l].pc = "running"
         /\ call'[l].pc = "saveCall" => call[l].pc = "tailCall"
         /\ call'[l].pc = "saveFinal" => call[l].pc = "tailFinal"
         /\ call'[l].pc = "approve" => call[l].pc = "saveCall"
         /\ call'[l].pc = "ask" => call[l].pc = "saveQuestion"
         /\ call'[l].pc = "tool" => call[l].pc \in {"saveCall", "approve", "discardResult"}
<1>1. Effect(l) /\ Typed
  BY Effects DEF IndInv
<1>2. CASE call[l].pc = "running" /\ UNCHANGED <<call, run>>
  BY <1>2
<1>3. CASE Asks(l)
  <2>1. call'[l].pc = "savePlaceholder"
    BY <1>1, <1>3, AsksFields, Zenon DEF AskingFor
  <2> QED
    BY <2>1
<1>4. CASE Sends(l)
  <2>1. call'[l].pc = "running" /\ call[l].pc = "savePlaceholder"
    BY <1>1, <1>4, MoveFields DEF Sends, Goes
  <2> QED
    BY <2>1
<1>5. CASE Moves(l) \/ Retries(l) \/ Fails(l) \/ Finds(l) \/ ComesBack(l)
  <2>1. CASE Moves(l)
    BY <2>1 DEF Moves, Completes, Asking, GoesOn
  <2>2. CASE Retries(l)
    BY <2>2 DEF Retries
  <2>3. CASE ComesBack(l)
    <3>1. call'[l].pc = "returned"
      BY <2>3 DEF ComesBack, NewCall
    <3> QED
      BY <3>1
  <2>4. CASE Fails(l)
    <3>1. call'[l].pc = "tailFailed"
      BY <2>4 DEF Fails
    <3> QED
      BY <3>1
  <2>5. CASE Finds(l)
    <3>1. call'[l].pc = "saveFailed"
      BY <2>5 DEF Finds
    <3> QED
      BY <3>1
  <2> QED
    BY <1>5, <2>1, <2>2, <2>3, <2>4, <2>5
<1> QED
  BY <1>1, <1>2, <1>3, <1>4, <1>5 DEF Effect

(* A step that shows no more than messages. *)
LEMMA OffersShown ==
  ASSUME IndInv, NEW l \in Calls, HandleSnapshot(l) \/ Coroutine(l),
         call[l].pc \notin {"running", "tailCall", "saveCall", "saveQuestion", "approve", "ask"},
         session'[call[l].session].approver = session[call[l].session].approver,
         session'[call[l].session].asker = session[call[l].session].asker
  PROVE  Offers(l)
<1>1. call'[l].pc \notin {"tailCall", "saveQuestion", "saveCall", "approve", "ask"}
  BY CameFrom
<1> QED
  BY <1>1 DEF Offers, Sets

LEMMA OffersShows ==
  ASSUME IndInv, NEW l \in Calls, HandleSnapshot(l) \/ Coroutine(l),
         call[l].pc \notin {"running", "tailCall", "saveCall", "saveQuestion", "approve", "ask"},
         call[l].session \in Sessions, NEW m, NEW p, NEW q,
         session' = [session EXCEPT ![call[l].session] = Shows(call[l].session, m, p, q)]
  PROVE  Offers(l)
<1>1. session'[call[l].session] = Shows(call[l].session, m, p, q)
  BY DEF IndInv, Typed
<1> QED
  BY <1>1, ShowsFields, OffersShown

LEMMA OffersTurn ==
  ASSUME IndInv, NEW l \in Calls,
         \/ UserSaved(l) \/ Discarded(l) \/ SavedAgain(l) \/ ResultDiscarded(l)
         \/ MessageDeleted(l)
  PROVE  Offers(l)
<1> DEFINE c == call[l].session
           r == call[l].reply
<1>1. /\ Active(l) /\ Coroutine(l) /\ c \in Sessions
      /\ call[l].pc \notin {"running", "tailCall", "saveCall", "saveQuestion", "approve", "ask"}
  <2>1. call[l].pc \in {"saveUser", "discard", "saveAgain", "discardResult", "deleteMessage"}
    BY Zenon DEF UserSaved, Discarded, SavedAgain, ResultDiscarded, MessageDeleted, Done
  <2> QED
    BY <2>1, CallFields DEF Coroutine, Active, IndInv
<1>2. CASE UserSaved(l) \/ Discarded(l)
  <2>1. UNCHANGED session
    BY <1>2 DEF UserSaved, Discarded
  <2> QED
    BY <1>1, <2>1, OffersShown
<1>3. CASE SavedAgain(l)
  <2> DEFINE history == Without(session[c].view, From(session[c].view, r))
  <2>1. session' = [session EXCEPT ![c] = Shows(c, history, session[c].phase, session[c].request)]
    BY <1>3 DEF SavedAgain
  <2> HIDE DEF history
  <2> QED
    BY <1>1, <2>1, OffersShows
<1>4. CASE ResultDiscarded(l)
  <2> DEFINE Kept(messages, later) == [Without(messages, From(later, r + 1))
                                         EXCEPT ![r].result = "none"]
             history == Kept(session[c].view, session[c].view)
  <2>1. session' = [session EXCEPT ![c] = Shows(c, history, "requesting", session[c].request)]
    BY <1>4, Zenon DEF ResultDiscarded
  <2> HIDE DEF history
  <2> QED
    BY <1>1, <2>1, OffersShows, Zenon
<1>5. CASE MessageDeleted(l)
  <2> DEFINE gone == [session[c].view EXCEPT ![r][call[l].part] = Nothing[call[l].part]]
  <2>1. session' = [session EXCEPT ![c] = Shows(c, gone, session[c].phase, session[c].request)]
    BY <1>5 DEF MessageDeleted
  <2> HIDE DEF gone
  <2> QED
    BY <1>1, <2>1, OffersShows
<1> QED
  BY <1>2, <1>3, <1>4, <1>5

LEMMA OffersRound ==
  ASSUME IndInv, NEW l \in Calls,
         \/ PlaceholderSaved(l) \/ EndsInQuestion(l) \/ EndsInCall(l) \/ Finishes(l)
         \/ TailAwaited(l) \/ FinalSaved(l) \/ ConversationSaved(l) \/ HandleSnapshot(l)
  PROVE  Offers(l)
<1> DEFINE c == call[l].session
           r == call[l].reply
<1>0. Active(l) /\ (HandleSnapshot(l) \/ Coroutine(l))
  <2>1. call[l].pc \in {"savePlaceholder", "running", "tailCall", "tailFinal", "saveFinal",
                        "saveConversation"}
    BY DEF PlaceholderSaved, EndsInQuestion, EndsInCall, Finishes, TailAwaited, FinalSaved,
           ConversationSaved, HandleSnapshot, Done, Ended
  <2> QED
    BY <2>1 DEF Coroutine, Active
<1>a. /\ c \in Sessions /\ session[c] \in Controllers /\ session \in [Sessions -> Controllers]
  BY <1>0, OwnPhase DEF IndInv, Typed
<1>b. /\ [session[c] EXCEPT !.run = 0].run = 0
      /\ [session[c] EXCEPT !.run = 0].approver = session[c].approver
      /\ [session[c] EXCEPT !.run = 0].asker = session[c].asker
      /\ Quiet(c).run = 0
      /\ Quiet(c).approver = session[c].approver /\ Quiet(c).asker = session[c].asker
  BY <1>a DEF Quiet, Controllers
<1>c. ASSUME session' = [session EXCEPT ![c] = Quiet(c)]
             \/ session' = [session EXCEPT ![c].run = 0],
             call[l].pc = "running"
      PROVE  Offers(l)
  <2>1. /\ session'[c].run = 0 /\ session'[c].approver = session[c].approver
        /\ session'[c].asker = session[c].asker
    BY <1>a, <1>b, <1>c
  <2>2. call'[l].pc \notin {"saveCall", "approve", "ask", "tool"}
    BY <1>0, <1>c, CameFrom
  <2> QED
    BY <1>c, <2>1, <2>2 DEF Offers, Sets
<1>1. CASE PlaceholderSaved(l)
  <2> DEFINE messages == [call[l].history EXCEPT ![r].status = "queued"]
             new == [Shows(c, messages, "requesting", r) EXCEPT !.run = r]
  <2>1. session' = [session EXCEPT ![c] = new] /\ call[l].pc = "savePlaceholder"
    BY <1>1 DEF PlaceholderSaved, Done
  <2> HIDE DEF messages
  <2>2. new.approver = session[c].approver /\ new.asker = session[c].asker
    BY <1>a, ShowsFields
  <2> HIDE DEF new
  <2> QED
    BY <1>0, <1>a, <2>1, <2>2, OffersShown
<1>2. CASE EndsInQuestion(l)
  BY <1>2, <1>c DEF EndsInQuestion, Ended
<1>3. CASE EndsInCall(l)
  BY <1>3, <1>c DEF EndsInCall, Ended
<1>4. CASE Finishes(l)
  BY <1>4, <1>c DEF Finishes, Ended
<1>5. CASE TailAwaited(l)
  <2>1. /\ UNCHANGED session /\ call[l].pc \in {"tailCall", "tailFinal"}
        /\ call'[l].pc \in {"saveCall", "saveFinal"}
    BY <1>5, PcSteps DEF TailAwaited
  <2> QED
    BY <2>1 DEF Offers, Sets
<1>6. CASE FinalSaved(l)
  <2>1. UNCHANGED session /\ call[l].pc = "saveFinal"
    BY <1>6 DEF FinalSaved, Done
  <2> QED
    BY <1>0, <2>1, OffersShown
<1>7. CASE ConversationSaved(l)
  <2> DEFINE settled == Settle(session[c].view, r, Outcome(r))
             phase == IF Outcome(r) = "failed" THEN "failed" ELSE "ready"
             new == [Shows(c, settled, phase, 0) EXCEPT !.run = 0]
  <2>1. session' = [session EXCEPT ![c] = new] /\ call[l].pc = "saveConversation"
    BY <1>7 DEF ConversationSaved, Done
  <2> HIDE DEF settled, phase
  <2>2. new.approver = session[c].approver /\ new.asker = session[c].asker
    BY <1>a, ShowsFields
  <2> HIDE DEF new
  <2> QED
    BY <1>0, <1>a, <2>1, <2>2, OffersShown
<1>8. CASE HandleSnapshot(l)
  <2> DEFINE new == [session[c] EXCEPT !.phase = "streaming", !.timer = r]
  <2>1. session' = [session EXCEPT ![c] = new]
    BY <1>8, <1>a DEF HandleSnapshot
  <2>2. new.approver = session[c].approver /\ new.asker = session[c].asker
    BY <1>a DEF Controllers
  <2>3. call' = call /\ call[l].pc = "running"
    BY <1>8 DEF HandleSnapshot
  <2> HIDE DEF new
  <2> QED
    BY <1>a, <2>1, <2>2, <2>3 DEF Offers, Sets
<1> QED
  BY <1>1, <1>2, <1>3, <1>4, <1>5, <1>6, <1>7, <1>8

LEMMA OffersTool ==
  ASSUME IndInv, NEW l \in Calls,
         \/ CallSaved(l) \/ Approved(l) \/ Rejected(l)
         \/ \E result \in {"ok", "failed"} : ToolReturns(l, result)
         \/ ResultSaved(l) \/ QuestionSaved(l) \/ Answered(l) \/ AnswerSaved(l)
  PROVE  Offers(l)
<1> DEFINE c == call[l].session
           r == call[l].reply
<1>0. Active(l) /\ Coroutine(l)
  <2>1. call[l].pc \in {"saveCall", "approve", "tool", "saveResult", "saveQuestion", "ask",
                        "saveAnswer"}
    BY Zenon DEF CallSaved, Approved, Rejected, ToolReturns, ResultSaved, QuestionSaved, Answered,
           AnswerSaved, Done
  <2> QED
    BY <2>1 DEF Coroutine, Active
<1>a. /\ c \in Sessions /\ session[c] \in Controllers /\ session \in [Sessions -> Controllers]
      /\ call[l] \in Coroutines /\ call \in [Calls -> Coroutines]
  BY <1>0, OwnPhase DEF IndInv, Typed
<1>1. CASE CallSaved(l)
  <2> DEFINE history == [call[l].history EXCEPT ![r].status = "completed"]
             pc == IF run[r].risky THEN "approve" ELSE "tool"
             new == [call[l] EXCEPT !.history = history, !.verdict = "none", !.pc = pc]
  <2>1. call' = [call EXCEPT ![l] = new] /\ call[l].pc = "saveCall"
    BY <1>1, <1>a DEF CallSaved, Done
  <2> DEFINE asks == [Shows(c, history, "awaitingToolApproval", 0) EXCEPT !.approver = l]
             goes == Shows(c, history, "requesting", 0)
  <2>2. session' = [session EXCEPT ![c] = IF run[r].risky THEN asks ELSE goes]
    BY <1>1 DEF CallSaved
  <2>3. pc = IF run[r].risky THEN "approve" ELSE "tool"
    OBVIOUS
  <2> HIDE DEF history, pc
  <2>4. new.pc = pc /\ new.history = history /\ new.verdict = "none"
    BY <1>a DEF Coroutines
  <2> HIDE DEF new
  <2>5. call'[l].pc = pc /\ call'[l].history = history /\ call'[l].verdict = "none"
    BY <1>a, <2>1, <2>4
  <2>8. /\ asks.approver = l /\ asks.asker = session[c].asker /\ asks.run = session[c].run
        /\ ~session[c].closed => asks.view = history /\ asks.phase = "awaitingToolApproval"
        /\ goes.approver = session[c].approver /\ goes.asker = session[c].asker
    BY <1>a, ShowsFields
  <2> HIDE DEF asks, goes
  <2>6. CASE run[r].risky
    BY <1>a, <2>1, <2>2, <2>3, <2>5, <2>6, <2>8 DEF Offers, Sets
  <2>7. CASE ~run[r].risky
    BY <1>a, <2>1, <2>2, <2>3, <2>5, <2>7, <2>8 DEF Offers, Sets
  <2> QED
    BY <2>6, <2>7
<1>2. CASE Approved(l)
  <2> DEFINE new == [Shows(c, call[l].history, "requesting", 0) EXCEPT !.approver = 0]
  <2>1. /\ session' = [session EXCEPT ![c] = new]
        /\ call[l].pc = "approve" /\ call[l].verdict = "yes"
    BY <1>2 DEF Approved
  <2>2. call'[l].pc = "tool"
    BY <1>2, PcSteps DEF Approved
  <2>3. session'[c].approver = 0 /\ session'[c].asker = session[c].asker
    <3>1. new.approver = 0 /\ new.asker = session[c].asker
      BY <1>a, ShowsFields
    <3> HIDE DEF new
    <3> QED
      BY <1>a, <2>1, <3>1
  <2> QED
    BY <2>1, <2>2, <2>3 DEF Offers, Sets
<1>3. CASE Rejected(l)
  <2> DEFINE history == [call[l].history EXCEPT ![r].result = "rejected"]
             new == [Shows(c, history, "requesting", 0) EXCEPT !.approver = 0]
  <2>1. /\ session' = [session EXCEPT ![c] = new]
        /\ NextRound(l, history, call[l].round + 1, FALSE, store, queue)
        /\ call[l].pc = "approve"
    BY <1>3 DEF Rejected
  <2> HIDE DEF history
  <2>2. call'[l].pc = "savePlaceholder"
    BY <2>1, OwingPcs, NextRoundStep
  <2>3. session'[c].approver = 0 /\ session'[c].asker = session[c].asker
    <3>1. new.approver = 0 /\ new.asker = session[c].asker
      BY <1>a, ShowsFields
    <3> HIDE DEF new
    <3> QED
      BY <1>a, <2>1, <3>1
  <2> QED
    BY <2>1, <2>2, <2>3 DEF Offers, Sets
<1>4. ASSUME NEW result \in {"ok", "failed"}, ToolReturns(l, result) PROVE Offers(l)
  <2>1. UNCHANGED session /\ call[l].pc = "tool"
    BY <1>4 DEF ToolReturns
  <2> QED
    BY <1>0, <2>1, OffersShown
<1>5. CASE ResultSaved(l)
  <2> DEFINE history == [call[l].history EXCEPT ![r].result = call[l].verdict]
             shown == [session[c].view EXCEPT ![r].result = call[l].verdict]
             request == session[c].request
  <2>1. /\ \/ session' = [session EXCEPT ![c] = Shows(c, shown, "requesting", request)]
           \/ session' = [session EXCEPT ![c] = Shows(c, history, "requesting", 0)]
        /\ call[l].pc = "saveResult"
    BY <1>5 DEF ResultSaved, Done
  <2> HIDE DEF history, shown, request
  <2> QED
    BY <1>0, <1>a, <2>1, OffersShows
<1>6. CASE QuestionSaved(l)
  <2> DEFINE history == Settle(session[c].view, r, "completed")
             new == [call[l] EXCEPT !.pc = "ask", !.history = history, !.verdict = "none"]
             asks == [Shows(c, history, "awaitingUserAnswer", 0) EXCEPT !.asker = l]
  <2>1. /\ call' = [call EXCEPT ![l] = new] /\ call[l].pc = "saveQuestion"
        /\ session' = [session EXCEPT ![c] = asks]
    BY <1>6, <1>a DEF QuestionSaved, Done
  <2> HIDE DEF history
  <2>2. new.pc = "ask"
    BY <1>a DEF Coroutines
  <2> HIDE DEF new
  <2>3. call'[l].pc = "ask"
    BY <1>a, <2>1, <2>2
  <2>4. /\ session'[c].approver = session[c].approver /\ session'[c].asker = l
        /\ session'[c].run = session[c].run
        /\ ~session[c].closed => session'[c].phase = "awaitingUserAnswer"
    <3>1. /\ asks.approver = session[c].approver /\ asks.asker = l /\ asks.run = session[c].run
          /\ ~session[c].closed => asks.phase = "awaitingUserAnswer"
      BY <1>a, ShowsFields
    <3> HIDE DEF asks
    <3> QED
      BY <1>a, <2>1, <3>1
  <2> QED
    BY <2>1, <2>3, <2>4 DEF Offers, Sets
<1>7. CASE Answered(l)
  <2>1. session' = [session EXCEPT ![c] = [session[c] EXCEPT !.asker = 0]] /\ call[l].pc = "ask"
    BY <1>7 DEF Answered
  <2>2. /\ [session[c] EXCEPT !.asker = 0].asker = 0
        /\ [session[c] EXCEPT !.asker = 0].approver = session[c].approver
    BY <1>a DEF Controllers
  <2>3. call'[l].pc \in {"saveAnswer", "returned"}
    BY <1>7, PcSteps DEF Answered
  <2> QED
    BY <1>a, <2>1, <2>2, <2>3 DEF Offers, Sets
<1>8. CASE AnswerSaved(l)
  <2>1. /\ session' = [session EXCEPT ![c] = Shows(c, call[l].history, "requesting",
                                                   session[c].request)]
        /\ call[l].pc = "saveAnswer"
    BY <1>8 DEF AnswerSaved, Done
  <2> QED
    BY <1>0, <1>a, <2>1, OffersShows
<1> QED
  BY <1>1, <1>2, <1>3, <1>4, <1>5, <1>6, <1>7, <1>8

LEMMA OffersFailure ==
  ASSUME IndInv, NEW l \in Calls,
         ThrowsToCaller(l) \/ LoopFails(l) \/ Recovers(l) \/ FailureSaved(l)
  PROVE  Offers(l)
<1> DEFINE c == call[l].session
<1>0. Active(l) /\ Coroutine(l)
  BY Zenon DEF ThrowsToCaller, LoopFails, Throws, Recovers, FailureSaved, Done, Active, Saving, Coroutine
<1>a. /\ c \in Sessions /\ session[c] \in Controllers /\ session \in [Sessions -> Controllers]
  BY <1>0, OwnPhase DEF IndInv, Typed
<1>1. CASE ThrowsToCaller(l)
  <2>1. /\ UNCHANGED session
        /\ call[l].pc \in {"saveUser", "discard", "saveAgain", "discardResult", "deleteMessage",
                           "saveResult"}
    BY <1>1 DEF ThrowsToCaller
  <2> QED
    BY <1>0, <2>1, OffersShown
<1>2. CASE LoopFails(l)
  <2> DEFINE new == [Quiet(c) EXCEPT !.approver = 0, !.asker = 0]
  <2>1. session' = [session EXCEPT ![c] = new]
    BY <1>2 DEF LoopFails
  <2>2. new.approver = 0 /\ new.asker = 0
    BY <1>a DEF Quiet, Controllers
  <2>3. call'[l].pc = "tailFailed"
    <3> DEFINE refused == Refused(Completers(c))
    <3>1. call' = [refused EXCEPT ![l].pc = "tailFailed"]
      BY <1>2 DEF LoopFails
    <3>2. refused \in [Calls -> Coroutines]
      BY RefusedType DEF IndInv
    <3> HIDE DEF refused
    <3> QED
      BY <3>1, <3>2 DEF Coroutines
  <2> HIDE DEF new
  <2> QED
    BY <1>a, <2>1, <2>2, <2>3 DEF Offers, Sets
<1>3. CASE Recovers(l)
  <2>1. /\ \/ UNCHANGED session
           \/ session' = [session EXCEPT ![c] = Shows(c, session[c].view, "failed", 0)]
        /\ call[l].pc = "tailFailed"
    BY <1>3, Zenon DEF Recovers
  <2> QED
    BY <1>0, <1>a, <2>1, OffersShown, OffersShows
<1>4. CASE FailureSaved(l)
  <2>1. /\ session' = [session EXCEPT ![c] = Shows(c, call[l].history, "failed", 0)]
        /\ call[l].pc = "saveFailed"
    BY <1>4 DEF FailureSaved, Done
  <2> QED
    BY <1>0, <1>a, <2>1, OffersShows
<1> QED
  BY <1>1, <1>2, <1>3, <1>4

LEMMA OffersAlways ==
  ASSUME IndInv, NEW l \in Calls, HandleSnapshot(l) \/ Coroutine(l)
  PROVE  Offers(l)
BY OffersTurn, OffersRound, OffersTool, OffersFailure DEF Coroutine

-------------------------------------------------------------------------------
(* The steps of calls. *)

(* Who has agreed once has agreed. *)
LEMMA ConsentGrows == ASSUME [Next]_vars PROVE consented \subseteq consented'
<1>1. User => consented \subseteq consented'
  BY DEF User, SendText, Regenerate, RetryTool, DeleteMessage, Approve, Reject, SubmitAnswer,
         Cancel, Close, Restart
<1>2. ASSUME NEW l \in Calls, HandleSnapshot(l) \/ Coroutine(l) PROVE consented' = consented
  BY <1>2, Zenon DEF HandleSnapshot, Coroutine, UserSaved, Discarded, SavedAgain, ResultDiscarded,
       MessageDeleted, PlaceholderSaved, EndsInQuestion, EndsInCall, Finishes, TailAwaited,
       FinalSaved, ConversationSaved, CallSaved, Approved, Rejected, ToolReturns, ResultSaved,
       QuestionSaved, Answered, AnswerSaved, ThrowsToCaller, LoopFails, Recovers, FailureSaved
<1>3. ASSUME NEW c \in Sessions, Checkpoint(c) \/ Attach(c) \/ Load(c) \/ Repair(c)
      PROVE  consented' = consented
  BY <1>3 DEF Checkpoint, Attach, Load, Repair
<1>4. CheckpointSaved \/ RunEndsSomehow \/ UNCHANGED vars => consented' = consented
  BY Zenon DEF CheckpointSaved, RunEndsSomehow, RunEnds, vars
<1> QED
  BY <1>1, <1>2, <1>3, <1>4 DEF Next

(* A call that the step leaves alone, in a controller that it leaves alone. *)
LEMMA OthersOffered ==
  ASSUME IndInv, EndedKept, consented \subseteq consented', NEW k \in Calls,
         Offered(k), Consented(k),
         /\ call'[k].pc = call[k].pc /\ call'[k].session = call[k].session
         /\ call'[k].reply = call[k].reply /\ call'[k].history = call[k].history
         /\ call'[k].verdict # "yes" \/ call[k].verdict = "yes",
         Active(k) => /\ session'[call[k].session].closed = session[call[k].session].closed
                      /\ session'[call[k].session].run = session[call[k].session].run
                      /\ session'[call[k].session].phase = session[call[k].session].phase
                      /\ session'[call[k].session].view = session[call[k].session].view
  PROVE  Offered(k)' /\ Consented(k)'
<1> DEFINE r == call[k].reply
           c == call[k].session
<1>1. call[k].pc \in {"tailCall", "saveCall", "approve", "tool"} => 
        /\ run'[r].outcome = run[r].outcome /\ run'[r].risky = run[r].risky
  <2>1. call[k].pc \in {"tailCall", "saveCall", "approve", "tool"} => call[k].pc \in After
    BY DEF After, Loop
  <2> QED
    BY <2>1, EndedUsed DEF EndedKept
<1>2. CASE ~Active(k)
  BY <1>2 DEF Active, Offered, Consented
<1>3. CASE Active(k)
  <2>1. call[k].pc = "approve" /\ ~session[c].closed =>
          /\ session[c].phase = "awaitingToolApproval"
          /\ r \in Replies /\ session[c].view[r].status = "completed"
          /\ run[r].outcome = "tools" /\ session[c].view[r].result = "none"
    BY DEF Offered, Pending, Calling
  <2>2. Offered(k)'
    <3>1. call'[k].pc = "approve" /\ ~session'[c].closed =>
            session'[c].phase = "awaitingToolApproval" /\ (r \in Pending(session[c].view))'
      BY <1>1, <1>3, <2>1 DEF Pending, Calling
    <3> QED
      BY <1>1, <1>3, <3>1 DEF Offered
  <2>3. Consented(k)'
    BY <1>1, <1>3 DEF Consented
  <2> QED
    BY <2>2, <2>3
<1> QED
  BY <1>2, <1>3

(* The call that steps. *)
LEMMA OwnOffered ==
  ASSUME ConsentInv, NEW l \in Calls, HandleSnapshot(l) \/ Coroutine(l),
         consented \subseteq consented'
  PROVE  Offered(l)' /\ Consented(l)'
<1> DEFINE c == call[l].session
           r == call[l].reply
<1>0. /\ IndInv /\ Typed /\ Effect(l) /\ CallStep(l) /\ Offers(l) /\ EndedKept
      /\ Offered(l) /\ Consented(l)
  BY Effects, CallSteps, OffersAlways, EffectRuns DEF ConsentInv, IndInv
<1>a. /\ c \in Sessions /\ session'[c].closed = session[c].closed
      /\ call'[l].pc # "returned" => call'[l].session = c
  BY <1>0, CallFields DEF CallStep, LeavesSessions
<1>b. call[l] \in Coroutines /\ call[l].history \in Messages
  BY <1>0, CallFields
<1>c. (\/ call[l].pc \in {"saveCall", "tailCall", "approve", "discardResult"}
       \/ call[l].pc = "running" /\ run[r].state = "ended")
         => run'[r].outcome = run[r].outcome /\ run'[r].risky = run[r].risky
  <2>1. call[l].pc \in {"saveCall", "tailCall", "approve", "discardResult"} => call[l].pc \in After
    BY DEF After, Loop
  <2>2. call[l].pc = "running" => r \in Replies
    BY <1>0, NumberedPcs DEF Numbered, Loop, IndInv
  <2> QED
    BY <1>0, <2>1, <2>2, EndedUsed DEF EndedKept
<1>1. CASE call'[l].pc \in {"savePlaceholder", "running"}
  <2>1. call'[l].history[call'[l].reply].result = "none"
    <3>1. CASE Asks(l)
      <4>1. PICK x \in Replies, history \in Messages, round \in Nat, asked \in BOOLEAN,
                 stored \in Messages : AskingFor(l, x, history, round, asked, stored)
        BY <1>0, <3>1, AsksFields
      <4>2. history[x].result = "none"
        BY <4>1 DEF AskingFor, Backed
      <4>3. [history EXCEPT ![x].user = asked][x].result = history[x].result
        BY DEF Messages
      <4> QED
        BY <4>1, <4>2, <4>3 DEF AskingFor
    <3>2. CASE Sends(l)
      <4>1. call'[l].reply = r /\ call'[l].history = call[l].history
        BY <1>0, <3>2, MoveFields DEF Sends, Goes
      <4> QED
        BY <1>0, <3>2, <4>1 DEF Sends, Offered
    <3>3. CASE call[l].pc = "running" /\ UNCHANGED <<call, run>>
      BY <1>0, <3>3 DEF Offered
    <3>4. ~(Moves(l) \/ Retries(l) \/ Fails(l) \/ Finds(l) \/ ComesBack(l))
      BY <1>1, Zenon DEF Moves, Completes, Asking, GoesOn, Retries, Fails, Finds, ComesBack, NewCall
    <3> QED
      BY <1>0, <3>1, <3>2, <3>3, <3>4 DEF Effect
  <2> QED
    BY <1>1, <2>1 DEF Offered, Consented
<1>2. CASE call'[l].pc \in {"tailCall", "saveCall", "saveQuestion", "ask", "approve", "tool"}
  <2>1. /\ UNCHANGED run /\ call'[l].reply = r
        /\ Completes(l) \/ Asking(l) \/ GoesOn(l) \/ Retries(l)
    <3>1. ~(call[l].pc = "running" /\ UNCHANGED <<call, run>>)
      BY <1>0, <1>2, CameFrom
    <3>2. Asks(l) => call'[l].pc = "savePlaceholder"
      BY <1>0, AsksFields, Zenon DEF AskingFor
    <3>3. Sends(l) => call'[l].pc = "running"
      BY <1>0, MoveFields DEF Sends, Goes
    <3>4. ~(Fails(l) \/ Finds(l) \/ ComesBack(l))
      BY <1>2 DEF Fails, Finds, ComesBack, NewCall
    <3> QED
      BY <1>0, <1>2, <3>1, <3>2, <3>3, <3>4, Zenon DEF Effect, Moves, Retries
  <2>2. CASE call'[l].pc \in {"tailCall", "saveCall"}
    <3>1. GoesOn(l) /\ call'[l].history = call[l].history
      BY <2>1, <2>2, Zenon DEF Completes, Asking, GoesOn, Retries
    <3>2. /\ call[l].pc \in {"running", "tailCall"} 
          /\ call'[l].pc = "tailCall" => call[l].pc = "running" /\ CallsTool(l)
          /\ call'[l].pc = "saveCall" => call[l].pc = "tailCall"
      BY <2>2, <3>1 DEF GoesOn
    <3>3. run[r].outcome = "tools" /\ call[l].history[r].result = "none"
      BY <1>0, <3>2, <2>2 DEF Offered, CallsTool
    <3>4. session'[c].run = 0
      BY <1>0, <2>2, <3>2 DEF Offers, Offered
    <3> QED
      BY <1>a, <2>1, <2>2, <3>1, <3>3, <3>4 DEF Offered, Consented
  <2>3. CASE call'[l].pc = "saveQuestion"
    BY <1>0, <1>a, <2>3 DEF Offered, Consented, Offers
  <2>4. CASE call'[l].pc = "ask"
    BY <1>0, <1>a, <2>4, CameFrom DEF Offered, Consented, Offers
  <2>5. CASE call'[l].pc = "approve"
    <3>1. call[l].pc = "saveCall"
      BY <1>0, <2>5, CameFrom
    <3>2. call'[l].history = [call[l].history EXCEPT ![r].status = "completed"]
      <4>1. ~Asking(l) /\ ~GoesOn(l) /\ ~Retries(l)
        BY <3>1 DEF Asking, GoesOn, Retries
      <4> QED
        BY <2>1, <4>1 DEF Completes
    <3>3. r \in Replies
      BY <1>0, <3>1, NumberedPcs DEF Numbered, Loop, IndInv
    <3>4. /\ call'[l].history[r].status = "completed"
          /\ call'[l].history[r].result = "none"
      <4>1. call[l].history[r].result = "none"
        BY <1>0, <3>1 DEF Offered
      <4> QED
        BY <1>b, <3>2, <3>3, <4>1 DEF Messages
    <3>5. run'[r].outcome = "tools" /\ session'[c].run = 0
      BY <1>0, <2>1, <2>5, <3>1 DEF Offered, Offers
    <3>6. ~session[c].closed => /\ session'[c].phase = "awaitingToolApproval"
                                /\ session'[c].view = call'[l].history
      BY <1>0, <2>5 DEF Offers
    <3>7. ~session[c].closed => (call[l].reply \in Pending(session[c].view))'
      BY <1>a, <2>1, <2>5, <3>3, <3>4, <3>5, <3>6 DEF Pending, Calling
    <3>8. Offered(l)'
      BY <1>a, <2>1, <2>5, <3>4, <3>5, <3>6, <3>7 DEF Offered
    <3>9. call'[l].verdict = "none"
      BY <1>0, <2>5 DEF Offers
    <3> QED
      BY <2>5, <3>8, <3>9 DEF Consented
  <2>6. CASE call'[l].pc = "tool"
    <3>1. call[l].pc \in {"saveCall", "approve", "discardResult"}
      BY <1>0, <2>6, CameFrom
    <3>2. run[r].risky => r \in consented
      BY <1>0, <2>6, <3>1 DEF Offers, Consented
    <3>3. run'[call'[l].reply].risky => call'[l].reply \in consented'
      BY <2>1, <3>2
    <3>4. Offered(l)'
      BY <2>6 DEF Offered
    <3>5. Consented(l)'
      BY <2>6, <3>3 DEF Consented
    <3> QED
      BY <3>4, <3>5
  <2> QED
    BY <1>2, <2>2, <2>3, <2>4, <2>5, <2>6
<1>3. CASE call'[l].pc = "discardResult"
  <2>1. ~(Moves(l) \/ Retries(l) \/ Fails(l) \/ Finds(l) \/ ComesBack(l))
    BY <1>3 DEF Moves, Completes, Asking, GoesOn, Retries, Fails, Finds, ComesBack, NewCall
  <2>2. Asks(l) => call'[l].pc = "savePlaceholder"
    BY <1>0, AsksFields, Zenon DEF AskingFor
  <2>3. Sends(l) => call'[l].pc = "running"
    BY <1>0, MoveFields DEF Sends, Goes
  <2>4. ~(call[l].pc = "running" /\ UNCHANGED <<call, run>>)
    BY <1>3
  <2> QED
    BY <1>0, <1>3, <2>1, <2>2, <2>3, <2>4 DEF Effect
<1> QED
  BY <1>1, <1>2, <1>3 DEF Offered, Consented

LEMMA ConsentCallStep ==
  ASSUME ConsentInv, NEW l \in Calls, HandleSnapshot(l) \/ Coroutine(l)
  PROVE  ConsentInv'
<1> DEFINE c == call[l].session
<1>0. /\ IndInv /\ Typed /\ CallStep(l) /\ Offers(l) /\ EndedKept /\ Active(l)
      /\ LeavesCalls(l) /\ LeavesSessions(l)
  BY Effects, CallSteps, OffersAlways, EffectRuns DEF ConsentInv, IndInv, CallStep
<1>1. IndInv' /\ consented \subseteq consented'
  <2>1. Next
    BY DEF Next
  <2> QED
    BY <1>0, <2>1, InvCallStep, ConsentGrows
<1>2. \A k \in Calls : Active(k)' => Active(k) /\ call'[k].session = call[k].session
  <2>1. ASSUME NEW k \in Calls, k # l, Active(k)'
        PROVE  Active(k) /\ call'[k].session = call[k].session
    BY <1>0, <2>1 DEF LeavesCalls, Active
  <2>2. Active(l)' => call'[l].session = c
    BY <1>0 DEF CallStep, Active
  <2> QED
    BY <1>0, <2>1, <2>2
<1>3. Alone'
  BY <1>2 DEF ConsentInv, Alone
<1>4. ASSUME NEW d \in Sessions PROVE Completing(d)'
  <2>1. session[d].approver \in Calls \cup {0} /\ session[d].asker \in Calls \cup {0}
    BY <1>0, SessionFields, Bounds DEF Calls
  <2>2. CASE d # c
    <3>1. session'[d] = session[d]
      BY <1>0, <2>2 DEF LeavesSessions
    <3>2. \A k \in Calls : call[k].session = d => /\ call'[k].session = d
                                                  /\ call'[k].pc = call[k].pc
      BY <1>0, <2>2 DEF LeavesCalls
    <3> QED
      BY <2>1, <3>1, <3>2 DEF Completing, ConsentInv
  <2>3. CASE d = c
    <3>1. session'[c].closed = session[c].closed
      BY <1>0 DEF LeavesSessions
    <3>2. \A k \in Calls : call[k].pc \in {"approve", "ask"} /\ call[k].session = c => k = l
      BY <1>0 DEF ConsentInv, Alone, Active
    <3>3. call'[l].pc \in {"approve", "ask"} => call'[l].session = c
      BY <1>0 DEF CallStep
    <3>4. ASSUME ~session[c].closed, session'[c].approver # 0
          PROVE  /\ call'[session'[c].approver].pc = "approve"
                 /\ call'[session'[c].approver].session = c
      <4>1. session[c].approver # 0 => /\ session[c].approver = l /\ call[l].pc = "approve"
        BY <2>1, <2>3, <3>2, <3>4 DEF ConsentInv, Completing
      <4> QED
        BY <1>0, <3>3, <3>4, <4>1 DEF Offers, Sets
    <3>5. ASSUME ~session[c].closed, session'[c].asker # 0
          PROVE  /\ call'[session'[c].asker].pc = "ask"
                 /\ call'[session'[c].asker].session = c
      <4>1. session[c].asker # 0 => /\ session[c].asker = l /\ call[l].pc = "ask"
        BY <2>1, <2>3, <3>2, <3>5 DEF ConsentInv, Completing
      <4> QED
        BY <1>0, <3>3, <3>5, <4>1 DEF Offers, Sets
    <3> QED
      BY <2>3, <3>1, <3>4, <3>5 DEF Completing
  <2> QED
    BY <2>2, <2>3
<1>5. ASSUME NEW k \in Calls PROVE Offered(k)' /\ Consented(k)'
  <2>1. CASE k = l
    BY <1>1, <2>1, OwnOffered
  <2>2. CASE k # l
    <3>1. /\ call'[k].pc = call[k].pc /\ call'[k].session = call[k].session
          /\ call'[k].reply = call[k].reply /\ call'[k].history = call[k].history
          /\ call'[k].verdict # "yes" \/ call[k].verdict = "yes"
      BY <1>0, <2>2 DEF LeavesCalls
    <3>2. Active(k) => session'[call[k].session] = session[call[k].session]
      <4>1. Active(k) => call[k].session # c /\ call[k].session \in Sessions
        BY <1>0, <2>2, CallFields DEF ConsentInv, Alone
      <4> QED
        BY <1>0, <4>1 DEF LeavesSessions
    <3> QED
      BY <1>0, <1>1, <3>1, <3>2, OthersOffered DEF ConsentInv
  <2> QED
    BY <2>1, <2>2
<1> QED
  BY <1>1, <1>3, <1>4, <1>5 DEF ConsentInv

-------------------------------------------------------------------------------
(* The steps of the user, and the rest. *)

(* A call starts where no other is under way. *)
LEMMA ConsentStarting ==
  ASSUME ~Overlapping, ConsentInv, Starting, IndInv', consented \subseteq consented'
  PROVE  ConsentInv'
<1>1. PICK l \in Calls, pc \in {"saveUser", "discard", "discardResult", "deleteMessage"},
          r \in Replies \cup {0}, part \in Parts \cup {"none"} :
          /\ Started(l, pc, r, part)
          /\ pc = "discardResult" => r \in consented'
  BY DEF Starting
<1>2. /\ call[l].pc = "idle" /\ call'[l].pc = pc /\ call'[l].session = current
      /\ call'[l].reply = r /\ LeavesCalls(l) /\ CanStart(current)
      /\ UNCHANGED <<current, session, run, store>>
      /\ IndInv
  BY <1>1 DEF Started, ConsentInv
<1>3. \A k \in Calls : Active(k) => call[k].session # current
  <2>1. ASSUME NEW k \in Calls, Active(k), call[k].session = current PROVE FALSE
    <3>1. ~Live(k) /\ ~session[current].closed /\ session[current].phase \in {"ready", "failed"}
      BY <1>2, <2>1 DEF CanStart
    <3>2. call[k].pc \in {"approve", "ask"}
      BY <2>1, <3>1 DEF Live, Active
    <3> QED
      BY <2>1, <3>1, <3>2 DEF ConsentInv, Offered
  <2> QED
    BY <2>1
<1>4. EndedKept
  BY <1>2 DEF EndedKept
<1>5. Alone'
  <2>1. \A k \in Calls : k # l => /\ call'[k].pc = call[k].pc
                                  /\ call'[k].session = call[k].session
    BY <1>2 DEF LeavesCalls
  <2> QED
    BY <1>2, <1>3, <2>1 DEF ConsentInv, Alone, Active
<1>6. ASSUME NEW c \in Sessions PROVE Completing(c)'
  <2>1. session[c].approver \in Calls \cup {0} /\ session[c].asker \in Calls \cup {0}
    BY <1>2, SessionFields, Bounds DEF Calls, IndInv
  <2>2. \A k \in Calls : call[k].pc \in {"approve", "ask"} => /\ call'[k].pc = call[k].pc
                                                           /\ call'[k].session = call[k].session
    BY <1>2 DEF LeavesCalls
  <2> QED
    BY <1>2, <2>1, <2>2 DEF ConsentInv, Completing
<1>7. ASSUME NEW k \in Calls PROVE Offered(k)' /\ Consented(k)'
  <2>1. CASE k # l
    <3>1. /\ call'[k].pc = call[k].pc /\ call'[k].session = call[k].session
          /\ call'[k].reply = call[k].reply /\ call'[k].history = call[k].history
          /\ call'[k].verdict # "yes" \/ call[k].verdict = "yes"
      BY <1>2, <2>1 DEF LeavesCalls
    <3> QED
      BY <1>2, <1>4, <3>1, OthersOffered DEF ConsentInv
  <2>2. CASE k = l
    BY <1>1, <1>2, <2>2 DEF Offered, Consented
  <2> QED
    BY <2>1, <2>2
<1> QED
  BY <1>5, <1>6, <1>7 DEF ConsentInv

(* The user agrees to the call that is shown. *)
LEMMA Agreement ==
  ASSUME ConsentInv, Interferes, NEW k \in Calls, call'[k].verdict = "yes",
         call[k].verdict # "yes", call[k].pc = "approve"
  PROVE  call[k].reply \in consented'
<1>0. /\ Typed /\ current \in Sessions
      /\ call \in [Calls -> Coroutines] /\ \A l \in Calls : call[l] \in Coroutines
      /\ session[current].approver \in 0 .. MaxCalls /\ session[current].asker \in 0 .. MaxCalls
  BY SessionFields DEF ConsentInv, IndInv, Typed
<1>1. ASSUME NEW l, l \in 0 .. MaxCalls, NEW verdict, Decides(l, verdict)
      PROVE  l \in Calls /\ l = k /\ verdict = "yes"
  <2>1. l \in Calls
    BY <1>0, <1>1, DecidesStep
  <2>2. call' = [call EXCEPT ![l] = [call[l] EXCEPT !.verdict = verdict]]
    BY <1>0, <1>1, <2>1 DEF Decides
  <2>3. [call[l] EXCEPT !.verdict = verdict].verdict = verdict
    BY <1>0, <2>1 DEF Coroutines
  <2> QED
    BY <1>0, <2>1, <2>2, <2>3
<1>2. ASSUME NEW completers, call' = Refused(completers) PROVE FALSE
  BY <1>0, <1>2, RefusedType
<1>3. CASE Approve(current)
  <2>1. session[current].approver = k /\ ~session[current].closed
        /\ consented' = consented \cup Pending(session[current].view)
    BY <1>0, <1>1, <1>3 DEF Approve
  <2>2. call[k].session = current
    BY <1>0, <2>1, Bounds DEF ConsentInv, Completing, Calls
  <2>3. call[k].reply \in Pending(session[current].view)
    BY <2>1, <2>2 DEF ConsentInv, Offered
  <2> QED
    BY <2>1, <2>3
<1>4. CASE Reject(current)
  BY <1>0, <1>1, <1>4 DEF Reject
<1>5. ASSUME NEW verdict \in {"yes", "no"}, SubmitAnswer(current, verdict) PROVE FALSE
  <2>1. session[current].asker = k /\ ~session[current].closed
    BY <1>0, <1>1, <1>5 DEF SubmitAnswer
  <2> QED
    BY <1>0, <2>1, Bounds DEF ConsentInv, Completing, Calls
<1>6. CASE Cancel(current) \/ Close(current)
  BY <1>2, <1>6 DEF Cancel, Close
<1> QED
  BY <1>3, <1>4, <1>5, <1>6 DEF Interferes

LEMMA ConsentInterferes ==
  ASSUME ConsentInv, Interferes, IndInv', consented \subseteq consented'
  PROVE  ConsentInv'
<1>0. /\ IndInv /\ Typed /\ current \in Sessions /\ session[current] \in Controllers
      /\ session \in [Sessions -> Controllers]
      /\ SameCalls /\ SameRuns
      /\ \A c \in Sessions : /\ session'[c].view = session[c].view
                             /\ c # current => session'[c] = session[c]
  BY VerdictStep, SessionFields DEF ConsentInv, IndInv, Typed
<1>1. EndedKept
  BY <1>0 DEF SameRuns, EndedKept
<1>2. /\ session'[current].run = session[current].run
      /\ \/ session'[current].closed
         \/ /\ session'[current].closed = session[current].closed
            /\ session'[current].approver = session[current].approver
            /\ session'[current].asker = session[current].asker
            /\ session[current].run = 0 => session'[current].phase = session[current].phase
  <2>1. CASE \/ Approve(current) \/ Reject(current)
             \/ \E verdict \in {"yes", "no"} : SubmitAnswer(current, verdict)
    BY <2>1 DEF Approve, Reject, SubmitAnswer
  <2>2. CASE Cancel(current)
    <3> DEFINE phase == IF session[current].run = 0 THEN session[current].phase ELSE "cancelling"
               new == [session[current] EXCEPT !.phase = phase]
    <3>1. session' = [session EXCEPT ![current] = new]
      BY <1>0, <2>2 DEF Cancel
    <3>2. /\ new.run = session[current].run /\ new.closed = session[current].closed
          /\ new.approver = session[current].approver /\ new.asker = session[current].asker
          /\ new.phase = phase
      BY <1>0 DEF Controllers
    <3> HIDE DEF new
    <3> QED
      BY <1>0, <3>1, <3>2
  <2>3. CASE Close(current)
    <3> DEFINE new == [session[current] EXCEPT !.closed = TRUE, !.timer = 0,
                                               !.approver = 0, !.asker = 0]
    <3>1. session' = [session EXCEPT ![current] = new]
      BY <1>0, <2>3 DEF Close
    <3>2. new.run = session[current].run /\ new.closed = TRUE
      BY <1>0 DEF Controllers
    <3> HIDE DEF new
    <3> QED
      BY <1>0, <3>1, <3>2
  <2> QED
    BY <2>1, <2>2, <2>3 DEF Interferes
<1>3. Alone'
  BY <1>0 DEF SameCalls, ConsentInv, Alone, Active
<1>4. ASSUME NEW c \in Sessions PROVE Completing(c)'
  <2>1. session[c].approver \in Calls \cup {0} /\ session[c].asker \in Calls \cup {0}
    BY <1>0, SessionFields, Bounds DEF Calls
  <2>2. \A k \in Calls : call'[k].pc = call[k].pc /\ call'[k].session = call[k].session
    BY <1>0 DEF SameCalls
  <2> QED
    BY <1>0, <1>2, <2>1, <2>2 DEF ConsentInv, Completing
<1>5. ASSUME NEW k \in Calls PROVE Offered(k)' /\ Consented(k)'
  <2> DEFINE c == call[k].session
             r == call[k].reply
  <2>1. /\ call'[k].pc = call[k].pc /\ call'[k].session = c
        /\ call'[k].reply = r /\ call'[k].history = call[k].history
    BY <1>0 DEF SameCalls
  <2>2. /\ c \in Sessions /\ session'[c].run = session[c].run
        /\ ~session'[c].closed /\ session[c].run = 0 =>
             ~session[c].closed /\ session'[c].phase = session[c].phase
        /\ session'[c].view = session[c].view
    BY <1>0, <1>2, CallFields
  <2>3. /\ Offered(k) /\ Consented(k)
    BY DEF ConsentInv
  <2>4. call[k].pc \in {"tailCall", "saveCall", "approve", "tool"} =>
          /\ r \in Replies /\ run'[r].outcome = run[r].outcome /\ run'[r].risky = run[r].risky
    <3>1. call[k].pc \in {"tailCall", "saveCall", "approve", "tool"} => call[k].pc \in After
      BY DEF After, Loop
    <3> QED
      BY <1>0, <1>1, <3>1, EndedUsed DEF EndedKept
  <2>5. call[k].pc = "approve" /\ ~session'[c].closed =>
          /\ session'[c].phase = "awaitingToolApproval"
          /\ (call[k].reply \in Pending(session[call[k].session].view))'
    BY <2>1, <2>2, <2>3, <2>4 DEF Offered, Pending, Calling
  <2>6. call[k].pc = "ask" /\ ~session'[c].closed => session'[c].phase = "awaitingUserAnswer"
    BY <2>2, <2>3 DEF Offered
  <2>7. Offered(k)'
    BY <2>1, <2>2, <2>3, <2>4, <2>5, <2>6 DEF Offered
  <2>8. Consented(k)'
    BY <2>1, <2>3, <2>4, Agreement DEF Consented
  <2> QED
    BY <2>7, <2>8
<1> QED
  BY <1>3, <1>4, <1>5 DEF ConsentInv

(* The app starts again with no call under way. *)
LEMMA ConsentRestart ==
  ASSUME ConsentInv, Restart(current), IndInv'
  PROVE  ConsentInv'
<1>0. /\ Typed /\ current \in Sessions /\ session \in [Sessions -> Controllers]
      /\ \A c \in Sessions : c < current => session[c].closed
      /\ \A c \in Sessions : c > current => session[c] = NewSession
      /\ session' = [session EXCEPT ![current] = [NewSession EXCEPT !.closed = TRUE]]
  BY DEF ConsentInv, IndInv, Typed, Attached, Restart
<1>1. \A l \in Calls : call'[l].pc \in {"idle", "returned"}
  BY DEF Restart, NewCall
<1>2. ASSUME NEW c \in Sessions PROVE Completing(c)'
  <2>1. CASE c > current
    <3>1. session'[c] = NewSession /\ NewSession.approver = 0 /\ NewSession.asker = 0
      BY <1>0, <2>1, RepliesTyped DEF NewSession
    <3> QED
      BY <3>1 DEF Completing
  <2>2. CASE ~(c > current)
    <3>1. session'[c].closed
      <4>1. [NewSession EXCEPT !.closed = TRUE].closed
        BY DEF NewSession
      <4>2. c = current \/ c < current
        BY <1>0, <2>2, RepliesTyped
      <4> QED
        BY <1>0, <4>1, <4>2
    <3> QED
      BY <3>1 DEF Completing
  <2> QED
    BY <2>1, <2>2
<1> QED
  BY <1>1, <1>2 DEF ConsentInv, Alone, Active, Offered, Consented

(* The calls stay as they are, and so do the controllers they are in. *)
LEMMA ConsentCalm ==
  ASSUME ConsentInv, IndInv', EndedKept, consented \subseteq consented', UNCHANGED call,
         \A c \in Sessions : /\ session'[c].closed = session[c].closed
                             /\ session'[c].approver = session[c].approver
                             /\ session'[c].asker = session[c].asker
                             /\ session'[c].run = session[c].run
                             /\ session[c].phase # "loading" =>
                                  session'[c].phase = session[c].phase
                                  /\ session'[c].view = session[c].view
  PROVE  ConsentInv'
<1>1. ASSUME NEW k \in Calls PROVE Offered(k)' /\ Consented(k)'
  <2>1. call[k].session \in Sessions
    BY CallFields DEF ConsentInv, IndInv
  <2>2. Active(k) => session[call[k].session].phase # "loading"
    BY DEF ConsentInv, IndInv, Attached
  <2> QED
    BY <2>1, <2>2, OthersOffered DEF ConsentInv
<1>2. \A c \in Sessions : Completing(c)'
  BY DEF ConsentInv, Completing
<1> QED
  BY <1>1, <1>2 DEF ConsentInv, Alone, Active

LEMMA ConsentRest ==
  ASSUME ConsentInv, IndInv', consented \subseteq consented',
         \/ \E c \in Sessions : Checkpoint(c) \/ Attach(c) \/ Load(c) \/ Repair(c)
         \/ CheckpointSaved \/ RunEndsSomehow \/ UNCHANGED vars
  PROVE  ConsentInv'
<1>0. /\ Typed /\ session \in [Sessions -> Controllers]
      /\ \A c \in Sessions : session[c] \in Controllers
  BY DEF ConsentInv, IndInv, Typed
<1>a. UNCHANGED run => EndedKept
  BY DEF EndedKept
<1>1. CASE CheckpointSaved \/ UNCHANGED vars
  BY <1>1, <1>a, ConsentCalm DEF CheckpointSaved, vars
<1>2. CASE RunEndsSomehow
  <2>1. PICK r \in Replies, risky \in BOOLEAN, outcome \in Outcomes : RunEnds(r, outcome, risky)
    BY <1>2 DEF RunEndsSomehow, Outcomes
  <2>2. EndedKept /\ UNCHANGED <<session, call>>
    <3>1. /\ run \in [Replies -> Runs] /\ run[r].state = "open" /\ UNCHANGED <<session, call>>
          /\ \A x \in Replies : x # r => run'[x] = run[x]
      BY <1>0, <2>1 DEF RunEnds, Typed
    <3> QED
      BY <3>1 DEF EndedKept
  <2> QED
    BY <2>2, ConsentCalm
<1>3. ASSUME NEW c \in Sessions, Checkpoint(c) PROVE ConsentInv'
  <2> DEFINE new == [session[c] EXCEPT !.timer = 0]
  <2>1. session' = [session EXCEPT ![c] = new] /\ UNCHANGED <<call, run>>
    BY <1>0, <1>3 DEF Checkpoint
  <2>2. /\ new.closed = session[c].closed /\ new.approver = session[c].approver
        /\ new.asker = session[c].asker /\ new.run = session[c].run
        /\ new.phase = session[c].phase /\ new.view = session[c].view
    BY <1>0 DEF Controllers
  <2> HIDE DEF new
  <2> QED
    BY <1>0, <1>a, <2>1, <2>2, ConsentCalm
<1>4. ASSUME NEW c \in Sessions, Attach(c) PROVE ConsentInv'
  BY <1>4, <1>a, ConsentCalm DEF Attach
<1>5. ASSUME NEW c \in Sessions, Load(c) \/ Repair(c) PROVE ConsentInv'
  <2>1. session[c].phase = "loading"
    <3>1. In(queue, OpeningOp(c))
      BY <1>0, <1>5, TakeIn, Zenon DEF Load, Repair, Opening, Typed
    <3> QED
      BY <3>1 DEF ConsentInv, IndInv, Opened
  <2>2. \E new : /\ session' = [session EXCEPT ![c] = new]
                 /\ new.closed = session[c].closed /\ new.approver = session[c].approver
                 /\ new.asker = session[c].asker /\ new.run = session[c].run
    <3>1. CASE Load(c)
      <4> DEFINE open == {r \in Replies : store[r].status \in Open}
                 phase == IF open = {} THEN "ready" ELSE session[c].phase
                 new == [session[c] EXCEPT !.loaded = TRUE, !.view = store, !.phase = phase]
      <4>1. session' = [session EXCEPT ![c] = new]
        BY <1>0, <3>1, Zenon DEF Load
      <4> HIDE DEF phase
      <4>2. /\ new.closed = session[c].closed /\ new.approver = session[c].approver
            /\ new.asker = session[c].asker /\ new.run = session[c].run
        BY <1>0 DEF Controllers
      <4> HIDE DEF new
      <4> QED
        BY <4>1, <4>2
    <3>2. CASE Repair(c)
      <4> DEFINE Repaired(messages) ==
                   [r \in Replies |-> IF session[c].view[r].status \in Open
                                      THEN [messages[r] EXCEPT !.status = "interrupted"]
                                      ELSE messages[r]]
                 view == Repaired(session[c].view)
                 new == [session[c] EXCEPT !.view = view, !.phase = "ready"]
      <4>1. session' = [session EXCEPT ![c] = new]
        BY <1>0, <3>2, Zenon DEF Repair
      <4> HIDE DEF view
      <4>2. /\ new.closed = session[c].closed /\ new.approver = session[c].approver
            /\ new.asker = session[c].asker /\ new.run = session[c].run
        BY <1>0 DEF Controllers
      <4> HIDE DEF new
      <4> QED
        BY <4>1, <4>2
    <3> QED
      BY <1>5, <3>1, <3>2
  <2>3. UNCHANGED <<call, run>>
    BY <1>5, Zenon DEF Load, Repair
  <2> QED
    BY <1>0, <1>a, <2>1, <2>2, <2>3, ConsentCalm
<1> QED
  BY <1>1, <1>2, <1>3, <1>4, <1>5

LEMMA ConsentInit == Init => ConsentInv
<1> SUFFICES ASSUME Init PROVE ConsentInv
  OBVIOUS
<1>1. /\ \A l \in Calls : call[l].pc = "idle"
      /\ \A c \in Sessions : session[c].approver = 0 /\ session[c].asker = 0
  BY DEF Init, NewCall, NewSession
<1> QED
  BY <1>1, InvInit DEF ConsentInv, Alone, Active, Completing, Offered, Consented

LEMMA ConsentNext == ASSUME ~Overlapping, ConsentInv, [Next]_vars PROVE ConsentInv'
<1>1. IndInv' /\ consented \subseteq consented' /\ Typed
  BY InvNext, ConsentGrows DEF ConsentInv, IndInv
<1>2. User => ConsentInv'
  BY <1>1, UserSteps, ConsentStarting, ConsentInterferes, ConsentRestart
<1> QED
  BY <1>1, <1>2, ConsentCallStep, ConsentRest DEF Next

(* A tool that needs approval is called only with the agreement of the user to *)
(* this very call, given while it was shown or by asking for the call again: *)
(* whatever is stopped, replaced, deleted or tried again in between, and     *)
(* whatever fails.  (A call starts when the one before it is shown: what two *)
(* starts in one turn of the event loop do is shown by the run                *)
(* chat_second_run.)                                                         *)
THEOREM ToolsAreConsented == ~Overlapping => (Spec => []OnlyConsentedToolsRun)
<1> SUFFICES ASSUME ~Overlapping PROVE Spec => []OnlyConsentedToolsRun
  OBVIOUS
<1>1. Init => ConsentInv
  BY ConsentInit
<1>2. ConsentInv /\ [Next]_vars => ConsentInv'
  BY ConsentNext
<1>3. ConsentInv => OnlyConsentedToolsRun
  BY DEF ConsentInv, Consented, OnlyConsentedToolsRun
<1> QED
  BY <1>1, <1>2, <1>3, PTL DEF Spec

-------------------------------------------------------------------------------
(* The checkpoints of an answer, and its end. *)

Final == {"completed", "cancelled"}

(* Where a call waits for the checkpoints of its controller, and where it      *)
(* stores its answer after that.                                             *)
Stopping == {"tailCall", "tailFinal"}
Storing  == {"saveCall", "saveFinal"}

(* A checkpoint of answer r that controller c has in mind overwrites nothing   *)
(* that is final, and the call that will store the answer is not yet at "past" *)
(* and will wait for it.                                                     *)
Harmless(c, r, past) ==
  /\ run[r].state \in {"open", "ended"}
  /\ \/ run[r].outcome = "question"
     \/ /\ store[r].status \notin Final
        /\ \A l \in Calls : call[l].reply = r =>
              /\ call[l].pc \notin past
              /\ call[l].pc \in {"running"} \cup Stopping => call[l].session = c

CheckpointInv ==
  /\ IndInv
  /\ \A c \in Sessions, r \in Replies :
        /\ session[c].timer = r => Harmless(c, r, Stopping \cup Storing)
        /\ In(queue, CheckpointOp(c, r)) => Harmless(c, r, Storing)
  /\ \A l \in Calls : call[l].pc = "saveQuestion" => run[call[l].reply].outcome = "question"
  /\ \A r \in Replies : run[r].state = "open" => store[r].status \notin Final

(* The status of a message when one of its parts is replaced. *)
LEMMA StatusUpdates ==
  ASSUME NEW m \in Messages, NEW x, NEW y \in Replies, NEW a
  PROVE  /\ [m EXCEPT ![x].user = a][y].status = m[y].status
         /\ [m EXCEPT ![x].result = a][y].status = m[y].status
         /\ [m EXCEPT ![x].status = a][y].status = IF x = y THEN a ELSE m[y].status
BY DEF Messages

(* What the step of call l stores is final only if l is at the end of its      *)
(* answer, and no step of a call is a checkpoint.                            *)
Stores(l) ==
  \A x \in Replies :
     /\ store'[x].status \in Final =>
          \/ store'[x].status = store[x].status
          \/ x = call[l].reply /\ call[l].pc \in {"saveFinal", "saveCall", "saveQuestion"}
     /\ store'[x].status = "streaming" => store[x].status = "streaming"

LEMMA StoresStatus ==
  ASSUME Typed, NEW l \in Calls, NEW s, s # "streaming",
         store' = [store EXCEPT ![call[l].reply].status = s],
         s \in Final => call[l].pc \in {"saveFinal", "saveCall", "saveQuestion"}
  PROVE  Stores(l)
BY StatusUpdates DEF Stores, Typed

(* A step that takes messages away, and asks for the next answer. *)
LEMMA StoresAsking ==
  ASSUME NEW l \in Calls, NEW stored \in Messages,
         \A x \in Replies : stored[x].status \in {store[x].status, "none"},
         \/ store' = stored
         \/ \E history, round, asked, before :
               NextRound(l, history, round, asked, stored, before)
  PROVE  Stores(l)
<1>1. ASSUME NEW x \in Replies PROVE store'[x].status = stored[x].status
  <2>1. CASE store' = stored
    BY <2>1
  <2>2. ASSUME NEW history, NEW round, NEW asked, NEW before,
               NextRound(l, history, round, asked, stored, before)
        PROVE  store'[x].status = stored[x].status
    <3> DEFINE r == Cardinality(Used) + 1
    <3>1. store' = [stored EXCEPT ![r].user = asked]
      BY <2>2 DEF NextRound
    <3> HIDE DEF r
    <3> QED
      BY <3>1, StatusUpdates
  <2> QED
    BY <2>1, <2>2
<1> QED
  BY <1>1 DEF Stores, Final

LEMMA WithoutStatus ==
  ASSUME NEW m \in Messages, NEW replies, NEW x \in Replies
  PROVE  Without(m, replies)[x].status \in {m[x].status, "none"}
BY DEF Without, Nothing

LEMMA StoresTurn ==
  ASSUME IndInv, NEW l \in Calls,
         \/ UserSaved(l) \/ Discarded(l) \/ SavedAgain(l) \/ ResultDiscarded(l)
         \/ MessageDeleted(l)
  PROVE  Stores(l)
<1> DEFINE r == call[l].reply
<1>0. /\ store \in Messages
      /\ call[l].pc \in {"discard", "saveAgain", "discardResult", "deleteMessage"} => r \in Replies
      /\ call[l].pc = "deleteMessage" => call[l].part \in Parts
  BY DEF IndInv, Typed, Requests, Numbered
<1>1. CASE UserSaved(l)
  <2>1. NextRound(l, call[l].history, 0, TRUE, store, Tail(queue))
    BY <1>1 DEF UserSaved
  <2> QED
    BY <1>0, <2>1, StoresAsking
<1>2. CASE Discarded(l)
  <2> DEFINE left == Without(store, From(call[l].history, r))
             kept == [left EXCEPT ![r].user = store[r].user]
  <2>1. store' = kept /\ r \in Replies
    BY <1>0, <1>2 DEF Discarded, Done
  <2>2. left \in Messages /\ \A x \in Replies : left[x].status \in {store[x].status, "none"}
    BY <1>0, WithoutType, WithoutStatus
  <2> HIDE DEF left
  <2>3. kept \in Messages
    <3>1. store[r].user \in BOOLEAN
      BY <1>0, <2>1 DEF Messages
    <3> QED
      BY <2>1, <2>2, <3>1, MessageTypes
  <2>4. \A x \in Replies : kept[x].status = left[x].status
    BY <2>2, StatusUpdates
  <2> HIDE DEF kept
  <2> QED
    BY <2>1, <2>2, <2>3, <2>4, StoresAsking
<1>3. CASE SavedAgain(l)
  <2> DEFINE history == Without(session[call[l].session].view,
                                From(session[call[l].session].view, r))
             kept == [store EXCEPT ![r].user = FALSE]
  <2>1. NextRound(l, history, 0, TRUE, kept, Tail(queue)) /\ r \in Replies
    BY <1>0, <1>3, Zenon DEF SavedAgain, Done
  <2>2. kept \in Messages
    BY <1>0, <2>1, MessageTypes
  <2>3. \A x \in Replies : kept[x].status = store[x].status
    BY <1>0, StatusUpdates
  <2> HIDE DEF kept, history
  <2> QED
    BY <2>1, <2>2, <2>3, StoresAsking
<1>4. CASE ResultDiscarded(l)
  <2> DEFINE left == Without(store, From(call[l].history, r + 1))
             kept == [left EXCEPT ![r].result = "none"]
  <2>1. store' = kept /\ r \in Replies
    BY <1>0, <1>4, Zenon DEF ResultDiscarded, Done
  <2>2. left \in Messages /\ \A x \in Replies : left[x].status \in {store[x].status, "none"}
    BY <1>0, WithoutType, WithoutStatus
  <2> HIDE DEF left
  <2>3. kept \in Messages
    BY <2>1, <2>2, MessageTypes
  <2>4. \A x \in Replies : kept[x].status = left[x].status
    BY <2>2, StatusUpdates
  <2> HIDE DEF kept
  <2> QED
    BY <2>1, <2>2, <2>3, <2>4, StoresAsking
<1>5. CASE MessageDeleted(l)
  <2> DEFINE gone == [store EXCEPT ![r][call[l].part] = Nothing[call[l].part]]
  <2>1. store' = gone /\ r \in Replies /\ call[l].part \in Parts
    BY <1>0, <1>5, Zenon DEF MessageDeleted, Done
  <2>2. gone \in Messages
    BY <1>0, <2>1, MessageTypes
  <2>3. \A x \in Replies : gone[x].status \in {store[x].status, "none"}
    <3>3. CASE call[l].part = "status"
      BY <1>0, <2>1, <3>3 DEF Nothing, Messages
    <3>4. CASE call[l].part \in {"user", "result"}
      BY <1>0, <2>1, <3>4 DEF Messages
    <3> QED
      BY <2>1, <3>3, <3>4 DEF Parts
  <2> HIDE DEF gone
  <2> QED
    BY <2>1, <2>2, <2>3, StoresAsking
<1> QED
  BY <1>1, <1>2, <1>3, <1>4, <1>5

LEMMA StoresRound ==
  ASSUME IndInv, NEW l \in Calls,
         \/ PlaceholderSaved(l) \/ EndsInQuestion(l) \/ EndsInCall(l) \/ Finishes(l)
         \/ TailAwaited(l) \/ FinalSaved(l) \/ ConversationSaved(l) \/ HandleSnapshot(l)
  PROVE  Stores(l)
<1>1. CASE PlaceholderSaved(l)
  <2>1. store' = [store EXCEPT ![call[l].reply].status = "queued"]
    BY <1>1 DEF PlaceholderSaved
  <2>2. "queued" \notin Final /\ "queued" # "streaming" /\ Typed
    BY DEF Final, IndInv
  <2> QED
    BY <2>1, <2>2, StoresStatus
<1>2. CASE FinalSaved(l)
  <2>1. call[l].pc = "saveFinal" /\ call[l].reply \in Replies
    BY <1>2 DEF FinalSaved, Done, IndInv, Requests, Numbered, Loop
  <2>2. Outcome(call[l].reply) # "streaming"
    BY <2>1, OutcomeType DEF IndInv, Settled
  <2> QED
    BY <1>2, <2>1, <2>2, StoresStatus DEF FinalSaved, IndInv
<1>3. CASE \/ EndsInQuestion(l) \/ EndsInCall(l) \/ Finishes(l) \/ TailAwaited(l)
           \/ ConversationSaved(l) \/ HandleSnapshot(l)
  <2>1. UNCHANGED store
    BY <1>3 DEF EndsInQuestion, EndsInCall, Finishes, TailAwaited, ConversationSaved,
                HandleSnapshot
  <2> QED
    BY <2>1 DEF Stores
<1> QED
  BY <1>1, <1>2, <1>3

LEMMA StoresTool ==
  ASSUME IndInv, NEW l \in Calls,
         \/ CallSaved(l) \/ Approved(l) \/ Rejected(l)
         \/ \E result \in {"ok", "failed"} : ToolReturns(l, result)
         \/ ResultSaved(l) \/ QuestionSaved(l) \/ Answered(l) \/ AnswerSaved(l)
  PROVE  Stores(l)
<1>0. Typed /\ store \in Messages
  BY DEF IndInv, Typed
<1>1. CASE CallSaved(l)
  BY <1>0, <1>1, StoresStatus DEF CallSaved, Done
<1>2. CASE QuestionSaved(l)
  BY <1>0, <1>2, StoresStatus DEF QuestionSaved, Done
<1>3. CASE Rejected(l)
  <2> DEFINE history == [call[l].history EXCEPT ![call[l].reply].result = "rejected"]
  <2>1. NextRound(l, history, call[l].round + 1, FALSE, store, queue)
    BY <1>3 DEF Rejected
  <2> HIDE DEF history
  <2> QED
    BY <1>0, <2>1, StoresAsking
<1>4. CASE ResultSaved(l)
  <2> DEFINE history == [call[l].history EXCEPT ![call[l].reply].result = call[l].verdict]
             round == call[l].round + (IF call[l].retry THEN 0 ELSE 1)
             kept == [store EXCEPT ![call[l].reply].result = call[l].verdict]
  <2>1. NextRound(l, history, round, FALSE, kept, Tail(queue)) /\ call[l].pc = "saveResult"
    BY <1>4, Zenon DEF ResultSaved, Done
  <2>2. call[l].reply \in Replies /\ call[l].verdict \in {"ok", "failed"}
    BY <2>1 DEF IndInv, Requests, Numbered, Loop
  <2>3. kept \in Messages
    BY <1>0, <2>2, MessageTypes
  <2>4. \A x \in Replies : kept[x].status = store[x].status
    BY <1>0, StatusUpdates
  <2> HIDE DEF history, round, kept
  <2> QED
    BY <2>1, <2>3, <2>4, StoresAsking
<1>5. CASE AnswerSaved(l)
  <2>1. NextRound(l, call[l].history, call[l].round + 1, TRUE, store, Tail(queue))
    BY <1>5 DEF AnswerSaved
  <2> QED
    BY <1>0, <2>1, StoresAsking
<1>6. CASE \/ Approved(l) \/ Answered(l)
           \/ \E result \in {"ok", "failed"} : ToolReturns(l, result)
  <2>1. UNCHANGED store
    BY <1>6 DEF Approved, Answered, ToolReturns
  <2> QED
    BY <2>1 DEF Stores
<1> QED
  BY <1>1, <1>2, <1>3, <1>4, <1>5, <1>6

LEMMA StoresAlways ==
  ASSUME IndInv, NEW l \in Calls, HandleSnapshot(l) \/ Coroutine(l)
  PROVE  Stores(l)
<1>1. CASE ThrowsToCaller(l) \/ LoopFails(l) \/ Recovers(l)
  <2>1. UNCHANGED store
    BY <1>1, Zenon DEF ThrowsToCaller, LoopFails, Recovers
  <2> QED
    BY <2>1 DEF Stores
<1>2. CASE FailureSaved(l)
  <2>1. CASE UNCHANGED store
    BY <2>1 DEF Stores
  <2>2. CASE store' = [store EXCEPT ![call[l].reply].status = "failed"]
    <3>1. "failed" \notin Final /\ "failed" # "streaming" /\ Typed
      BY DEF Final, IndInv
    <3> QED
      BY <2>2, <3>1, StoresStatus
  <2> QED
    BY <1>2, <2>1, <2>2 DEF FailureSaved
<1> QED
  BY <1>1, <1>2, StoresTurn, StoresRound, StoresTool DEF Coroutine

-------------------------------------------------------------------------------
(* What the step of call l does to the timer of its controller: it stops it,   *)
(* leaves it, or starts it for an answer that is coming in; and it comes to   *)
(* store an answer when the timer is stopped and no checkpoint is under way.   *)
Timed(l) ==
  LET c == call[l].session
      r == call[l].reply
  IN  /\ \/ session'[c].timer \in {0, session[c].timer}
         \/ /\ call[l].pc = "running" /\ session'[c].timer = r /\ run[r].state = "open"
            /\ UNCHANGED <<call, run, store, queue>>
      /\ call'[l].pc \in Stopping => session'[c].timer = 0
      /\ call'[l].pc \in Storing => NoCheckpoint(c)

LEMMA TimedElsewhere ==
  ASSUME IndInv, NEW l \in Calls, HandleSnapshot(l) \/ Coroutine(l),
         call[l].pc \notin {"running"} \cup Stopping,
         session'[call[l].session].timer \in {0, session[call[l].session].timer}
  PROVE  Timed(l)
<1>1. call'[l].pc \notin Stopping \cup Storing
  BY CameFrom DEF Stopping, Storing
<1> QED
  BY <1>1 DEF Timed

LEMMA TimedShown ==
  ASSUME IndInv, NEW l \in Calls, HandleSnapshot(l) \/ Coroutine(l),
         call[l].pc \notin {"running"} \cup Stopping,
         NEW m, NEW p, NEW q, NEW x, NEW shown,
         shown = Shows(call[l].session, m, p, q),
         \/ UNCHANGED session
         \/ session' = [session EXCEPT ![call[l].session] = shown]
         \/ session' = [session EXCEPT ![call[l].session] = [shown EXCEPT !.run = x]]
         \/ session' = [session EXCEPT ![call[l].session] = [shown EXCEPT !.approver = x]]
         \/ session' = [session EXCEPT ![call[l].session] = [shown EXCEPT !.asker = x]]
  PROVE  Timed(l)
<1> DEFINE c == call[l].session
<1>1. c \in Sessions /\ session \in [Sessions -> Controllers]
  BY CallFields DEF IndInv, Typed
<1>2. /\ shown.timer = session[c].timer
      /\ [shown EXCEPT !.run = x].timer = session[c].timer
      /\ [shown EXCEPT !.approver = x].timer = session[c].timer
      /\ [shown EXCEPT !.asker = x].timer = session[c].timer
  BY <1>1, ShowsFields
<1>3. session'[c].timer = session[c].timer
  BY <1>1, <1>2
<1> QED
  BY <1>3, TimedElsewhere

LEMMA TimedTurn ==
  ASSUME IndInv, NEW l \in Calls,
         \/ UserSaved(l) \/ Discarded(l) \/ SavedAgain(l) \/ ResultDiscarded(l)
         \/ MessageDeleted(l)
  PROVE  Timed(l)
<1> DEFINE c == call[l].session
           r == call[l].reply
<1>1. Coroutine(l) /\ call[l].pc \notin {"running"} \cup Stopping
  <2>1. call[l].pc \in {"saveUser", "discard", "saveAgain", "discardResult", "deleteMessage"}
    BY Zenon DEF UserSaved, Discarded, SavedAgain, ResultDiscarded, MessageDeleted, Done
  <2> QED
    BY <2>1 DEF Coroutine, Stopping
<1>2. \E m, p, q : UNCHANGED session \/ session' = [session EXCEPT ![c] = Shows(c, m, p, q)]
  <2>1. CASE UserSaved(l) \/ Discarded(l)
    BY <2>1 DEF UserSaved, Discarded
  <2>2. CASE SavedAgain(l)
    BY <2>2, Zenon DEF SavedAgain
  <2>3. CASE ResultDiscarded(l)
    BY <2>3, Zenon DEF ResultDiscarded
  <2>4. CASE MessageDeleted(l)
    BY <2>4, Zenon DEF MessageDeleted
  <2> QED
    BY <2>1, <2>2, <2>3, <2>4
<1> QED
  BY <1>1, <1>2, TimedShown

LEMMA TimedRound ==
  ASSUME IndInv, NEW l \in Calls,
         \/ PlaceholderSaved(l) \/ EndsInQuestion(l) \/ EndsInCall(l) \/ Finishes(l)
         \/ TailAwaited(l) \/ FinalSaved(l) \/ ConversationSaved(l) \/ HandleSnapshot(l)
  PROVE  Timed(l)
<1> DEFINE c == call[l].session
           r == call[l].reply
<1>0. HandleSnapshot(l) \/ Coroutine(l)
  BY DEF Coroutine
<1>a. /\ c \in Sessions /\ session[c] \in Controllers /\ session \in [Sessions -> Controllers]
  BY CallFields DEF IndInv, Typed
<1>b. /\ [session[c] EXCEPT !.run = 0].timer = session[c].timer
      /\ Quiet(c).timer = 0
  BY <1>a DEF Quiet, Controllers
<1>c. session' = [session EXCEPT ![c] = Quiet(c)] => session'[c].timer = 0
  BY <1>a, <1>b
<1>d. session' = [session EXCEPT ![c].run = 0] => session'[c].timer = session[c].timer
  BY <1>a, <1>b
<1>e. Ended(l) => call'[l].pc \notin Storing
  BY <1>0, CameFrom DEF Ended, Storing
<1>1. CASE PlaceholderSaved(l)
  <2> DEFINE messages == [call[l].history EXCEPT ![r].status = "queued"]
  <2>1. /\ session' = [session EXCEPT ![c] = [Shows(c, messages, "requesting", r)
                                                EXCEPT !.run = r]]
        /\ call[l].pc = "savePlaceholder"
    BY <1>1 DEF PlaceholderSaved, Done
  <2> HIDE DEF messages
  <2> QED
    BY <1>0, <2>1, TimedShown DEF Stopping
<1>2. CASE EndsInQuestion(l)
  <2>1. call'[l].pc = "saveQuestion"
    BY <1>2, PcSteps DEF EndsInQuestion
  <2> QED
    BY <1>2, <1>d, <2>1 DEF EndsInQuestion, Timed, Stopping, Storing
<1>3. CASE EndsInCall(l)
  BY <1>3, <1>c, <1>e DEF EndsInCall, Timed
<1>4. CASE Finishes(l)
  <2>1. CASE session' = [session EXCEPT ![c] = Quiet(c)]
    BY <1>4, <1>c, <1>e, <2>1 DEF Finishes, Timed
  <2>2. CASE session' = [session EXCEPT ![c].run = 0] /\ Returns(l)
    <3>1. call'[l].pc = "returned"
      BY <2>2, PcSteps
    <3> QED
      BY <1>d, <2>2, <3>1 DEF Timed, Stopping, Storing
  <2> QED
    BY <1>4, <2>1, <2>2 DEF Finishes
<1>5. CASE TailAwaited(l)
  <2>1. /\ UNCHANGED session /\ NoCheckpoint(c) /\ call'[l].pc \in {"saveCall", "saveFinal"}
    BY <1>5, PcSteps DEF TailAwaited
  <2> QED
    BY <2>1 DEF Timed, Stopping
<1>6. CASE FinalSaved(l)
  BY <1>0, <1>6, TimedShown DEF FinalSaved, Done, Stopping
<1>7. CASE ConversationSaved(l)
  <2> DEFINE settled == Settle(session[c].view, r, Outcome(r))
             phase == IF Outcome(r) = "failed" THEN "failed" ELSE "ready"
  <2>1. /\ session' = [session EXCEPT ![c] = [Shows(c, settled, phase, 0) EXCEPT !.run = 0]]
        /\ call[l].pc = "saveConversation"
    BY <1>7 DEF ConversationSaved, Done
  <2> HIDE DEF settled, phase
  <2> QED
    BY <1>0, <2>1, TimedShown DEF Stopping
<1>8. CASE HandleSnapshot(l)
  <2> DEFINE new == [session[c] EXCEPT !.phase = "streaming", !.timer = r]
  <2>1. session' = [session EXCEPT ![c] = new] /\ new.timer = r
    BY <1>8, <1>a DEF HandleSnapshot, Controllers
  <2> HIDE DEF new
  <2>2. session'[c].timer = r
    BY <1>a, <2>1
  <2> QED
    BY <1>8, <2>2 DEF HandleSnapshot, Timed, Stopping, Storing
<1> QED
  BY <1>1, <1>2, <1>3, <1>4, <1>5, <1>6, <1>7, <1>8

LEMMA TimedTool ==
  ASSUME IndInv, NEW l \in Calls,
         \/ CallSaved(l) \/ Approved(l) \/ Rejected(l)
         \/ \E result \in {"ok", "failed"} : ToolReturns(l, result)
         \/ ResultSaved(l) \/ QuestionSaved(l) \/ Answered(l) \/ AnswerSaved(l)
  PROVE  Timed(l)
<1> DEFINE c == call[l].session
<1>1. Coroutine(l) /\ call[l].pc \notin {"running"} \cup Stopping
  <2>1. call[l].pc \in {"saveCall", "approve", "tool", "saveResult", "saveQuestion", "ask",
                        "saveAnswer"}
    BY Zenon DEF CallSaved, Approved, Rejected, ToolReturns, ResultSaved, QuestionSaved, Answered,
           AnswerSaved, Done
  <2> QED
    BY <2>1 DEF Coroutine, Stopping
<1>2. c \in Sessions /\ session[c] \in Controllers /\ session \in [Sessions -> Controllers]
  BY CallFields DEF IndInv, Typed
<1>3. CASE Answered(l)
  <2>1. session' = [session EXCEPT ![c] = [session[c] EXCEPT !.asker = 0]]
    BY <1>3 DEF Answered
  <2>2. [session[c] EXCEPT !.asker = 0].timer = session[c].timer
    BY <1>2 DEF Controllers
  <2> QED
    BY <1>1, <1>2, <2>1, <2>2, TimedElsewhere
<1>4. CASE ~Answered(l)
  <2>1. \E m, p, q, x :
          \/ UNCHANGED session
          \/ session' = [session EXCEPT ![c] = Shows(c, m, p, q)]
          \/ session' = [session EXCEPT ![c] = [Shows(c, m, p, q) EXCEPT !.approver = x]]
          \/ session' = [session EXCEPT ![c] = [Shows(c, m, p, q) EXCEPT !.asker = x]]
    <3>1. CASE CallSaved(l)
      <4>1. CASE run[call[l].reply].risky
        BY <3>1, <4>1, Zenon DEF CallSaved
      <4>2. CASE ~run[call[l].reply].risky
        BY <3>1, <4>2, Zenon DEF CallSaved
      <4> QED
        BY <4>1, <4>2
    <3>2. CASE Approved(l) \/ Rejected(l)
      <4>1. CASE Approved(l)
        BY <4>1, Zenon DEF Approved
      <4>2. CASE Rejected(l)
        BY <4>2, Zenon DEF Rejected
      <4> QED
        BY <3>2, <4>1, <4>2
    <3>3. CASE \E result \in {"ok", "failed"} : ToolReturns(l, result)
      BY <3>3 DEF ToolReturns
    <3>4. CASE ResultSaved(l)
      <4>1. CASE call[l].retry
        BY <3>4, <4>1, Zenon DEF ResultSaved
      <4>2. CASE ~call[l].retry
        BY <3>4, <4>2, Zenon DEF ResultSaved
      <4> QED
        BY <4>1, <4>2
    <3>5. CASE QuestionSaved(l) \/ AnswerSaved(l)
      <4>1. CASE QuestionSaved(l)
        BY <4>1, Zenon DEF QuestionSaved
      <4>2. CASE AnswerSaved(l)
        BY <4>2, Zenon DEF AnswerSaved
      <4> QED
        BY <3>5, <4>1, <4>2
    <3> QED
      BY <1>4, <3>1, <3>2, <3>3, <3>4, <3>5
  <2> QED
    BY <1>1, <2>1, TimedShown
<1> QED
  BY <1>3, <1>4

LEMMA TimedFailure ==
  ASSUME IndInv, NEW l \in Calls,
         ThrowsToCaller(l) \/ LoopFails(l) \/ Recovers(l) \/ FailureSaved(l)
  PROVE  Timed(l)
<1> DEFINE c == call[l].session
<1>1. Coroutine(l) /\ call[l].pc \notin {"running"} \cup Stopping
  <2>1. call[l].pc \in Saving \cup {"tailFailed"}
    BY Zenon DEF ThrowsToCaller, LoopFails, Throws, Recovers, FailureSaved, Done, Saving
  <2> QED
    BY <2>1 DEF Coroutine, Saving, Stopping
<1>2. c \in Sessions /\ session[c] \in Controllers /\ session \in [Sessions -> Controllers]
  BY CallFields DEF IndInv, Typed
<1>3. CASE LoopFails(l)
  <2> DEFINE new == [Quiet(c) EXCEPT !.approver = 0, !.asker = 0]
  <2>1. session' = [session EXCEPT ![c] = new]
    BY <1>3 DEF LoopFails
  <2>2. new.timer = 0
    <3>1. /\ Quiet(c).timer = 0
          /\ DOMAIN Quiet(c) = {"phase", "loaded", "closed", "view", "request", "run", "timer",
                                "approver", "asker"}
      BY <1>2 DEF Quiet, Controllers
    <3> QED
      BY <3>1
  <2> HIDE DEF new
  <2> QED
    BY <1>1, <1>2, <2>1, <2>2, TimedElsewhere
<1>4. CASE ThrowsToCaller(l) \/ Recovers(l) \/ FailureSaved(l)
  <2>1. \E m, p, q :
          UNCHANGED session \/ session' = [session EXCEPT ![c] = Shows(c, m, p, q)]
    <3>1. CASE ThrowsToCaller(l)
      BY <3>1 DEF ThrowsToCaller
    <3>2. CASE Recovers(l) \/ FailureSaved(l)
      BY <3>2, Zenon DEF Recovers, FailureSaved
    <3> QED
      BY <1>4, <3>1, <3>2
  <2> QED
    BY <1>1, <2>1, TimedShown
<1> QED
  BY <1>3, <1>4

LEMMA TimedAlways ==
  ASSUME IndInv, NEW l \in Calls, HandleSnapshot(l) \/ Coroutine(l)
  PROVE  Timed(l)
BY TimedTurn, TimedRound, TimedTool, TimedFailure DEF Coroutine

-------------------------------------------------------------------------------
(* Steps of calls. *)

LEMMA PlacesQueued ==
  ASSUME IndInv, NEW l \in Calls, HandleSnapshot(l) \/ Coroutine(l),
         call[l].pc = "savePlaceholder", call'[l].pc = "running"
  PROVE  store'[call[l].reply].status = "queued"
<1>1. PlaceholderSaved(l) \/ LoopFails(l)
  <2>1. ~HandleSnapshot(l)
    BY DEF HandleSnapshot
  <2>2. ~(UserSaved(l) \/ Discarded(l) \/ SavedAgain(l) \/ ResultDiscarded(l)
          \/ MessageDeleted(l) \/ FinalSaved(l) \/ ConversationSaved(l) \/ CallSaved(l)
          \/ ResultSaved(l) \/ QuestionSaved(l) \/ AnswerSaved(l) \/ FailureSaved(l))
    BY Zenon DEF UserSaved, Discarded, SavedAgain, ResultDiscarded, MessageDeleted, FinalSaved,
           ConversationSaved, CallSaved, ResultSaved, QuestionSaved, AnswerSaved, FailureSaved, Done
  <2>3. ~(EndsInQuestion(l) \/ EndsInCall(l) \/ Finishes(l) \/ TailAwaited(l) \/ Approved(l)
          \/ Rejected(l) \/ Answered(l) \/ Recovers(l) \/ ThrowsToCaller(l))
    BY DEF EndsInQuestion, EndsInCall, Finishes, TailAwaited, Approved, Rejected, Answered,
           Recovers, ThrowsToCaller, Ended
  <2>4. \A result : ~ToolReturns(l, result)
    BY DEF ToolReturns
  <2> QED
    BY <2>1, <2>2, <2>3, <2>4 DEF Coroutine
<1>2. CASE PlaceholderSaved(l)
  <2>1. call[l].reply \in Replies /\ store \in Messages
    BY DEF IndInv, Typed, Requests, Numbered, Loop
  <2>2. store' = [store EXCEPT ![call[l].reply].status = "queued"]
    BY <1>2 DEF PlaceholderSaved
  <2> QED
    BY <2>1, <2>2 DEF Messages
<1>3. CASE LoopFails(l)
  <2> DEFINE refused == Refused(Completers(call[l].session))
  <2>1. call' = [refused EXCEPT ![l].pc = "tailFailed"]
    BY <1>3 DEF LoopFails
  <2>2. refused \in [Calls -> Coroutines]
    BY RefusedType DEF IndInv
  <2> HIDE DEF refused
  <2> QED
    BY <2>1, <2>2 DEF Coroutines
<1> QED
  BY <1>1, <1>2, <1>3

(* Where a call comes from that has an answer in hand, and that answer. *)
Advances(l) ==
  /\ \A r \in Replies : run[r].state \in {"open", "ended"} =>
        /\ run'[r] = run[r]
        /\ call'[l].reply = r =>
             /\ call'[l].pc \in {"running"} \cup Stopping
                  => call[l].pc = "running" /\ call[l].reply = r
             /\ call'[l].pc \in Storing => call[l].pc \in Stopping /\ call[l].reply = r
  /\ \A r \in Replies : run'[r].state = "open" =>
        \/ run[r].state = "open"
        \/ call[l].pc = "savePlaceholder" /\ call'[l].pc = "running" /\ call[l].reply = r
  /\ call'[l].pc = "saveQuestion" =>
        /\ call[l].pc = "running" /\ call'[l].reply = call[l].reply
        /\ run[call[l].reply].outcome = "question"

LEMMA AdvancesAlways ==
  ASSUME IndInv, NEW l \in Calls, HandleSnapshot(l) \/ Coroutine(l)
  PROVE  Advances(l)
<1>0. Effect(l) /\ Typed /\ run \in [Replies -> Runs] /\ call \in [Calls -> Coroutines]
  BY Effects DEF IndInv, Typed
<1>1. CASE Asks(l)
  <2>1. PICK r \in Replies, history \in Messages, round \in Nat, asked \in BOOLEAN,
             stored \in Messages : AskingFor(l, r, history, round, asked, stored)
    BY <1>0, <1>1, AsksFields
  <2>2. /\ call'[l].pc = "savePlaceholder" /\ run[r].state = "unused"
        /\ run'[r].state = "reserved"
        /\ \A x \in Replies : x # r => run'[x] = run[x]
    BY <2>1 DEF AskingFor
  <2> QED
    BY <2>2 DEF Advances, Stopping, Storing
<1>2. CASE Sends(l)
  <2> DEFINE r == call[l].reply
  <2>1. call[l].pc = "savePlaceholder" /\ r \in Replies /\ run[r].state = "reserved"
    BY <1>2 DEF Sends, IndInv, Requests, Numbered, Loop
  <2>2. call'[l].pc = "running" /\ call'[l].reply = r
    BY <1>0, <1>2, MoveFields DEF Sends, Goes
  <2>3. \A x \in Replies : x # r => run'[x] = run[x]
    BY <1>0, <1>2 DEF Sends
  <2> QED
    BY <2>1, <2>2, <2>3 DEF Advances, Stopping, Storing
<1>3. CASE Moves(l)
  <2>1. UNCHANGED run /\ call'[l].reply = call[l].reply
    BY <1>3 DEF Moves
  <2>2. /\ call'[l].pc # "running"
        /\ call'[l].pc \in Stopping => call[l].pc = "running"
        /\ call'[l].pc \in Storing => call[l].pc \in Stopping
        /\ call'[l].pc = "saveQuestion" =>
              call[l].pc = "running" /\ run[call[l].reply].outcome = "question"
    BY <1>3 DEF Moves, Completes, Asking, GoesOn, Stopping, Storing
  <2> QED
    BY <2>1, <2>2 DEF Advances
<1>4. CASE Retries(l) \/ Finds(l) \/ ComesBack(l)
  <2>1. UNCHANGED run /\ call'[l].pc \in {"tool", "saveFailed", "returned"}
    BY <1>4 DEF Retries, Finds, ComesBack, NewCall
  <2> QED
    BY <2>1 DEF Advances, Stopping, Storing
<1>5. CASE Fails(l)
  <2>1. call'[l].pc = "tailFailed"
    BY <1>5 DEF Fails
  <2>2. CASE GivesBack(l)
    <3> DEFINE r == call[l].reply
    <3>1. r \in Replies /\ run[r].state = "reserved" /\ run' = [run EXCEPT ![r] = NewRun]
      BY <2>2 DEF GivesBack, IndInv, Requests, Numbered, Loop
    <3>2. run'[r].state = "unused" /\ \A x \in Replies : x # r => run'[x] = run[x]
      BY <1>0, <3>1 DEF NewRun
    <3> QED
      BY <2>1, <3>1, <3>2 DEF Advances, Stopping, Storing
  <2>3. CASE UNCHANGED run
    BY <2>1, <2>3 DEF Advances, Stopping, Storing
  <2> QED
    BY <1>5, <2>2, <2>3 DEF Fails
<1>6. CASE call[l].pc = "running" /\ UNCHANGED <<call, run>>
  BY <1>6 DEF Advances, Stopping, Storing
<1> QED
  BY <1>0, <1>1, <1>2, <1>3, <1>4, <1>5, <1>6 DEF Effect

LEMMA HarmlessCallStep ==
  ASSUME CheckpointInv, NEW l \in Calls, Advances(l), Stores(l), CallStep(l),
         NEW c \in Sessions, NEW r \in Replies, NEW past, Harmless(c, r, past),
         Storing \subseteq past, past \subseteq Stopping \cup Storing,
         run[r].outcome # "question" /\ call'[l].reply = r => call'[l].pc \notin past
  PROVE  Harmless(c, r, past)'
<1>1. run'[r] = run[r] /\ run[r].state \in {"open", "ended"}
  BY DEF Harmless, Advances
<1>2. CASE run[r].outcome = "question"
  BY <1>1, <1>2 DEF Harmless
<1>3. CASE run[r].outcome # "question"
  <2>1. store'[r].status \notin Final
    <3>1. r = call[l].reply => call[l].pc \notin {"saveFinal", "saveCall"}
      BY <1>3 DEF Harmless, Storing
    <3>2. r = call[l].reply => call[l].pc # "saveQuestion"
      BY <1>3 DEF CheckpointInv
    <3> QED
      BY <1>3, <3>1, <3>2 DEF Harmless, Stores
  <2>2. ASSUME NEW k \in Calls, call'[k].reply = r
        PROVE  /\ call'[k].pc \notin past
               /\ call'[k].pc \in {"running"} \cup Stopping => call'[k].session = c
    <3>1. CASE k # l
      BY <1>3, <2>2, <3>1 DEF Harmless, CallStep, LeavesCalls
    <3>2. CASE k = l
      <4>1. call'[l].pc \in {"running"} \cup Stopping =>
              call[l].pc = "running" /\ call[l].reply = r /\ call'[l].session = call[l].session
        BY <1>1, <2>2, <3>2 DEF Advances, CallStep, Stopping
      <4> QED
        BY <1>3, <2>2, <3>2, <4>1 DEF Harmless
    <3> QED
      BY <3>1, <3>2
  <2> QED
    BY <1>1, <2>1, <2>2 DEF Harmless
<1> QED
  BY <1>2, <1>3

LEMMA CheckpointCallStep ==
  ASSUME CheckpointInv, NEW l \in Calls, HandleSnapshot(l) \/ Coroutine(l)
  PROVE  CheckpointInv'
<1> DEFINE d == call[l].session
<1>0. /\ Advances(l) /\ Stores(l) /\ CallStep(l) /\ Timed(l) /\ IndInv /\ IndInv'
      /\ Effect(l) /\ EndedKept
  BY AdvancesAlways, StoresAlways, CallSteps, TimedAlways, InvCallStep, Effects, EffectRuns
     DEF CheckpointInv
<1>1. ASSUME NEW c \in Sessions, NEW r \in Replies, session'[c].timer = r
      PROVE  Harmless(c, r, Stopping \cup Storing)'
  <2>1. CASE session[c].timer = r /\ (c = d => call'[l].pc \notin Stopping)
    <3>1. Harmless(c, r, Stopping \cup Storing) /\ run[r].state \in {"open", "ended"}
      BY <2>1 DEF CheckpointInv, Harmless
    <3>2. ASSUME run[r].outcome # "question", call'[l].reply = r,
                 call'[l].pc \in Stopping \cup Storing
          PROVE  FALSE
      <4>1. call'[l].pc \notin Storing
        BY <1>0, <3>1, <3>2 DEF Advances, Harmless
      <4>2. call[l].pc = "running" /\ call[l].reply = r
        BY <1>0, <3>1, <3>2, <4>1 DEF Advances
      <4>3. d = c
        BY <3>1, <3>2, <4>2 DEF Harmless
      <4> QED
        BY <2>1, <3>2, <4>1, <4>3
    <3> QED
      BY <1>0, <3>1, <3>2, HarmlessCallStep
  <2>2. CASE /\ c = d /\ r = call[l].reply /\ call[l].pc = "running" /\ run[r].state = "open"
             /\ UNCHANGED <<call, run, store, queue>>
    <3>1. store[r].status \notin Final
      BY <2>2 DEF CheckpointInv
    <3>2. ASSUME NEW k \in Calls, call[k].reply = r
          PROVE  /\ call[k].pc \notin Stopping \cup Storing
                 /\ call[k].pc = "running" => call[k].session = c
      <4>1. call[k].pc \notin After
        BY <1>0, <2>2, <3>2 DEF IndInv, Requests
      <4>2. call[k].pc \notin Stopping \cup Storing
        BY <4>1 DEF After, Loop, Stopping, Storing
      <4>3. call[k].pc = "running" => k = l
        BY <1>0, <2>2, <3>2 DEF IndInv, OwnReplies
      <4> QED
        BY <2>2, <4>2, <4>3
    <3> QED
      BY <2>2, <3>1, <3>2 DEF Harmless
  <2>3. 0 \notin Replies
    BY Bounds DEF Replies
  <2>4. c # d => session'[c] = session[c]
    BY <1>0 DEF CallStep, LeavesSessions
  <2> QED
    BY <1>0, <1>1, <2>1, <2>2, <2>3, <2>4 DEF Timed
<1>2. ASSUME NEW c \in Sessions, NEW r \in Replies, In(queue', CheckpointOp(c, r))
      PROVE  Harmless(c, r, Storing)'
  <2>1. In(queue, CheckpointOp(c, r))
    BY <1>0, <1>2, CallStepQueue, OpsDiffer, OpsTyped
  <2>2. Harmless(c, r, Storing) /\ run[r].state \in {"open", "ended"}
    BY <2>1 DEF CheckpointInv, Harmless
  <2>3. ASSUME run[r].outcome # "question", call'[l].reply = r, call'[l].pc \in Storing
        PROVE  FALSE
    <3>1. call[l].pc \in Stopping /\ call[l].reply = r
      BY <1>0, <2>2, <2>3 DEF Advances
    <3>2. d = c
      BY <2>2, <2>3, <3>1 DEF Harmless
    <3>3. NoCheckpoint(c)
      BY <1>0, <2>3, <3>2 DEF Timed
    <3> QED
      BY <2>1, <3>3, OpsDiffer DEF In, NoCheckpoint
  <2> QED
    BY <1>0, <2>2, <2>3, HarmlessCallStep
<1>3. ASSUME NEW k \in Calls, call'[k].pc = "saveQuestion"
      PROVE  run'[call'[k].reply].outcome = "question"
  <2>1. call[k].pc \in {"running"} \cup After => call[k].reply \in Replies
    BY <1>0, EndedUsed DEF IndInv, Requests, Numbered, Loop
  <2>2. CASE k = l
    <3>1. /\ call[l].pc = "running" /\ call'[l].reply = call[l].reply
          /\ run[call[l].reply].outcome = "question"
      BY <1>0, <1>3, <2>2 DEF Advances
    <3>2. call[l].reply \in Replies /\ run[call[l].reply].state = "ended"
      BY <1>0, <2>1, <2>2, <3>1 DEF IndInv, Requests
    <3> QED
      BY <1>0, <2>2, <3>1, <3>2 DEF EndedKept
  <2>3. CASE k # l
    <3>1. call[k].pc = "saveQuestion" /\ call'[k].reply = call[k].reply
      BY <1>0, <1>3, <2>3 DEF CallStep, LeavesCalls
    <3>2. call[k].reply \in Replies /\ run[call[k].reply].state = "ended"
      BY <1>0, <3>1, EndedUsed DEF After, Loop
    <3> QED
      BY <1>0, <3>1, <3>2 DEF EndedKept, CheckpointInv
  <2> QED
    BY <2>2, <2>3
<1>4. ASSUME NEW r \in Replies, run'[r].state = "open" PROVE store'[r].status \notin Final
  <2>1. CASE run[r].state = "open"
    <3>1. store[r].status \notin Final
      BY <2>1 DEF CheckpointInv
    <3>2. r = call[l].reply => call[l].pc \notin {"saveFinal", "saveCall", "saveQuestion"}
      BY <1>0, <2>1, EndedUsed DEF After, Loop
    <3> QED
      BY <1>0, <3>1, <3>2 DEF Stores
  <2>2. CASE /\ call[l].pc = "savePlaceholder" /\ call'[l].pc = "running"
             /\ call[l].reply = r
    BY <1>0, <2>2, PlacesQueued DEF Final
  <2> QED
    BY <1>0, <1>4, <2>1, <2>2 DEF Advances
<1> QED
  BY <1>0, <1>1, <1>2, <1>3, <1>4 DEF CheckpointInv

-------------------------------------------------------------------------------
(* The other steps, in which no call goes on with an answer. *)

LEMMA CheckpointCalm ==
  ASSUME CheckpointInv, IndInv',
         \A k \in Calls :
            call'[k].pc \in {"running", "saveQuestion"} \cup Stopping \cup Storing =>
              /\ call'[k].pc = call[k].pc /\ call'[k].reply = call[k].reply
              /\ call'[k].session = call[k].session,
         \A r \in Replies :
            /\ run[r].state \in {"open", "ended"} => run'[r].state \in {"open", "ended"}
            /\ run'[r].state = "open" => run[r].state = "open"
            /\ run[r].outcome = "question" => run'[r].outcome = "question"
            /\ store'[r].status \in Final => store[r].status \in Final,
         \A c \in Sessions, r \in Replies :
            /\ session'[c].timer = r => session[c].timer = r
            /\ In(queue', CheckpointOp(c, r)) =>
                 In(queue, CheckpointOp(c, r)) \/ session[c].timer = r
  PROVE  CheckpointInv'
<1>1. ASSUME NEW c \in Sessions, NEW r \in Replies, NEW past, Harmless(c, r, past),
             past \subseteq Stopping \cup Storing
      PROVE  Harmless(c, r, past)'
  BY <1>1 DEF Harmless
<1>2. ASSUME NEW c \in Sessions, NEW r \in Replies, Harmless(c, r, Stopping \cup Storing)
      PROVE  Harmless(c, r, Storing)
  BY <1>2 DEF Harmless
<1>3. ASSUME NEW k \in Calls, call'[k].pc = "saveQuestion"
      PROVE  run'[call'[k].reply].outcome = "question"
  <2>1. call[k].pc = "saveQuestion" /\ call'[k].reply = call[k].reply
    BY <1>3
  <2>2. call[k].reply \in Replies
    BY <2>1 DEF CheckpointInv, IndInv, Requests, Numbered, Loop
  <2> QED
    BY <2>1, <2>2 DEF CheckpointInv
<1>4. \A c \in Sessions, r \in Replies :
        /\ session'[c].timer = r => Harmless(c, r, Stopping \cup Storing)'
        /\ In(queue', CheckpointOp(c, r)) => Harmless(c, r, Storing)'
  BY <1>1, <1>2 DEF CheckpointInv
<1> QED
  BY <1>3, <1>4 DEF CheckpointInv

LEMMA CheckpointStarting ==
  ASSUME CheckpointInv, IndInv', Starting
  PROVE  CheckpointInv'
<1>1. PICK l \in Calls, pc \in {"saveUser", "discard", "discardResult", "deleteMessage"},
          r \in Replies \cup {0}, part \in Parts \cup {"none"} :
        Started(l, pc, r, part)
  BY DEF Starting
<1>2. /\ UNCHANGED <<session, run, store>> /\ call'[l].pc = pc /\ LeavesCalls(l)
      /\ queue' = Append(queue, CallOp(l)) /\ queue \in Seq(Ops)
  BY <1>1 DEF Started, CheckpointInv, IndInv, Typed
<1>3. \A c \in Sessions, x \in Replies :
        In(queue', CheckpointOp(c, x)) => In(queue, CheckpointOp(c, x))
  BY <1>2, IssueIn, OpsTyped, OpsDiffer
<1> QED
  BY <1>2, <1>3, CheckpointCalm DEF LeavesCalls, Stopping, Storing

LEMMA CheckpointInterferes ==
  ASSUME CheckpointInv, IndInv', Interferes
  PROVE  CheckpointInv'
<1>0. /\ Typed /\ current \in Sessions /\ session[current] \in Controllers
      /\ session \in [Sessions -> Controllers]
  BY DEF CheckpointInv, IndInv, Typed
<1>1. /\ SameCalls /\ SameRuns /\ UNCHANGED <<store, queue>>
      /\ \A c \in Sessions : c # current => session'[c] = session[c]
  BY <1>0, VerdictStep
<1>2. session'[current].timer \in {0, session[current].timer}
  <2>1. CASE Approve(current) \/ Reject(current)
             \/ \E verdict \in {"yes", "no"} : SubmitAnswer(current, verdict)
    BY <2>1 DEF Approve, Reject, SubmitAnswer
  <2>2. CASE Cancel(current)
    <3> DEFINE phase == IF session[current].run = 0 THEN session[current].phase ELSE "cancelling"
               new == [session[current] EXCEPT !.phase = phase]
    <3>1. session' = [session EXCEPT ![current] = new]
      BY <1>0, <2>2 DEF Cancel
    <3> HIDE DEF phase
    <3>2. new.timer = session[current].timer
      BY <1>0 DEF Controllers
    <3> HIDE DEF new
    <3> QED
      BY <1>0, <3>1, <3>2
  <2>3. CASE Close(current)
    <3> DEFINE new == [session[current] EXCEPT !.closed = TRUE, !.timer = 0,
                                               !.approver = 0, !.asker = 0]
    <3>1. session' = [session EXCEPT ![current] = new]
      BY <1>0, <2>3 DEF Close
    <3>2. new.timer = 0
      BY <1>0 DEF Controllers
    <3> HIDE DEF new
    <3> QED
      BY <1>0, <3>1, <3>2
  <2> QED
    BY <2>1, <2>2, <2>3 DEF Interferes
<1>3. \A c \in Sessions, r \in Replies : session'[c].timer = r => session[c].timer = r
  <2>1. 0 \notin Replies
    BY Bounds DEF Replies
  <2> QED
    BY <1>1, <1>2, <2>1
<1>4. \A k \in Calls : /\ call'[k].pc = call[k].pc /\ call'[k].reply = call[k].reply
                       /\ call'[k].session = call[k].session
  BY <1>1 DEF SameCalls
<1>5. \A r \in Replies : /\ run'[r].state = run[r].state /\ run'[r].outcome = run[r].outcome
                         /\ store'[r] = store[r]
  BY <1>1 DEF SameRuns
<1> QED
  BY <1>1, <1>3, <1>4, <1>5, CheckpointCalm

LEMMA CheckpointRestart ==
  ASSUME CheckpointInv, IndInv', Restart(current)
  PROVE  CheckpointInv'
<1>1. /\ current \in Sessions /\ session \in [Sessions -> Controllers]
      /\ run \in [Replies -> Runs] /\ UNCHANGED store
      /\ session' = [session EXCEPT ![current] = [NewSession EXCEPT !.closed = TRUE]]
      /\ queue' = <<OpeningOp(current + 1)>> /\ current + 1 \in Sessions
  BY Bounds DEF CheckpointInv, IndInv, Typed, Restart, Sessions
<1>2. \A k \in Calls : call'[k].pc \in {"idle", "returned"}
  BY DEF Restart, NewCall
<1>3. ASSUME NEW r \in Replies
      PROVE  /\ run[r].state \in {"open", "ended"} => run'[r].state = "ended"
             /\ run'[r].state # "open"
             /\ run[r].outcome = "question" => run'[r].outcome = "question"
  <2>1. run'[r] = IF run[r].state = "unused" THEN NewRun ELSE [run[r] EXCEPT !.state = "ended"]
    BY DEF Restart
  <2>2. run[r].outcome = "question" => run[r].state = "ended"
    BY DEF CheckpointInv, IndInv, Requests
  <2> QED
    BY <1>1, <2>1, <2>2 DEF NewRun, Runs
<1>4. \A c \in Sessions, r \in Replies : session'[c].timer = r => session[c].timer = r
  <2>1. [NewSession EXCEPT !.closed = TRUE].timer = 0
    BY DEF NewSession
  <2>2. 0 \notin Replies
    BY Bounds DEF Replies
  <2> QED
    BY <1>1, <2>1, <2>2
<1>5. \A c \in Sessions, r \in Replies : ~In(queue', CheckpointOp(c, r))
  BY <1>1, OpsDiffer DEF In
<1> QED
  BY <1>1, <1>2, <1>3, <1>4, <1>5, CheckpointCalm DEF Stopping, Storing

LEMMA CheckpointRest ==
  ASSUME CheckpointInv, IndInv',
         \/ \E c \in Sessions : Checkpoint(c) \/ Attach(c) \/ Load(c) \/ Repair(c)
         \/ CheckpointSaved \/ RunEndsSomehow \/ UNCHANGED vars
  PROVE  CheckpointInv'
<1>0. /\ Typed /\ session \in [Sessions -> Controllers] /\ store \in Messages
      /\ run \in [Replies -> Runs] /\ queue \in Seq(Ops) /\ current \in Sessions
      /\ \A c \in Sessions : session[c] \in Controllers
  BY DEF CheckpointInv, IndInv, Typed
<1>1. CASE UNCHANGED vars
  BY <1>1, CheckpointCalm DEF vars
<1>2. CASE CheckpointSaved
  <2>1. /\ queue # <<>> /\ queue' = Tail(queue) /\ UNCHANGED <<session, call, run>>
        /\ store' = [store EXCEPT ![Head(queue).reply].status = "streaming"]
    BY <1>2 DEF CheckpointSaved
  <2>2. \A x : In(queue', x) => In(queue, x)
    BY <1>0, <2>1, TakeIn
  <2>3. \A r \in Replies : store'[r].status \in Final => store[r].status \in Final
    BY <1>0, <2>1, StatusUpdates DEF Final
  <2> QED
    BY <2>1, <2>2, <2>3, CheckpointCalm
<1>3. CASE RunEndsSomehow
  <2>1. PICK r \in Replies, risky \in BOOLEAN, outcome \in Outcomes : RunEnds(r, outcome, risky)
    BY <1>3 DEF RunEndsSomehow, Outcomes
  <2>2. /\ run[r].state = "open" /\ UNCHANGED <<session, call, store, queue>>
        /\ \A x \in Replies : x # r => run'[x] = run[x]
        /\ run'[r].state = "ended"
    BY <1>0, <2>1 DEF RunEnds, Runs
  <2>3. run[r].outcome # "question"
    BY <2>2 DEF CheckpointInv, IndInv, Requests
  <2> QED
    BY <2>2, <2>3, CheckpointCalm
<1>4. ASSUME NEW c \in Sessions, Checkpoint(c) PROVE CheckpointInv'
  <2> DEFINE new == [session[c] EXCEPT !.timer = 0]
             r == session[c].timer
  <2>1. /\ session' = [session EXCEPT ![c] = new] /\ UNCHANGED <<call, run, store>>
        /\ r \in Replies
        /\ queue' = queue \/ queue' = Append(queue, CheckpointOp(c, r))
    <3>1. r \in 0 .. MaxReplies /\ r # 0
      BY <1>0, <1>4 DEF Checkpoint, Controllers
    <3>2. r \in Replies
      BY <3>1, Bounds DEF Replies
    <3> QED
      BY <1>0, <1>4, <3>2 DEF Checkpoint
  <2>2. new.timer = 0 /\ 0 \notin Replies
    BY <1>0, Bounds DEF Controllers, Replies
  <2> HIDE DEF new
  <2>3. \A d \in Sessions, x \in Replies : session'[d].timer = x => session[d].timer = x
    BY <1>0, <2>1, <2>2
  <2>4. \A d \in Sessions, x \in Replies : In(queue', CheckpointOp(d, x)) =>
          In(queue, CheckpointOp(d, x)) \/ session[d].timer = x
    <3>1. CASE queue' = Append(queue, CheckpointOp(c, r))
      <4>1. \A x : In(queue', x) <=> In(queue, x) \/ x = CheckpointOp(c, r)
        BY <1>0, <2>1, <3>1, IssueIn, OpsTyped
      <4> QED
        BY <2>1, <4>1, OpsDiffer
    <3> QED
      BY <2>1, <3>1
  <2> QED
    BY <2>1, <2>3, <2>4, CheckpointCalm
<1>5. ASSUME NEW c \in Sessions, Attach(c) PROVE CheckpointInv'
  <2>1. /\ queue' = Append(queue, OpeningOp(c + 1)) /\ UNCHANGED <<session, call, run, store>>
        /\ c + 1 \in Sessions
    <3>1. current' \in Sessions /\ current' = c + 1
      BY <1>5 DEF Attach, IndInv, Typed
    <3> QED
      BY <1>5, <3>1 DEF Attach
  <2>2. \A d \in Sessions, x \in Replies :
          In(queue', CheckpointOp(d, x)) => In(queue, CheckpointOp(d, x))
    BY <1>0, <2>1, IssueIn, OpsTyped, OpsDiffer
  <2> QED
    BY <2>1, <2>2, CheckpointCalm
<1>6. ASSUME NEW c \in Sessions, Load(c) \/ Repair(c) PROVE CheckpointInv'
  <2>1. \A d \in Sessions, x \in Replies :
          In(queue', CheckpointOp(d, x)) => In(queue, CheckpointOp(d, x))
    <3>1. queue # <<>> /\ (queue' = Tail(queue) \/ queue' = Append(Tail(queue), OpeningOp(c)))
      <4>1. CASE Load(c)
        <5>1. \E open : queue' = IF open = {} THEN Tail(queue)
                                 ELSE Append(Tail(queue), OpeningOp(c))
          BY <4>1, Zenon DEF Load
        <5>2. Opening(c)
          BY <4>1, Zenon DEF Load
        <5> QED
          BY <5>1, <5>2 DEF Opening
      <4>2. CASE Repair(c)
        BY <4>2, Zenon DEF Repair, Opening
      <4> QED
        BY <1>6, <4>1, <4>2
    <3>2. Tail(queue) \in Seq(Ops) /\ \A x : In(Tail(queue), x) => In(queue, x)
      BY <1>0, <3>1, TakeIn
    <3>3. CASE queue' = Append(Tail(queue), OpeningOp(c))
      <4>1. OpeningOp(c) \in Ops
        BY OpsTyped
      <4>2. \A x : In(queue', x) <=> In(Tail(queue), x) \/ x = OpeningOp(c)
        BY <3>2, <3>3, <4>1, IssueIn
      <4> QED
        BY <3>2, <4>2, OpsDiffer
    <3> QED
      BY <3>1, <3>2, <3>3
  <2>2. UNCHANGED <<call, run>>
    BY <1>6, Zenon DEF Load, Repair
  <2>3. CASE Load(c)
    <3> DEFINE open == {r \in Replies : store[r].status \in Open}
               phase == IF open = {} THEN "ready" ELSE session[c].phase
               new == [session[c] EXCEPT !.loaded = TRUE, !.view = store, !.phase = phase]
    <3>1. session' = [session EXCEPT ![c] = new] /\ UNCHANGED store
      BY <1>0, <2>3, Zenon DEF Load
    <3> HIDE DEF phase
    <3>2. new.timer = session[c].timer
      BY <1>0 DEF Controllers
    <3> HIDE DEF new
    <3> QED
      BY <1>0, <2>1, <2>2, <3>1, <3>2, CheckpointCalm
  <2>4. CASE Repair(c)
    <3> DEFINE Repaired(messages) ==
                 [r \in Replies |-> IF session[c].view[r].status \in Open
                                    THEN [messages[r] EXCEPT !.status = "interrupted"]
                                    ELSE messages[r]]
               view == Repaired(session[c].view)
               new == [session[c] EXCEPT !.view = view, !.phase = "ready"]
    <3>1. session' = [session EXCEPT ![c] = new] /\ store' = Repaired(store)
      BY <1>0, <2>4, Zenon DEF Repair
    <3>2. \A r \in Replies : store'[r].status \in Final => store[r].status \in Final
      BY <1>0, <3>1 DEF Messages, Final
    <3> HIDE DEF view
    <3>3. new.timer = session[c].timer
      BY <1>0 DEF Controllers
    <3> HIDE DEF new, Repaired
    <3> QED
      BY <1>0, <2>1, <2>2, <3>1, <3>2, <3>3, CheckpointCalm
  <2> QED
    BY <1>6, <2>3, <2>4
<1> QED
  BY <1>1, <1>2, <1>3, <1>4, <1>5, <1>6

LEMMA CheckpointInit == Init => CheckpointInv
<1> SUFFICES ASSUME Init PROVE CheckpointInv
  OBVIOUS
<1>1. /\ \A c \in Sessions : session[c].timer = 0
      /\ \A l \in Calls : call[l].pc = "idle"
      /\ \A r \in Replies : run[r].state = "unused"
      /\ queue = <<OpeningOp(1)>> /\ 1 \in Sessions
  BY Bounds DEF Init, NewSession, NewCall, NewRun
<1>2. \A c \in Sessions, r \in Replies : ~In(queue, CheckpointOp(c, r))
  BY <1>1, OpsDiffer DEF In
<1>3. 0 \notin Replies
  BY Bounds DEF Replies
<1> QED
  BY <1>1, <1>2, <1>3, InvInit DEF CheckpointInv

LEMMA CheckpointNext == ASSUME CheckpointInv, [Next]_vars PROVE CheckpointInv'
<1>1. IndInv' /\ Typed
  BY InvNext DEF CheckpointInv, IndInv
<1>2. User => CheckpointInv'
  BY <1>1, UserSteps, CheckpointStarting, CheckpointInterferes, CheckpointRestart
<1> QED
  BY <1>1, <1>2, CheckpointCallStep, CheckpointRest DEF Next

(* The step of NoLateCheckpoint. *)
KeepsFinal ==
  \A r \in Replies :
     store[r].status \in {"completed", "cancelled"} /\ run[r].outcome # "question"
       => store'[r].status # "streaming"

LEMMA FinalKept == ASSUME CheckpointInv, [Next]_vars PROVE KeepsFinal
<1>0. Typed /\ store \in Messages /\ queue \in Seq(Ops) /\ IndInv
  BY DEF CheckpointInv, IndInv, Typed
<1>1. ASSUME NEW l \in Calls, HandleSnapshot(l) \/ Coroutine(l) PROVE KeepsFinal
  <2>1. Stores(l)
    BY <1>0, <1>1, StoresAlways
  <2> QED
    BY <2>1 DEF Stores, KeepsFinal
<1>2. CASE UNCHANGED store
  BY <1>2 DEF KeepsFinal
<1>3. CASE CheckpointSaved
  <2>1. /\ queue # <<>> /\ Head(queue).by = "checkpoint"
        /\ store' = [store EXCEPT ![Head(queue).reply].status = "streaming"]
    BY <1>3 DEF CheckpointSaved
  <2>2. Head(queue) \in Ops /\ In(queue, Head(queue))
    BY <1>0, <2>1, TakeIn
  <2>3. PICK c \in Sessions, r \in Replies : Head(queue) = CheckpointOp(c, r)
    BY <2>1, <2>2, OpsDiffer DEF Ops
  <2>4. run[r].outcome = "question" \/ store[r].status \notin Final
    BY <2>2, <2>3 DEF CheckpointInv, Harmless
  <2>5. \A x \in Replies : x # r => store'[x] = store[x]
    BY <1>0, <2>1, <2>3, OpsDiffer DEF Messages
  <2> QED
    BY <2>4, <2>5 DEF KeepsFinal, Final
<1>4. ASSUME NEW c \in Sessions, Repair(c) PROVE KeepsFinal
  <2> DEFINE Repaired(messages) ==
               [r \in Replies |-> IF session[c].view[r].status \in Open
                                  THEN [messages[r] EXCEPT !.status = "interrupted"]
                                  ELSE messages[r]]
  <2>1. store' = Repaired(store)
    BY <1>4, Zenon DEF Repair
  <2>2. \A r \in Replies : store'[r].status \in {store[r].status, "interrupted"}
    BY <1>0, <2>1 DEF Messages
  <2> QED
    BY <2>2 DEF KeepsFinal
<1>5. User => UNCHANGED store
  <2>1. Starting => UNCHANGED store
    BY DEF Starting, Started
  <2>2. Interferes \/ Restart(current) => UNCHANGED store
    BY <1>0, VerdictStep DEF Restart
  <2> QED
    BY <1>0, <2>1, <2>2, UserSteps
<1>6. (\E c \in Sessions : Checkpoint(c) \/ Attach(c) \/ Load(c)) \/ UNCHANGED vars
        => UNCHANGED store
  BY Zenon DEF Checkpoint, Attach, Load, vars
<1>7. RunEndsSomehow => UNCHANGED store
  BY DEF RunEndsSomehow, RunEnds
<1> QED
  BY <1>1, <1>2, <1>3, <1>4, <1>5, <1>6, <1>7 DEF Next

(* A checkpoint never overwrites the answer it is a part of, unless that is a   *)
(* question: also when calls overlap, a controller is closed with one under  *)
(* way, saves fail, and the app is started again.                            *)
THEOREM CheckpointsAreInTime == Spec => NoLateCheckpoint
<1>1. Init => CheckpointInv
  BY CheckpointInit
<1>2. CheckpointInv /\ [Next]_vars => CheckpointInv'
  BY CheckpointNext
<1>3. CheckpointInv /\ [Next]_vars => KeepsFinal
  BY FinalKept
<1> QED
  BY <1>1, <1>2, <1>3, PTL DEF Spec, NoLateCheckpoint, KeepsFinal

-------------------------------------------------------------------------------
(* Where a step of a call leads, and what it shows and stores. *)

Blank == [r \in Replies |-> Nothing]

WithUser(messages, r, a)   == [messages EXCEPT ![r].user = a]
WithStatus(messages, r, a) == [messages EXCEPT ![r].status = a]
WithResult(messages, r, a) == [messages EXCEPT ![r].result = a]

(* The step of call l leaves it at pc with answer r and history h; its        *)
(* controller shows v, unless it is closed; and s is stored.                 *)
Becomes(l, pc, r, h, v, s) ==
  LET c == call[l].session IN
  /\ call'[l].pc = pc /\ call'[l].reply = r /\ call'[l].history = h
  /\ session'[c].view = IF session[c].closed THEN session[c].view ELSE v
  /\ store' = s

(* It asks for the next answer, which may follow a message of the user. *)
AsksNext(l, h, v, s) ==
  \E x \in Replies, asked \in BOOLEAN :
     /\ run[x].state = "unused" /\ Used = 1 .. x - 1
     /\ Becomes(l, "savePlaceholder", x, WithUser(h, x, asked), v,
                WithUser(s, x, asked))

Cut(messages, later, r) == WithResult(Without(messages, From(later, r + 1)), r, "none")

Gone(messages, r, part) == [messages EXCEPT ![r][part] = Nothing[part]]

GoesThrough(l, pcs, h, v, s) ==
  call'[l].pc \in pcs /\ Becomes(l, call'[l].pc, call[l].reply, h, v, s)

ComesTo(l, v, s) == Becomes(l, "returned", 0, Blank, v, s)

(* The steps of a turn, *)
CourseOfTurn(l) ==
  LET r == call[l].reply
      h == call[l].history
      v == session[call[l].session].view
      left == Without(v, From(v, r))
  IN  \/ call[l].pc = "saveUser" /\ AsksNext(l, h, v, store)
      \/ /\ call[l].pc = "discard"
         /\ GoesThrough(l, {"saveAgain"}, h, v,
                    WithUser(Without(store, From(h, r)), r, store[r].user))
      \/ call[l].pc = "saveAgain" /\ AsksNext(l, left, left, WithUser(store, r, FALSE))
      \/ /\ call[l].pc = "discardResult"
         /\ GoesThrough(l, {"tool"}, Cut(v, v, r), Cut(v, v, r), Cut(store, h, r))
      \/ /\ call[l].pc = "deleteMessage"
         /\ ComesTo(l, Gone(v, r, call[l].part), Gone(store, r, call[l].part))

(* of a round, *)
CourseOfRound(l) ==
  LET c == call[l].session
      r == call[l].reply
      h == call[l].history
      v == session[c].view
  IN  \/ /\ call[l].pc = "savePlaceholder"
         /\ GoesThrough(l, {"running"}, h, WithStatus(h, r, "queued"),
                        WithStatus(store, r, "queued"))
         /\ run'[r].state = "open"
         /\ ~session[c].closed => session'[c].request = r
      \/ /\ call[l].pc = "running"
         /\ GoesThrough(l, {"running", "saveQuestion"} \cup Stopping, h, v, store)
         /\ session'[c].request = session[c].request
      \/ call[l].pc = "running" /\ session[c].request # r /\ ComesTo(l, v, store)
      \/ call[l].pc \in Stopping /\ GoesThrough(l, Storing, h, v, store)
      \/ /\ call[l].pc = "saveFinal"
         /\ GoesThrough(l, {"saveConversation"}, h, v, WithStatus(store, r, Outcome(r)))
      \/ /\ call[l].pc = "saveConversation"
         /\ ComesTo(l, Settle(v, r, Outcome(r)), store)

(* with tools and questions, *)
CourseOfTool(l) ==
  LET r == call[l].reply
      h == call[l].history
      v == session[call[l].session].view
      done == WithStatus(h, r, "completed")
      refused == WithResult(h, r, "rejected")
      answer == Settle(v, r, "completed")
      With(messages) == WithResult(messages, r, call[l].verdict)
  IN  \/ /\ call[l].pc = "saveCall"
         /\ GoesThrough(l, {"approve", "tool"}, done, done,
                        WithStatus(store, r, "completed"))
      \/ call[l].pc = "approve" /\ GoesThrough(l, {"tool"}, h, h, store)
      \/ call[l].pc = "approve" /\ AsksNext(l, refused, refused, store)
      \/ call[l].pc = "tool" /\ GoesThrough(l, {"saveResult"}, h, v, store)
      \/ /\ call[l].pc = "saveResult"
         /\ \E shown \in {With(h), With(v)} : AsksNext(l, With(h), shown, With(store))
      \/ /\ call[l].pc = "saveQuestion"
         /\ GoesThrough(l, {"ask"}, answer, answer, WithStatus(store, r, "completed"))
      \/ call[l].pc = "ask" /\ GoesThrough(l, {"saveAnswer"}, h, v, store)
      \/ call[l].pc = "ask" /\ ComesTo(l, v, store)
      \/ call[l].pc = "saveAnswer" /\ AsksNext(l, h, h, store)

(* and of one that fails. *)
CourseOfFailure(l) ==
  LET r == call[l].reply
      h == call[l].history
      v == session[call[l].session].view
      last == Last(Unsettled(v))
  IN  \/ /\ call[l].pc \in {"saveUser", "discard", "saveAgain", "discardResult",
                            "deleteMessage", "saveResult"}
         /\ failures' > 0 /\ ComesTo(l, v, store)
      \/ /\ call[l].pc \in {"savePlaceholder", "saveCall", "saveQuestion", "saveAnswer",
                            "saveFinal", "saveConversation", "saveResult"}
         /\ failures' > 0 /\ GoesThrough(l, {"tailFailed"}, h, v, store)
      \/ call[l].pc = "tailFailed" /\ Unsettled(v) = {} /\ ComesTo(l, v, store)
      \/ /\ call[l].pc = "tailFailed" /\ Unsettled(v) # {}
         /\ Becomes(l, "saveFailed", last, WithStatus(v, last, "failed"), v, store)
      \/ /\ call[l].pc = "saveFailed"
         /\ \E s \in {store, WithStatus(store, r, "failed")} : ComesTo(l, h, s)

Course(l) == CourseOfTurn(l) \/ CourseOfRound(l) \/ CourseOfTool(l) \/ CourseOfFailure(l)

(* What a controller shows after it has shown something else. *)
LEMMA ViewShown ==
  ASSUME IndInv, NEW c \in Sessions, NEW m, NEW p, NEW q, NEW x,
         LET s == Shows(c, m, p, q)
         IN  \/ session' = [session EXCEPT ![c] = s]
             \/ session' = [session EXCEPT ![c] = [s EXCEPT !.run = x]]
             \/ session' = [session EXCEPT ![c] = [s EXCEPT !.approver = x]]
             \/ session' = [session EXCEPT ![c] = [s EXCEPT !.asker = x]]
  PROVE  /\ session'[c].view = IF session[c].closed THEN session[c].view ELSE m
         /\ ~session[c].closed => session'[c].request = q
<1> DEFINE s == Shows(c, m, p, q)
           names == {"phase", "loaded", "closed", "view", "request", "run", "timer",
                     "approver", "asker"}
<1>1. /\ session \in [Sessions -> Controllers] /\ session[c] \in Controllers
      /\ DOMAIN session[c] = names
  BY DEF IndInv, Typed, Controllers
<1>2. /\ s.view = IF session[c].closed THEN session[c].view ELSE m
      /\ ~session[c].closed => s.request = q
      /\ DOMAIN s = names
  BY <1>1 DEF Shows
<1>3. \/ session' = [session EXCEPT ![c] = s]
      \/ session' = [session EXCEPT ![c] = [s EXCEPT !.run = x]]
      \/ session' = [session EXCEPT ![c] = [s EXCEPT !.approver = x]]
      \/ session' = [session EXCEPT ![c] = [s EXCEPT !.asker = x]]
  OBVIOUS
<1> HIDE DEF s
<1>4. /\ [s EXCEPT !.run = x].view = s.view /\ [s EXCEPT !.approver = x].view = s.view
      /\ [s EXCEPT !.asker = x].view = s.view
      /\ [s EXCEPT !.run = x].request = s.request /\ [s EXCEPT !.asker = x].request = s.request
      /\ [s EXCEPT !.approver = x].request = s.request
  BY <1>2
<1>5. session'[c].view = s.view /\ session'[c].request = s.request
  BY <1>1, <1>3, <1>4
<1> QED
  BY <1>2, <1>5

LEMMA AsksNextOf ==
  ASSUME IndInv, NEW l \in Owing, NEW history, NEW round, NEW asked \in BOOLEAN, NEW stored,
         NEW before, NextRound(l, history, round, asked, stored, before), NEW v,
         session'[call[l].session].view =
           IF session[call[l].session].closed THEN session[call[l].session].view ELSE v
  PROVE  AsksNext(l, history, v, stored)
<1>1. PICK r \in Replies : Reserves(l, r, history, round, asked, stored, before)
  BY NextReply DEF IndInv
<1>2. l \in Calls /\ call[l] \in Coroutines /\ call \in [Calls -> Coroutines]
  BY DEF Owing, IndInv, Typed
<1> DEFINE messages == [history EXCEPT ![r].user = asked]
           new == [call[l] EXCEPT !.pc = "savePlaceholder", !.retry = FALSE, !.round = round,
                                  !.reply = r, !.history = messages, !.verdict = "none"]
<1>3. call' = [call EXCEPT ![l] = new]
  BY <1>1 DEF Reserves
<1> HIDE DEF messages
<1>4. new.pc = "savePlaceholder" /\ new.reply = r /\ new.history = messages
  BY <1>2 DEF Coroutines
<1> HIDE DEF new
<1>5. call'[l] = new
  BY <1>2, <1>3
<1>6. /\ run[r].state = "unused" /\ Used = 1 .. r - 1
      /\ store' = [stored EXCEPT ![r].user = asked]
  BY <1>1 DEF Reserves
<1> QED
  BY <1>4, <1>5, <1>6 DEF AsksNext, WithUser, Becomes, messages

(* A step that sends the call on, or back. *)
LEMMA GoesThroughOf ==
  ASSUME IndInv, NEW l \in Calls, NEW pc, NEW v,
         session'[call[l].session].view =
           IF session[call[l].session].closed THEN session[call[l].session].view ELSE v
  PROVE  /\ Goes(l, pc) \/ (\E before : Issues(l, pc, before)) =>
              GoesThrough(l, {pc}, call[l].history, v, store')
         /\ Returns(l) => ComesTo(l, v, store')
<1>1. Typed
  BY DEF IndInv
<1>2. ASSUME Returns(l) PROVE ComesTo(l, v, store')
  <2>1. /\ [NewCall EXCEPT !.pc = "returned"].pc = "returned"
        /\ [NewCall EXCEPT !.pc = "returned"].reply = 0
        /\ [NewCall EXCEPT !.pc = "returned"].history = Blank
    BY DEF NewCall, Blank
  <2>2. call'[l] = [NewCall EXCEPT !.pc = "returned"]
    BY <1>1, <1>2, MoveFields
  <2> QED
    BY <2>1, <2>2 DEF ComesTo, Becomes
<1>3. ASSUME Goes(l, pc) \/ (\E before : Issues(l, pc, before))
      PROVE  GoesThrough(l, {pc}, call[l].history, v, store')
  BY <1>1, <1>3, MoveFields DEF GoesThrough, Becomes
<1> QED
  BY <1>2, <1>3

LEMMA TurnCourse ==
  ASSUME IndInv, NEW l \in Calls,
         \/ UserSaved(l) \/ Discarded(l) \/ SavedAgain(l) \/ ResultDiscarded(l)
         \/ MessageDeleted(l)
  PROVE  CourseOfTurn(l)
<1> DEFINE c == call[l].session
           r == call[l].reply
           h == call[l].history
           v == session[c].view
<1>0. /\ c \in Sessions /\ call[l] \in Coroutines /\ call \in [Calls -> Coroutines]
      /\ \A new, m : session' = [session EXCEPT ![c] = new] => session'[c] = new
  BY CallFields DEF IndInv, Typed
<1>1. CASE UserSaved(l)
  <2>1. /\ l \in Owing /\ call[l].pc = "saveUser" /\ UNCHANGED session
        /\ NextRound(l, h, 0, TRUE, store, Tail(queue))
    BY <1>1, OwingPcs DEF UserSaved, Done
  <2>2. AsksNext(l, h, v, store)
    BY <2>1, AsksNextOf
  <2> QED
    BY <2>1, <2>2 DEF CourseOfTurn, WithUser
<1>2. CASE Discarded(l)
  <2>1. /\ call[l].pc = "discard" /\ UNCHANGED session
        /\ store' = [Without(store, From(h, r)) EXCEPT ![r].user = store[r].user]
        /\ Issues(l, "saveAgain", Tail(queue))
    BY <1>2 DEF Discarded, Done
  <2>2. GoesThrough(l, {"saveAgain"}, h, v, store')
    BY <2>1, GoesThroughOf
  <2> QED
    BY <2>1, <2>2 DEF CourseOfTurn, WithUser
<1>3. CASE SavedAgain(l)
  <2> DEFINE left == Without(v, From(v, r))
             stored == [store EXCEPT ![r].user = FALSE]
  <2>1. /\ l \in Owing /\ call[l].pc = "saveAgain"
        /\ session' = [session EXCEPT ![c] = Shows(c, left, session[c].phase, session[c].request)]
        /\ NextRound(l, left, 0, TRUE, stored, Tail(queue))
    BY <1>3, OwingPcs DEF SavedAgain, Done
  <2> HIDE DEF left, stored
  <2>2. session'[c].view = IF session[c].closed THEN v ELSE left
    BY <1>0, <2>1, ViewShown
  <2>3. AsksNext(l, left, left, stored)
    BY <2>1, <2>2, AsksNextOf
  <2> QED
    BY <2>1, <2>3 DEF CourseOfTurn, WithUser, left, stored
<1>4. CASE ResultDiscarded(l)
  <2> DEFINE cut == Cut(v, v, r)
             round == RoundsInTurn(cut)
             new == [call[l] EXCEPT !.pc = "tool", !.history = cut, !.round = round]
  <2>1. /\ call[l].pc = "discardResult" /\ store' = Cut(store, h, r)
        /\ session' = [session EXCEPT ![c] = Shows(c, cut, "requesting", session[c].request)]
        /\ call' = [call EXCEPT ![l].pc = "tool", ![l].history = cut, ![l].round = round]
    BY <1>4, Zenon DEF ResultDiscarded, Done, Cut, WithResult
  <2> HIDE DEF round
  <2>2. call' = [call EXCEPT ![l] = new]
    BY <1>0, <2>1
  <2> HIDE DEF cut
  <2>3. new.pc = "tool" /\ new.history = cut /\ new.reply = r
    BY <1>0 DEF Coroutines
  <2> HIDE DEF new
  <2>4. call'[l] = new
    BY <1>0, <2>2
  <2>5. session'[c].view = IF session[c].closed THEN v ELSE cut
    BY <1>0, <2>1, ViewShown
  <2>6. GoesThrough(l, {"tool"}, cut, cut, Cut(store, h, r))
    BY <2>1, <2>3, <2>4, <2>5 DEF GoesThrough, Becomes
  <2> QED
    BY <2>1, <2>6 DEF CourseOfTurn, WithUser, cut
<1>5. CASE MessageDeleted(l)
  <2> DEFINE gone == Gone(v, r, call[l].part)
  <2>1. /\ call[l].pc = "deleteMessage" /\ store' = Gone(store, r, call[l].part)
        /\ session' = [session EXCEPT ![c] = Shows(c, gone, session[c].phase, session[c].request)]
        /\ Returns(l)
    BY <1>5 DEF MessageDeleted, Done, Gone
  <2> HIDE DEF gone
  <2>2. session'[c].view = IF session[c].closed THEN v ELSE gone
    BY <1>0, <2>1, ViewShown
  <2>3. ComesTo(l, gone, store')
    BY <2>1, <2>2, GoesThroughOf
  <2> QED
    BY <2>1, <2>3 DEF CourseOfTurn, WithUser, gone
<1> QED
  BY <1>1, <1>2, <1>3, <1>4, <1>5

LEMMA RoundCourse ==
  ASSUME IndInv, NEW l \in Calls,
         \/ PlaceholderSaved(l) \/ EndsInQuestion(l) \/ EndsInCall(l) \/ Finishes(l)
         \/ TailAwaited(l) \/ FinalSaved(l) \/ ConversationSaved(l) \/ HandleSnapshot(l)
  PROVE  CourseOfRound(l)
<1> DEFINE c == call[l].session
           r == call[l].reply
           h == call[l].history
           v == session[c].view
<1>0. /\ c \in Sessions /\ session[c] \in Controllers /\ session \in [Sessions -> Controllers]
      /\ run \in [Replies -> Runs]
  BY CallFields DEF IndInv, Typed
<1>a. /\ [session[c] EXCEPT !.run = 0].view = v
      /\ [session[c] EXCEPT !.run = 0].request = session[c].request
      /\ Quiet(c).view = v /\ Quiet(c).request = session[c].request
      /\ [session[c] EXCEPT !.phase = "streaming", !.timer = r].view = v
      /\ [session[c] EXCEPT !.phase = "streaming", !.timer = r].request = session[c].request
  BY <1>0 DEF Quiet, Controllers
<1>1. CASE PlaceholderSaved(l)
  <2> DEFINE messages == [h EXCEPT ![r].status = "queued"]
             stored == [store EXCEPT ![r].status = "queued"]
  <2>1. /\ call[l].pc = "savePlaceholder" /\ store' = stored /\ Goes(l, "running")
        /\ session' = [session EXCEPT ![c] = [Shows(c, messages, "requesting", r) EXCEPT !.run = r]]
        /\ run' = [run EXCEPT ![r].state = "open"]
    BY <1>1 DEF PlaceholderSaved, Done
  <2> HIDE DEF messages, stored
  <2>a. session' = [session EXCEPT ![c] = [Shows(c, messages, "requesting", r) EXCEPT !.run = r]]
    BY <2>1
  <2>2. /\ session'[c].view = IF session[c].closed THEN v ELSE messages
        /\ ~session[c].closed => session'[c].request = r
    <3> HIDE DEF c, r
    <3> QED
      BY <1>0, <2>a, ViewShown
  <2>3. GoesThrough(l, {"running"}, h, messages, stored)
    BY <2>1, <2>2, GoesThroughOf
  <2>4. r \in Replies
    BY <2>1 DEF IndInv, Requests, Numbered, Loop
  <2>5. run'[r].state = "open"
    BY <1>0, <2>1, <2>4 DEF Runs
  <2> QED
    BY <2>1, <2>2, <2>3, <2>5 DEF CourseOfRound, WithStatus, messages, stored
<1>2. CASE EndsInQuestion(l) \/ EndsInCall(l) \/ Finishes(l)
  <2>1. /\ \/ session' = [session EXCEPT ![c] = [session[c] EXCEPT !.run = 0]]
           \/ session' = [session EXCEPT ![c] = Quiet(c)]
        /\ UNCHANGED store /\ call[l].pc = "running"
        /\ \/ Issues(l, "saveQuestion", queue) \/ Goes(l, "tailCall") \/ Goes(l, "tailFinal")
           \/ Returns(l) /\ session[c].request # r
    BY <1>0, <1>2 DEF EndsInQuestion, EndsInCall, Finishes, Ended, Typed
  <2>2. session'[c].view = v /\ session'[c].request = session[c].request
    BY <1>0, <1>a, <2>1
  <2>3. \A pc : Goes(l, pc) \/ (\E before : Issues(l, pc, before))
                  => GoesThrough(l, {pc}, h, v, store)
    BY <2>1, <2>2, GoesThroughOf
  <2>4. Returns(l) => ComesTo(l, v, store)
    BY <2>1, <2>2, GoesThroughOf
  <2>5. CASE Returns(l) /\ session[c].request # r
    BY <2>1, <2>4, <2>5 DEF CourseOfRound, WithStatus
  <2>6. CASE Issues(l, "saveQuestion", queue) \/ Goes(l, "tailCall") \/ Goes(l, "tailFinal")
    <3>1. GoesThrough(l, {"running", "saveQuestion"} \cup Stopping, h, v, store)
      BY <2>3, <2>6 DEF GoesThrough, Stopping
    <3> QED
      BY <2>1, <2>2, <3>1 DEF CourseOfRound, WithStatus
  <2> QED
    BY <2>1, <2>5, <2>6
<1>3. CASE TailAwaited(l)
  <2>1. /\ UNCHANGED <<session, store>> /\ call[l].pc \in Stopping
        /\ Issues(l, "saveCall", queue) \/ Issues(l, "saveFinal", queue)
    BY <1>3 DEF TailAwaited, Stopping
  <2>2. \A pc : Issues(l, pc, queue) => GoesThrough(l, {pc}, h, v, store)
    BY <2>1, GoesThroughOf
  <2>3. GoesThrough(l, Storing, h, v, store)
    BY <2>1, <2>2 DEF GoesThrough, Storing
  <2> QED
    BY <2>1, <2>3 DEF CourseOfRound, WithStatus
<1>4. CASE FinalSaved(l)
  <2>1. /\ call[l].pc = "saveFinal" /\ UNCHANGED session
        /\ store' = [store EXCEPT ![r].status = Outcome(r)]
        /\ Issues(l, "saveConversation", Tail(queue))
    BY <1>4 DEF FinalSaved, Done
  <2>2. GoesThrough(l, {"saveConversation"}, h, v, store')
    BY <2>1, GoesThroughOf
  <2> QED
    BY <2>1, <2>2 DEF CourseOfRound, WithStatus
<1>5. CASE ConversationSaved(l)
  <2> DEFINE settled == Settle(v, r, Outcome(r))
             phase == IF Outcome(r) = "failed" THEN "failed" ELSE "ready"
  <2>1. /\ call[l].pc = "saveConversation" /\ UNCHANGED store /\ Returns(l)
        /\ session' = [session EXCEPT ![c] = [Shows(c, settled, phase, 0) EXCEPT !.run = 0]]
    BY <1>5 DEF ConversationSaved, Done
  <2> HIDE DEF settled, phase
  <2>2. session'[c].view = IF session[c].closed THEN v ELSE settled
    BY <1>0, <2>1, ViewShown
  <2>3. ComesTo(l, settled, store)
    BY <2>1, <2>2, GoesThroughOf
  <2> QED
    BY <2>1, <2>3 DEF CourseOfRound, WithStatus, settled
<1>6. CASE HandleSnapshot(l)
  <2>1. /\ call[l].pc = "running" /\ UNCHANGED <<call, store>>
        /\ session' = [session EXCEPT ![c] = [session[c] EXCEPT !.phase = "streaming", !.timer = r]]
    BY <1>0, <1>6 DEF HandleSnapshot
  <2>2. session'[c].view = v /\ session'[c].request = session[c].request
    BY <1>0, <1>a, <2>1
  <2>3. GoesThrough(l, {"running", "saveQuestion"} \cup Stopping, h, v, store)
    BY <2>1, <2>2 DEF GoesThrough, Becomes
  <2> QED
    BY <2>1, <2>2, <2>3 DEF CourseOfRound, WithStatus
<1> QED
  BY <1>1, <1>2, <1>3, <1>4, <1>5, <1>6

LEMMA ToolCourse ==
  ASSUME IndInv, NEW l \in Calls,
         \/ CallSaved(l) \/ Approved(l) \/ Rejected(l)
         \/ \E result \in {"ok", "failed"} : ToolReturns(l, result)
         \/ ResultSaved(l) \/ QuestionSaved(l) \/ Answered(l) \/ AnswerSaved(l)
  PROVE  CourseOfTool(l)
<1> DEFINE c == call[l].session
           r == call[l].reply
           h == call[l].history
           v == session[c].view
           With(messages) == [messages EXCEPT ![r].result = call[l].verdict]
<1>0. /\ c \in Sessions /\ session[c] \in Controllers /\ session \in [Sessions -> Controllers]
      /\ call[l] \in Coroutines /\ call \in [Calls -> Coroutines]
  BY CallFields DEF IndInv, Typed
<1>1. CASE CallSaved(l)
  <2> DEFINE done == [h EXCEPT ![r].status = "completed"]
             stored == [store EXCEPT ![r].status = "completed"]
             pc == IF run[r].risky THEN "approve" ELSE "tool"
             new == [call[l] EXCEPT !.history = done, !.verdict = "none", !.pc = pc]
  <2>1. /\ call[l].pc = "saveCall" /\ store' = stored
        /\ call' = [call EXCEPT ![l] = new]
        /\ session' = [session EXCEPT ![c] =
             IF run[r].risky
             THEN [Shows(c, done, "awaitingToolApproval", 0) EXCEPT !.approver = l]
             ELSE Shows(c, done, "requesting", 0)]
    BY <1>0, <1>1 DEF CallSaved, Done
  <2> HIDE DEF done, stored
  <2>2. new.pc = pc /\ new.reply = r /\ new.history = done /\ pc \in {"approve", "tool"}
    BY <1>0 DEF Coroutines
  <2> HIDE DEF new, pc
  <2>3. call'[l] = new
    BY <1>0, <2>1
  <2>4. session'[c].view = IF session[c].closed THEN v ELSE done
    <3>1. CASE session' = [session EXCEPT ![c] =
                             [Shows(c, done, "awaitingToolApproval", 0) EXCEPT !.approver = l]]
      BY <1>0, <3>1, ViewShown
    <3>2. CASE session' = [session EXCEPT ![c] = Shows(c, done, "requesting", 0)]
      BY <1>0, <3>2, ViewShown
    <3> QED
      BY <2>1, <3>1, <3>2
  <2>5. GoesThrough(l, {"approve", "tool"}, done, done, stored)
    BY <2>1, <2>2, <2>3, <2>4 DEF GoesThrough, Becomes
  <2> QED
    BY <2>1, <2>5 DEF CourseOfTool, WithStatus, WithResult, done, stored
<1>2. CASE Approved(l)
  <2>1. /\ call[l].pc = "approve" /\ UNCHANGED store /\ Goes(l, "tool")
        /\ session' = [session EXCEPT ![c] = [Shows(c, h, "requesting", 0) EXCEPT !.approver = 0]]
    BY <1>2 DEF Approved
  <2>2. session'[c].view = IF session[c].closed THEN v ELSE h
    BY <1>0, <2>1, ViewShown
  <2>3. GoesThrough(l, {"tool"}, h, h, store)
    BY <2>1, <2>2, GoesThroughOf
  <2> QED
    BY <2>1, <2>3 DEF CourseOfTool, WithStatus, WithResult
<1>3. CASE Rejected(l)
  <2> DEFINE refused == [h EXCEPT ![r].result = "rejected"]
  <2>1. /\ call[l].pc = "approve" /\ l \in Owing
        /\ NextRound(l, refused, call[l].round + 1, FALSE, store, queue)
        /\ session' = [session EXCEPT ![c] = [Shows(c, refused, "requesting", 0)
                                                EXCEPT !.approver = 0]]
    BY <1>3, OwingPcs DEF Rejected
  <2> HIDE DEF refused
  <2>2. session'[c].view = IF session[c].closed THEN v ELSE refused
    BY <1>0, <2>1, ViewShown
  <2>3. AsksNext(l, refused, refused, store)
    BY <2>1, <2>2, AsksNextOf
  <2> QED
    BY <2>1, <2>3 DEF CourseOfTool, WithStatus, WithResult, refused
<1>4. CASE \E result \in {"ok", "failed"} : ToolReturns(l, result)
  <2>1. PICK result \in {"ok", "failed"} : ToolReturns(l, result)
    BY <1>4
  <2> DEFINE new == [call[l] EXCEPT !.pc = "saveResult", !.verdict = result]
  <2>2. /\ call[l].pc = "tool" /\ UNCHANGED <<session, store>>
        /\ call' = [call EXCEPT ![l] = new]
    BY <1>0, <2>1 DEF ToolReturns
  <2>3. new.pc = "saveResult" /\ new.reply = r /\ new.history = h
    BY <1>0 DEF Coroutines
  <2> HIDE DEF new
  <2>4. GoesThrough(l, {"saveResult"}, h, v, store)
    BY <1>0, <2>2, <2>3 DEF GoesThrough, Becomes
  <2> QED
    BY <2>2, <2>4 DEF CourseOfTool, WithStatus, WithResult
<1>5. CASE ResultSaved(l)
  <2> DEFINE round == call[l].round + (IF call[l].retry THEN 0 ELSE 1)
             history == With(h)
             view == With(v)
             stored == With(store)
  <2>1. /\ call[l].pc = "saveResult" /\ l \in Owing
        /\ NextRound(l, history, round, FALSE, stored, Tail(queue))
        /\ session' = [session EXCEPT ![c] =
             IF call[l].retry THEN Shows(c, view, "requesting", session[c].request)
             ELSE Shows(c, history, "requesting", 0)]
    BY <1>5, OwingPcs, Zenon DEF ResultSaved, Done
  <2> HIDE DEF round, history, view, stored
  <2>2. \E shown \in {history, view} :
          session'[c].view = IF session[c].closed THEN v ELSE shown
    <3>1. CASE session' = [session EXCEPT ![c] =
                             Shows(c, view, "requesting", session[c].request)]
      BY <1>0, <3>1, ViewShown
    <3>2. CASE session' = [session EXCEPT ![c] = Shows(c, history, "requesting", 0)]
      BY <1>0, <3>2, ViewShown
    <3> QED
      BY <2>1, <3>1, <3>2
  <2>3. \E shown \in {history, view} : AsksNext(l, history, shown, stored)
    BY <2>1, <2>2, AsksNextOf
  <2> QED
    BY <2>1, <2>3 DEF CourseOfTool, WithStatus, WithResult, history, view, stored
<1>6. CASE QuestionSaved(l)
  <2> DEFINE answer == Settle(v, r, "completed")
             stored == [store EXCEPT ![r].status = "completed"]
             new == [call[l] EXCEPT !.pc = "ask", !.history = answer, !.verdict = "none"]
  <2>1. /\ call[l].pc = "saveQuestion" /\ store' = stored
        /\ call' = [call EXCEPT ![l] = new]
        /\ session' = [session EXCEPT ![c] = [Shows(c, answer, "awaitingUserAnswer", 0)
                                                EXCEPT !.asker = l]]
    BY <1>0, <1>6 DEF QuestionSaved, Done
  <2> HIDE DEF answer, stored
  <2>2. new.pc = "ask" /\ new.reply = r /\ new.history = answer
    BY <1>0 DEF Coroutines
  <2> HIDE DEF new
  <2>3. call'[l] = new
    BY <1>0, <2>1
  <2>4. session'[c].view = IF session[c].closed THEN v ELSE answer
    BY <1>0, <2>1, ViewShown
  <2>5. GoesThrough(l, {"ask"}, answer, answer, stored)
    BY <2>1, <2>2, <2>3, <2>4 DEF GoesThrough, Becomes
  <2> QED
    BY <2>1, <2>5 DEF CourseOfTool, WithStatus, WithResult, answer, stored
<1>7. CASE Answered(l)
  <2>1. /\ call[l].pc = "ask" /\ UNCHANGED store
        /\ session' = [session EXCEPT ![c] = [session[c] EXCEPT !.asker = 0]]
        /\ Issues(l, "saveAnswer", queue) \/ Returns(l)
    BY <1>0, <1>7 DEF Answered
  <2>2. session'[c].view = v
    <3>1. [session[c] EXCEPT !.asker = 0].view = v
      BY <1>0 DEF Controllers
    <3> QED
      BY <1>0, <2>1, <3>1
  <2>3. /\ Issues(l, "saveAnswer", queue) => GoesThrough(l, {"saveAnswer"}, h, v, store)
        /\ Returns(l) => ComesTo(l, v, store)
    BY <2>1, <2>2, GoesThroughOf
  <2> QED
    BY <2>1, <2>3 DEF CourseOfTool, WithStatus, WithResult
<1>8. CASE AnswerSaved(l)
  <2>1. /\ call[l].pc = "saveAnswer" /\ l \in Owing
        /\ NextRound(l, h, call[l].round + 1, TRUE, store, Tail(queue))
        /\ session' = [session EXCEPT ![c] = Shows(c, h, "requesting", session[c].request)]
    BY <1>8, OwingPcs DEF AnswerSaved, Done
  <2>2. session'[c].view = IF session[c].closed THEN v ELSE h
    BY <1>0, <2>1, ViewShown
  <2>3. AsksNext(l, h, h, store)
    BY <2>1, <2>2, AsksNextOf
  <2> QED
    BY <2>1, <2>3 DEF CourseOfTool, WithStatus, WithResult
<1> QED
  BY <1>1, <1>2, <1>3, <1>4, <1>5, <1>6, <1>7, <1>8

LEMMA FailureCourse ==
  ASSUME IndInv, NEW l \in Calls,
         ThrowsToCaller(l) \/ LoopFails(l) \/ Recovers(l) \/ FailureSaved(l)
  PROVE  CourseOfFailure(l)
<1> DEFINE c == call[l].session
           r == call[l].reply
           h == call[l].history
           v == session[c].view
<1>0. /\ c \in Sessions /\ session[c] \in Controllers /\ session \in [Sessions -> Controllers]
      /\ call[l] \in Coroutines /\ call \in [Calls -> Coroutines] /\ failures \in Nat
  BY CallFields, Bounds DEF IndInv, Typed
<1>1. CASE ThrowsToCaller(l)
  <2>1. /\ call[l].pc \in {"saveUser", "discard", "saveAgain", "discardResult",
                           "deleteMessage", "saveResult"}
        /\ failures' = failures + 1 /\ UNCHANGED <<session, store>> /\ Returns(l)
    BY <1>1 DEF ThrowsToCaller, Throws
  <2>2. ComesTo(l, v, store)
    BY <2>1, GoesThroughOf
  <2> QED
    BY <1>0, <2>1, <2>2 DEF CourseOfFailure, WithStatus
<1>2. CASE LoopFails(l)
  <2> DEFINE shown == [Quiet(c) EXCEPT !.approver = 0, !.asker = 0]
             refused == Refused(Completers(c))
             new == [refused[l] EXCEPT !.pc = "tailFailed"]
  <2>1. /\ call[l].pc \in {"savePlaceholder", "saveCall", "saveQuestion", "saveAnswer",
                           "saveFinal", "saveConversation", "saveResult"}
        /\ failures' = failures + 1 /\ UNCHANGED store
        /\ session' = [session EXCEPT ![c] = shown]
        /\ call' = [refused EXCEPT ![l].pc = "tailFailed"]
    BY <1>2 DEF LoopFails, Throws
  <2>2. shown.view = v
    BY <1>0 DEF Quiet, Controllers
  <2>3. /\ refused \in [Calls -> Coroutines] /\ refused[l].reply = r /\ refused[l].history = h
    BY RefusedType DEF IndInv
  <2> HIDE DEF shown, refused
  <2>4. call' = [refused EXCEPT ![l] = new] /\ refused[l] \in Coroutines
    BY <2>1, <2>3
  <2>5. new.pc = "tailFailed" /\ new.reply = r /\ new.history = h
    BY <2>3, <2>4 DEF Coroutines
  <2> HIDE DEF new
  <2>6. call'[l] = new /\ session'[c].view = v
    BY <1>0, <2>1, <2>2, <2>3, <2>4
  <2>7. GoesThrough(l, {"tailFailed"}, h, v, store)
    BY <2>1, <2>5, <2>6 DEF GoesThrough, Becomes
  <2> QED
    BY <1>0, <2>1, <2>7 DEF CourseOfFailure, WithStatus
<1>3. CASE Recovers(l)
  <2>1. CASE Unsettled(v) = {}
    <3>1. /\ call[l].pc = "tailFailed" /\ UNCHANGED store /\ Returns(l)
          /\ session' = [session EXCEPT ![c] = Shows(c, v, "failed", 0)]
      BY <1>3, <2>1, Zenon DEF Recovers
    <3>2. session'[c].view = IF session[c].closed THEN v ELSE v
      BY <1>0, <3>1, ViewShown
    <3>3. ComesTo(l, v, store)
      BY <3>1, <3>2, GoesThroughOf
    <3> QED
      BY <2>1, <3>1, <3>3 DEF CourseOfFailure, WithStatus
  <2>2. CASE Unsettled(v) # {}
    <3> DEFINE last == Last(Unsettled(v))
               failed == [v EXCEPT ![last].status = "failed"]
               new == [call[l] EXCEPT !.pc = "saveFailed", !.reply = last, !.history = failed]
    <3>1. /\ call[l].pc = "tailFailed" /\ UNCHANGED <<session, store>>
          /\ call' = [call EXCEPT ![l].pc = "saveFailed", ![l].reply = last,
                                  ![l].history = failed]
      BY <1>3, <2>2, Zenon DEF Recovers
    <3> HIDE DEF last, failed
    <3>2. call' = [call EXCEPT ![l] = new]
      BY <1>0, <3>1
    <3>3. new.pc = "saveFailed" /\ new.reply = last /\ new.history = failed
      BY <1>0 DEF Coroutines
    <3> HIDE DEF new
    <3>4. Becomes(l, "saveFailed", last, failed, v, store)
      BY <1>0, <3>1, <3>2, <3>3 DEF Becomes
    <3> QED
      BY <2>2, <3>1, <3>4 DEF CourseOfFailure, WithStatus, last, failed
  <2> QED
    BY <2>1, <2>2
<1>4. CASE FailureSaved(l)
  <2>1. /\ call[l].pc = "saveFailed" /\ Returns(l)
        /\ store' \in {store, [store EXCEPT ![r].status = "failed"]}
        /\ session' = [session EXCEPT ![c] = Shows(c, h, "failed", 0)]
    BY <1>4 DEF FailureSaved, Done
  <2>2. session'[c].view = IF session[c].closed THEN v ELSE h
    BY <1>0, <2>1, ViewShown
  <2>3. ComesTo(l, h, store')
    BY <2>1, <2>2, GoesThroughOf
  <2> QED
    BY <2>1, <2>3 DEF CourseOfFailure, WithStatus
<1> QED
  BY <1>1, <1>2, <1>3, <1>4

LEMMA Courses ==
  ASSUME IndInv, NEW l \in Calls, HandleSnapshot(l) \/ Coroutine(l)
  PROVE  Course(l)
BY TurnCourse, RoundCourse, ToolCourse, FailureCourse DEF Coroutine, Course

-------------------------------------------------------------------------------
(* What a step does to messages. *)

(* The answers with a message, and those whose message looks as if it came in. *)
Present(m) == {r \in Replies : m[r].status # "none"}
Coming(m)  == {r \in Replies : m[r].status \in Open}

LEMMA FieldUpdates ==
  ASSUME NEW m \in Messages, NEW r \in Replies, NEW x \in Replies
  PROVE  /\ \A a : /\ WithUser(m, r, a)[x].user = IF x = r THEN a ELSE m[x].user
                   /\ WithUser(m, r, a)[x].status = m[x].status
                   /\ WithUser(m, r, a)[x].result = m[x].result
         /\ \A a : /\ WithStatus(m, r, a)[x].status = IF x = r THEN a ELSE m[x].status
                   /\ WithStatus(m, r, a)[x].user = m[x].user
                   /\ WithStatus(m, r, a)[x].result = m[x].result
         /\ \A a : /\ WithResult(m, r, a)[x].result = IF x = r THEN a ELSE m[x].result
                   /\ WithResult(m, r, a)[x].user = m[x].user
                   /\ WithResult(m, r, a)[x].status = m[x].status
         /\ \A S : Without(m, S)[x] = IF x \in S THEN Nothing ELSE m[x]
         /\ m[x].user \in BOOLEAN
BY DEF Messages, Without, WithUser, WithStatus, WithResult

LEMMA MessageUpdates ==
  ASSUME NEW m \in Messages, NEW r \in Replies
  PROVE  /\ \A a \in BOOLEAN : WithUser(m, r, a) \in Messages
         /\ \A a \in {"none", "interrupted"} \cup Open \cup Settled :
               WithStatus(m, r, a) \in Messages /\ Settle(m, r, a) \in Messages
         /\ \A a \in {"none", "ok", "failed", "rejected"} : WithResult(m, r, a) \in Messages
         /\ \A S : Without(m, S) \in Messages
         /\ \A n : Cut(m, n, r) \in Messages
         /\ \A part \in Parts : Gone(m, r, part) \in Messages
<1>1. \A n : WithResult(Without(m, From(n, r + 1)), r, "none") \in Messages
  BY WithoutType, MessageTypes DEF WithResult
<1> QED
  BY <1>1, WithoutType, MessageTypes DEF WithUser, WithStatus, WithResult, Cut, Gone

LEMMA GoneIs ==
  ASSUME NEW m, NEW r
  PROVE  /\ Gone(m, r, "status") = WithStatus(m, r, "none")
         /\ Gone(m, r, "user") = WithUser(m, r, FALSE)
         /\ Gone(m, r, "result") = WithResult(m, r, "none")
BY NothingMessage DEF Gone, WithStatus, WithUser, WithResult

LEMMA SettleIs ==
  ASSUME NEW m, NEW r, NEW a
  PROVE  Settle(m, r, a) = IF m[r].status = "none" THEN m ELSE WithStatus(m, r, a)
BY DEF Settle, WithStatus

(* No message is added but by a status, *)
LEMMA PresentUpdates ==
  ASSUME NEW m \in Messages, NEW r \in Replies
  PROVE  /\ \A a : /\ Present(WithUser(m, r, a)) = Present(m)
                   /\ Present(WithResult(m, r, a)) = Present(m)
                   /\ Present(WithStatus(m, r, a)) \subseteq Present(m) \cup {r}
                   /\ Present(Settle(m, r, a)) \subseteq Present(m)
         /\ \A S : /\ Present(Without(m, S)) \subseteq Present(m)
                   /\ Present(WithUser(Without(m, S), r, m[r].user))
                        \subseteq Present(m)
         /\ \A n : Present(Cut(m, n, r)) \subseteq Present(m)
         /\ \A part \in Parts : Present(Gone(m, r, part)) \subseteq Present(m)
<1>0. ASSUME NEW n \in Messages, NEW a
      PROVE  /\ Present(WithUser(n, r, a)) = Present(n)
             /\ Present(WithResult(n, r, a)) = Present(n)
  BY FieldUpdates DEF Present
<1>1. ASSUME NEW a
      PROVE  /\ Present(WithUser(m, r, a)) = Present(m)
             /\ Present(WithResult(m, r, a)) = Present(m)
             /\ Present(WithStatus(m, r, a)) \subseteq Present(m) \cup {r}
             /\ Present(Settle(m, r, a)) \subseteq Present(m)
  BY FieldUpdates, SettleIs DEF Present
<1>2. ASSUME NEW S PROVE Present(Without(m, S)) \subseteq Present(m)
  BY FieldUpdates, NothingMessage DEF Present
<1>3. ASSUME NEW S
      PROVE  /\ Present(WithUser(Without(m, S), r, m[r].user)) \subseteq Present(m)
             /\ Present(WithResult(Without(m, S), r, "none")) \subseteq Present(m)
  <2>1. Without(m, S) \in Messages
    BY WithoutType
  <2>2. /\ Present(WithUser(Without(m, S), r, m[r].user)) = Present(Without(m, S))
        /\ Present(WithResult(Without(m, S), r, "none")) = Present(Without(m, S))
    BY <2>1, <1>0
  <2> QED
    BY <1>2, <2>2
<1>4. ASSUME NEW part \in Parts PROVE Present(Gone(m, r, part)) \subseteq Present(m)
  <2>1. Present(WithStatus(m, r, "none")) \subseteq Present(m)
    BY FieldUpdates DEF Present
  <2> QED
    BY <1>1, <2>1, GoneIs DEF Parts
<1> QED
  BY <1>1, <1>2, <1>3, <1>4 DEF Cut

(* and none begins to come in but by a status that is open. *)
LEMMA ComingUpdates ==
  ASSUME NEW m \in Messages, NEW r \in Replies
  PROVE  /\ \A a : /\ Coming(WithUser(m, r, a)) = Coming(m)
                   /\ Coming(WithResult(m, r, a)) = Coming(m)
                   /\ Coming(WithStatus(m, r, a)) \subseteq Coming(m) \cup {r}
         /\ \A a \in Settled : /\ Coming(WithStatus(m, r, a)) = Coming(m) \ {r}
                               /\ Coming(Settle(m, r, a)) = Coming(m) \ {r}
         /\ \A S : Coming(Without(m, S)) \subseteq Coming(m)
         /\ \A n : Coming(Cut(m, n, r)) \subseteq Coming(m)
         /\ \A part \in Parts : Coming(Gone(m, r, part)) \subseteq Coming(m)
         /\ Coming(m) \subseteq Unsettled(m) /\ Unsettled(m) \subseteq Present(m)
<1>1. ASSUME NEW a
      PROVE  /\ Coming(WithUser(m, r, a)) = Coming(m)
             /\ Coming(WithResult(m, r, a)) = Coming(m)
             /\ Coming(WithStatus(m, r, a)) \subseteq Coming(m) \cup {r}
             /\ a \in Settled => Coming(WithStatus(m, r, a)) = Coming(m) \ {r}
  BY FieldUpdates DEF Coming, Open, Settled
<1>2. ASSUME NEW a \in Settled PROVE Coming(Settle(m, r, a)) = Coming(m) \ {r}
  <2>1. CASE m[r].status = "none"
    BY <2>1 DEF Settle, Coming, Open
  <2>2. CASE m[r].status # "none"
    BY <1>1, <2>2, SettleIs
  <2> QED
    BY <2>1, <2>2
<1>3. ASSUME NEW S PROVE Coming(Without(m, S)) \subseteq Coming(m)
  BY FieldUpdates, NothingMessage DEF Coming, Open
<1>4. ASSUME NEW n PROVE Coming(Cut(m, n, r)) \subseteq Coming(m)
  <2>1. Without(m, From(n, r + 1)) \in Messages
    BY WithoutType
  <2>2. Coming(Cut(m, n, r)) = Coming(Without(m, From(n, r + 1)))
    BY <2>1, FieldUpdates DEF Coming, Cut
  <2> QED
    BY <1>3, <2>2
<1>5. ASSUME NEW part \in Parts PROVE Coming(Gone(m, r, part)) \subseteq Coming(m)
  <2>1. Coming(WithStatus(m, r, "none")) \subseteq Coming(m)
    BY FieldUpdates DEF Coming, Open
  <2> QED
    BY <1>1, <2>1, GoneIs DEF Parts
<1>6. Coming(m) \subseteq Unsettled(m) /\ Unsettled(m) \subseteq Present(m)
  BY DEF Coming, Unsettled, Present, Open
<1> QED
  BY <1>1, <1>2, <1>3, <1>4, <1>5, <1>6

LEMMA BlankMessages == Blank \in Messages /\ Present(Blank) = {} /\ Coming(Blank) = {}
BY NothingMessage DEF Blank, Present, Coming, Open

(* What is shown is what is stored, but for refusals, and for the statuses of *)
(* some answers.                                                             *)
Same(shown, stored, but) ==
  \A x \in Replies : /\ shown[x].user = stored[x].user
                     /\ shown[x].result = stored[x].result \/ shown[x].result = "rejected"
                     /\ shown[x].status = stored[x].status \/ x \in but

LEMMA SameUpdates ==
  ASSUME NEW m \in Messages, NEW n \in Messages, NEW B, Same(m, n, B), NEW r \in Replies,
         NEW C, B \subseteq C
  PROVE  /\ Same(m, n, C)
         /\ \A a : /\ Same(WithUser(m, r, a), WithUser(n, r, a), C)
                   /\ Same(WithStatus(m, r, a), WithStatus(n, r, a), C)
                   /\ Same(WithResult(m, r, a), WithResult(n, r, a), C)
                   /\ Same(m, WithStatus(n, r, a), C \cup {r})
                   /\ r \in C => Same(m, WithStatus(n, r, a), C)
         /\ Same(WithResult(m, r, "rejected"), n, C)
<1>1. Same(m, n, C)
  BY DEF Same
<1>2. ASSUME NEW a
      PROVE  /\ Same(WithUser(m, r, a), WithUser(n, r, a), C)
             /\ Same(WithStatus(m, r, a), WithStatus(n, r, a), C)
             /\ Same(WithResult(m, r, a), WithResult(n, r, a), C)
             /\ Same(m, WithStatus(n, r, a), C \cup {r})
             /\ r \in C => Same(m, WithStatus(n, r, a), C)
  BY DEF Same, Messages, WithUser, WithStatus, WithResult
<1>3. Same(WithResult(m, r, "rejected"), n, C)
  BY DEF Same, Messages, WithResult
<1> QED
  BY <1>1, <1>2, <1>3

LEMMA SameTaken ==
  ASSUME NEW m \in Messages, NEW n \in Messages, NEW B, Same(m, n, B), NEW r \in Replies
  PROVE  /\ \A S : Same(Without(m, S), Without(n, S), B)
         /\ \A k : Same(Cut(m, k, r), Cut(n, k, r), B)
         /\ \A part \in Parts : Same(Gone(m, r, part), Gone(n, r, part), B)
         /\ Same(Without(m, From(m, r)),
                 WithUser(WithUser(Without(n, From(m, r)), r, n[r].user), r, FALSE),
                 B)
<1>1. ASSUME NEW S
      PROVE  /\ Same(Without(m, S), Without(n, S), B)
             /\ Without(m, S) \in Messages /\ Without(n, S) \in Messages
  <2>1. Without(m, S) \in Messages /\ Without(n, S) \in Messages
    BY WithoutType
  <2>2. \A x \in Replies : /\ Without(m, S)[x] = IF x \in S THEN Nothing ELSE m[x]
                           /\ Without(n, S)[x] = IF x \in S THEN Nothing ELSE n[x]
    BY DEF Without
  <2>3. Same(Without(m, S), Without(n, S), B)
    <3> SUFFICES ASSUME NEW x \in Replies
                 PROVE  /\ Without(m, S)[x].user = Without(n, S)[x].user
                        /\ \/ Without(m, S)[x].result = Without(n, S)[x].result
                           \/ Without(m, S)[x].result = "rejected"
                        /\ Without(m, S)[x].status = Without(n, S)[x].status \/ x \in B
      BY DEF Same
    <3> QED
      BY <2>2 DEF Same
  <2> QED
    BY <2>1, <2>3
<1>2. ASSUME NEW k PROVE Same(Cut(m, k, r), Cut(n, k, r), B)
  <2> DEFINE m1 == Without(m, From(k, r + 1))
             n1 == Without(n, From(k, r + 1))
  <2>1. Same(m1, n1, B) /\ m1 \in Messages /\ n1 \in Messages
    BY <1>1
  <2> HIDE DEF m1, n1
  <2>2. Same(WithResult(m1, r, "none"), WithResult(n1, r, "none"), B)
    BY <2>1, SameUpdates
  <2> QED
    BY <2>2 DEF Cut, m1, n1
<1>3. ASSUME NEW part \in Parts PROVE Same(Gone(m, r, part), Gone(n, r, part), B)
  <2>1. /\ Same(WithStatus(m, r, "none"), WithStatus(n, r, "none"), B)
        /\ Same(WithUser(m, r, FALSE), WithUser(n, r, FALSE), B)
        /\ Same(WithResult(m, r, "none"), WithResult(n, r, "none"), B)
    BY SameUpdates
  <2> QED
    BY <2>1, GoneIs DEF Parts
<1>4. Same(Without(m, From(m, r)),
           WithUser(WithUser(Without(n, From(m, r)), r, n[r].user), r, FALSE), B)
  <2> DEFINE left == Without(m, From(m, r))
             kept == Without(n, From(m, r))
             mid == WithUser(kept, r, n[r].user)
             stored == WithUser(mid, r, FALSE)
  <2>1. Same(left, kept, B) /\ left \in Messages /\ kept \in Messages
    BY <1>1
  <2>2. left[r].user = FALSE
    <3>1. CASE r \in From(m, r)
      BY <3>1, NothingMessage DEF Without
    <3>2. CASE ~(r \in From(m, r))
      <4>1. r >= r
        BY Bounds DEF Replies
      <4>2. m[r] = Nothing
        BY <3>2, <4>1 DEF From
      <4> QED
        BY <3>2, <4>2, NothingMessage DEF Without
    <3> QED
      BY <3>1, <3>2
  <2> HIDE DEF left, kept
  <2>3. /\ mid \in Messages
        /\ \A x \in Replies : /\ mid[x].status = kept[x].status
                              /\ mid[x].result = kept[x].result
                              /\ x # r => mid[x].user = kept[x].user
    <3>1. mid \in Messages
      BY <2>1, FieldUpdates, MessageUpdates
    <3> QED
      BY <2>1, <3>1, FieldUpdates
  <2> HIDE DEF mid
  <2>4. \A x \in Replies : /\ x = r => stored[x].user = FALSE
                           /\ x # r => stored[x].user = mid[x].user
                           /\ stored[x].status = mid[x].status
                           /\ stored[x].result = mid[x].result
    <3>1. mid \in Messages
      BY <2>3
    <3> QED
      BY <3>1 DEF Messages, WithUser
  <2> HIDE DEF stored
  <2>5. Same(left, stored, B)
    <3> SUFFICES ASSUME NEW x \in Replies
                 PROVE  /\ left[x].user = stored[x].user
                        /\ left[x].result = stored[x].result \/ left[x].result = "rejected"
                        /\ left[x].status = stored[x].status \/ x \in B
      BY DEF Same
    <3>1. stored[x].status = kept[x].status /\ stored[x].result = kept[x].result
      BY <2>3, <2>4
    <3>2. left[x].user = stored[x].user
      <4>1. CASE x = r
        BY <2>2, <2>4, <4>1
      <4>2. CASE x # r
        BY <2>1, <2>3, <2>4, <4>2 DEF Same
      <4> QED
        BY <4>1, <4>2
    <3> QED
      BY <2>1, <3>1, <3>2 DEF Same
  <2> QED
    BY <2>5 DEF left, kept, mid, stored
<1> QED
  BY <1>1, <1>2, <1>3, <1>4

-------------------------------------------------------------------------------
(* What is shown at rest is true. *)

(* The answers whose request has been sent, and those that are questions. *)
Begun     == {r \in Replies : run[r].state \in {"open", "ended"}}
Questions == {r \in Replies : run[r].outcome = "question"}

(* Where the answer of a call is shown as coming in. *)
Answering == {"running", "saveQuestion", "saveConversation"} \cup Stopping \cup Storing

(* No message is there before its request is sent. *)
Sent ==
  /\ Present(store) \subseteq Begun
  /\ \A c \in Sessions : Present(session[c].view) \subseteq Begun
  /\ \A l \in Calls : /\ Present(call[l].history) \subseteq Begun
                      /\ call[l].pc = "saveFailed" => call[l].reply \in Begun

(* What a call goes on with is settled, and it asks for an answer after those  *)
(* it goes on with.                                                          *)
Shown(l) ==
  LET c == call[l].session
      h == call[l].history
  IN  /\ ~session[c].closed =>
            /\ Coming(h) = {}
            /\ call[l].pc = "running" => session[c].request = call[l].reply
      /\ call[l].pc = "savePlaceholder" => \A r \in Present(h) : r < call[l].reply

(* A call at pc with answer r will settle answer x of those that are shown. *)
Closes(pc, r, x, shown) ==
  /\ x = r
  /\ \/ pc = "saveFailed"
     \/ pc \in Answering \cup {"tailFailed"} /\ \A y \in Unsettled(shown) : y <= r

(* A message that looks as if it came in is of a call that will settle it. *)
Closing(c) ==
  ~session[c].closed /\ session[c].phase # "loading" =>
     \A x \in Coming(session[c].view) : \E l \in Calls :
        call[l].session = c /\ Closes(call[l].pc, call[l].reply, x, session[c].view)

(* A call recovers only if the store has thrown. *)
Failing == \A l \in Calls : call[l].pc \in {"tailFailed", "saveFailed"} => failures > 0

(* The answer r of controller c is a question, or of a call at one of pcs. *)
Streams(c, r, pcs) ==
  \/ r \in Questions
  \/ \E l \in Calls : call[l].session = c /\ call[l].reply = r /\ call[l].pc \in pcs

(* The checkpoints are those of answers that come in. *)
Awaited(c) ==
  ~session[c].closed =>
     \A r \in Replies :
        /\ session[c].timer = r => Streams(c, r, {"running"})
        /\ In(queue, CheckpointOp(c, r)) => Streams(c, r, {"running"} \cup Stopping)

(* What is stored when a call is at pc, with answer r and history h, and v is  *)
(* shown: what is shown, or will be.                                         *)
Kept(pc, r, h, v, s, questions) ==
  /\ pc \in {"saveUser", "discard", "discardResult", "deleteMessage", "ask", "saveAnswer",
             "approve", "tool", "saveResult"}
       => h = v /\ Same(v, s, questions)
  /\ pc = "saveAgain" =>
       Same(Without(v, From(v, r)), WithUser(s, r, FALSE), questions)
  /\ pc = "savePlaceholder" => Same(h, s, questions)
  /\ pc \in Answering =>
       v = WithStatus(h, r, "queued") /\ Same(h, s, questions \cup {r})

(* The end of an answer is stored before the record of the conversation. *)
Recorded(l) ==
  call[l].pc = "saveConversation" =>
    \/ store[call[l].reply].status = Outcome(call[l].reply)
    \/ call[l].reply \in Questions

(* Between calls of the first controller, what is shown is what is stored. *)
Stored ==
  failures = 0 /\ ~session[1].closed =>
     /\ (\A l \in Calls : ~Active(l)) => Same(session[1].view, store, Questions)
     /\ \A l \in Calls :
           /\ Kept(call[l].pc, call[l].reply, call[l].history, session[1].view, store, Questions)
           /\ Recorded(l)

RestInv ==
  /\ ConsentInv /\ CheckpointInv
  /\ Sent /\ Failing /\ Stored
  /\ \A l \in Calls : Shown(l)
  /\ \A c \in Sessions : Closing(c) /\ Awaited(c)

(* The store does not forget that it has thrown. *)
LEMMA FailuresGrow == ASSUME Typed, [Next]_vars PROVE failures' \in Nat /\ failures' >= failures
<1>1. failures \in Nat
  BY Bounds DEF Typed
<1>2. failures' = failures \/ failures' = failures + 1
  <2>1. ASSUME NEW l \in Calls, HandleSnapshot(l) \/ Coroutine(l)
        PROVE  failures' = failures \/ failures' = failures + 1
    BY <2>1, Zenon DEF Coroutine, HandleSnapshot, UserSaved, Discarded, SavedAgain,
       ResultDiscarded, MessageDeleted, PlaceholderSaved, EndsInQuestion, EndsInCall, Finishes,
       TailAwaited, FinalSaved, ConversationSaved, CallSaved, Approved, Rejected, ToolReturns,
       ResultSaved, QuestionSaved, Answered, AnswerSaved, ThrowsToCaller, LoopFails, Recovers,
       FailureSaved, Throws
  <2>2. User => failures' = failures
    BY Zenon DEF User, SendText, Regenerate, RetryTool, DeleteMessage, Approve, Reject,
       SubmitAnswer, Cancel, Close, Restart
  <2>3. ASSUME NEW c \in Sessions, Checkpoint(c) \/ Attach(c) \/ Load(c) \/ Repair(c)
        PROVE  failures' = failures
    BY <2>3, Zenon DEF Checkpoint, Attach, Load, Repair
  <2>4. CheckpointSaved \/ RunEndsSomehow \/ UNCHANGED vars => failures' = failures
    BY Zenon DEF CheckpointSaved, RunEndsSomehow, RunEnds, vars
  <2> QED
    BY <2>1, <2>2, <2>3, <2>4, Zenon DEF Next
<1> QED
  BY <1>1, <1>2

(* A request that has been sent, or that is a question, remains so. *)
LEMMA RequestsKept ==
  ASSUME IndInv, NEW l \in Calls, HandleSnapshot(l) \/ Coroutine(l)
  PROVE  Begun \subseteq Begun' /\ Questions \subseteq Questions'
<1>1. Advances(l) /\ Requests
  BY AdvancesAlways DEF IndInv
<1> QED
  BY <1>1 DEF Advances, Begun, Questions, Requests

(* A step of a call, by what it comes to. *)
LEMMA SentBecomes ==
  ASSUME Sent, NEW l \in Calls, CallStep(l), Begun \subseteq Begun',
         NEW pc, NEW r, NEW h, NEW v, NEW s, Becomes(l, pc, r, h, v, s),
         Present(h) \subseteq Begun', Present(v) \subseteq Begun', Present(s) \subseteq Begun',
         pc = "saveFailed" => r \in Begun'
  PROVE  Sent'
<1>1. Present(store') \subseteq Begun'
  BY DEF Becomes
<1>2. ASSUME NEW d \in Sessions PROVE Present(session'[d].view) \subseteq Begun'
  <2>1. CASE d # call[l].session
    BY <2>1 DEF CallStep, LeavesSessions, Sent
  <2>2. CASE d = call[l].session
    <3>1. session'[d].view = session[d].view \/ session'[d].view = v
      BY <2>2 DEF Becomes
    <3> QED
      BY <3>1 DEF Sent
  <2> QED
    BY <2>1, <2>2
<1>3. ASSUME NEW k \in Calls
      PROVE  /\ Present(call'[k].history) \subseteq Begun'
             /\ call'[k].pc = "saveFailed" => call'[k].reply \in Begun'
  <2>1. CASE k = l
    BY <2>1 DEF Becomes
  <2>2. CASE k # l
    <3>1. /\ call'[k].history = call[k].history /\ call'[k].pc = call[k].pc
          /\ call'[k].reply = call[k].reply
      BY <2>2 DEF CallStep, LeavesCalls
    <3> QED
      BY <3>1 DEF Sent
  <2> QED
    BY <2>1, <2>2
<1> QED
  BY <1>1, <1>2, <1>3 DEF Sent, Present

(* What a call has to do with. *)
LEMMA OwnMessages ==
  ASSUME IndInv, NEW l \in Calls, Active(l)
  PROVE  /\ call[l].session \in Sessions /\ call[l].history \in Messages
         /\ session[call[l].session].view \in Messages /\ store \in Messages
         /\ call[l].pc \in Numbered =>
              call[l].reply \in Replies /\ Outcome(call[l].reply) \in Settled
         /\ call[l].pc = "deleteMessage" => call[l].part \in Parts
         /\ call[l].pc \in After => call[l].reply \in Begun
<1>1. /\ call[l].session \in Sessions /\ call[l].history \in Messages
      /\ session[call[l].session].view \in Messages /\ store \in Messages
  <2>1. Typed
    BY DEF IndInv
  <2>2. call[l].session \in Sessions /\ call[l].history \in Messages
    BY <2>1, CallFields
  <2> QED
    BY <2>1, <2>2, SessionFields DEF Typed
<1>2. /\ call[l].pc \in Numbered => call[l].reply \in Replies
      /\ call[l].pc = "deleteMessage" => call[l].part \in Parts
  BY DEF IndInv, Requests
<1>3. call[l].pc \in After => call[l].reply \in Begun
  BY EndedUsed DEF Begun
<1>4. call[l].pc \in Numbered => Outcome(call[l].reply) \in Settled
  BY <1>2, OutcomeType DEF IndInv
<1> QED
  BY <1>1, <1>2, <1>3, <1>4

LEMMA SentCallStep ==
  ASSUME RestInv, NEW l \in Calls, HandleSnapshot(l) \/ Coroutine(l)
  PROVE  Sent'
<1> DEFINE c == call[l].session
           r == call[l].reply
           h == call[l].history
           v == session[c].view
<1>0. /\ IndInv /\ CallStep(l) /\ Sent /\ Course(l)
      /\ Begun \subseteq Begun'
      /\ c \in Sessions /\ h \in Messages /\ v \in Messages /\ store \in Messages
      /\ call[l].pc \in Numbered => r \in Replies
      /\ call[l].pc = "deleteMessage" => call[l].part \in Parts
      /\ call[l].pc \in After => r \in Begun
      /\ Present(h) \subseteq Begun /\ Present(v) \subseteq Begun /\ Present(store) \subseteq Begun
  BY CallSteps, Courses, RequestsKept, OwnMessages DEF RestInv, ConsentInv, CallStep, Sent
<1>1. ASSUME NEW h1 \in Messages, NEW v1, NEW s1 \in Messages, AsksNext(l, h1, v1, s1),
             Present(h1) \subseteq Begun, Present(v1) \subseteq Begun, Present(s1) \subseteq Begun
      PROVE  Sent'
  <2>1. PICK x \in Replies, asked \in BOOLEAN :
          Becomes(l, "savePlaceholder", x, WithUser(h1, x, asked), v1,
                  WithUser(s1, x, asked))
    BY <1>1 DEF AsksNext
  <2>2. /\ Present(WithUser(h1, x, asked)) = Present(h1)
        /\ Present(WithUser(s1, x, asked)) = Present(s1)
    BY PresentUpdates
  <2> QED
    BY <1>0, <1>1, <2>1, <2>2, SentBecomes
<1>2. ASSUME NEW pcs, "saveFailed" \notin pcs, NEW h1, NEW v1, NEW s1,
             GoesThrough(l, pcs, h1, v1, s1), Present(h1) \subseteq Begun',
             Present(v1) \subseteq Begun', Present(s1) \subseteq Begun'
      PROVE  Sent'
  BY <1>0, <1>2, SentBecomes DEF GoesThrough
<1>3. ASSUME NEW v1, NEW s1, ComesTo(l, v1, s1), Present(v1) \subseteq Begun',
             Present(s1) \subseteq Begun'
      PROVE  Sent'
  <2>1. Present(Blank) \subseteq Begun'
    BY BlankMessages
  <2> QED
    BY <1>0, <1>3, <2>1, SentBecomes DEF ComesTo
<1>4. CASE CourseOfTurn(l)
  <2> DEFINE left == Without(v, From(v, r))
  <2>1. CASE call[l].pc = "saveUser" /\ AsksNext(l, h, v, store)
    BY <1>0, <1>1, <2>1
  <2>2. ASSUME call[l].pc \in {"discard", "saveAgain", "discardResult", "deleteMessage"}
        PROVE  /\ r \in Replies
               /\ Present(WithUser(Without(store, From(h, r)), r, store[r].user))
                    \subseteq Begun
               /\ left \in Messages /\ Present(left) \subseteq Begun
               /\ WithUser(store, r, FALSE) \in Messages
               /\ Present(WithUser(store, r, FALSE)) \subseteq Begun
               /\ Present(Cut(v, v, r)) \subseteq Begun /\ Present(Cut(store, h, r)) \subseteq Begun
               /\ call[l].pc = "deleteMessage" =>
                    /\ Present(Gone(v, r, call[l].part)) \subseteq Begun
                    /\ Present(Gone(store, r, call[l].part)) \subseteq Begun
    <3>1. r \in Replies /\ store[r].user \in BOOLEAN
      BY <1>0, <2>2, FieldUpdates DEF Numbered
    <3>2. /\ left \in Messages /\ WithUser(store, r, FALSE) \in Messages
      BY <1>0, <3>1, MessageUpdates
    <3>a. \A S : Present(WithUser(Without(store, S), r, store[r].user)) \subseteq Present(store)
      BY <1>0, <3>1, PresentUpdates
    <3>b. Present(WithUser(Without(store, From(h, r)), r, store[r].user)) \subseteq Begun
      BY <1>0, <3>a
    <3>c. Present(WithUser(store, r, FALSE)) = Present(store)
      BY <1>0, <3>1, PresentUpdates
    <3>d. \A n : Present(Cut(store, n, r)) \subseteq Present(store)
      BY <1>0, <3>1, PresentUpdates
    <3>e. \A part \in Parts : Present(Gone(store, r, part)) \subseteq Present(store)
      BY <1>0, <3>1, PresentUpdates
    <3>3. /\ Present(WithUser(store, r, FALSE)) \subseteq Begun
          /\ Present(Cut(store, h, r)) \subseteq Begun
          /\ call[l].pc = "deleteMessage" =>
               Present(Gone(store, r, call[l].part)) \subseteq Begun
      BY <1>0, <3>c, <3>d, <3>e
    <3>4. /\ Present(left) \subseteq Begun /\ Present(Cut(v, v, r)) \subseteq Begun
          /\ call[l].pc = "deleteMessage" =>
               Present(Gone(v, r, call[l].part)) \subseteq Begun
      BY <1>0, <3>1, PresentUpdates
    <3> QED
      BY <3>1, <3>2, <3>b, <3>3, <3>4
  <2>3. CASE /\ call[l].pc = "discard"
             /\ GoesThrough(l, {"saveAgain"}, h, v,
                    WithUser(Without(store, From(h, r)), r, store[r].user))
    <3>1. "saveFailed" \notin {"saveAgain"}
      OBVIOUS
    <3>2. Present(WithUser(Without(store, From(h, r)), r, store[r].user)) \subseteq Begun'
      BY <1>0, <2>2, <2>3
    <3> QED
      BY <1>0, <1>2, <2>3, <3>1, <3>2
  <2>4. CASE call[l].pc = "saveAgain" /\ AsksNext(l, left, left, WithUser(store, r, FALSE))
    BY <1>1, <2>2, <2>4
  <2>5. CASE /\ call[l].pc = "discardResult"
             /\ GoesThrough(l, {"tool"}, Cut(v, v, r), Cut(v, v, r), Cut(store, h, r))
    BY <1>0, <1>2, <2>2, <2>5
  <2>6. CASE /\ call[l].pc = "deleteMessage"
             /\ ComesTo(l, Gone(v, r, call[l].part), Gone(store, r, call[l].part))
    BY <1>0, <1>3, <2>2, <2>6
  <2> QED
    BY <1>4, <2>1, <2>3, <2>4, <2>5, <2>6 DEF CourseOfTurn
<1>5. CASE CourseOfRound(l)
  <2>1. call[l].pc \in {"savePlaceholder", "running", "saveFinal", "saveConversation"} =>
          r \in Replies
    BY <1>0 DEF Numbered, Loop
  <2>2. CASE /\ call[l].pc = "savePlaceholder"
             /\ GoesThrough(l, {"running"}, h, WithStatus(h, r, "queued"),
                            WithStatus(store, r, "queued"))
             /\ run'[r].state = "open"
    <3>1. r \in Begun'
      BY <2>1, <2>2 DEF Begun
    <3>2. /\ Present(WithStatus(h, r, "queued")) \subseteq Present(h) \cup {r}
          /\ Present(WithStatus(store, r, "queued")) \subseteq Present(store) \cup {r}
      BY <1>0, <2>1, <2>2, PresentUpdates
    <3> QED
      BY <1>0, <1>2, <2>2, <3>1, <3>2
  <2>3. CASE \/ GoesThrough(l, {"running", "saveQuestion"} \cup Stopping, h, v, store)
             \/ GoesThrough(l, Storing, h, v, store)
    BY <1>0, <1>2, <2>3 DEF Stopping, Storing
  <2>4. CASE ComesTo(l, v, store)
    BY <1>0, <1>3, <2>4
  <2>5. CASE /\ call[l].pc = "saveFinal"
             /\ GoesThrough(l, {"saveConversation"}, h, v, WithStatus(store, r, Outcome(r)))
    <3>1. r \in Begun
      BY <1>0, <2>5 DEF After, Loop
    <3>2. Present(WithStatus(store, r, Outcome(r))) \subseteq Present(store) \cup {r}
      BY <1>0, <2>1, <2>5, PresentUpdates
    <3> QED
      BY <1>0, <1>2, <2>5, <3>1, <3>2
  <2>6. CASE /\ call[l].pc = "saveConversation"
             /\ ComesTo(l, Settle(v, r, Outcome(r)), store)
    <3>1. Present(Settle(v, r, Outcome(r))) \subseteq Present(v)
      BY <1>0, <2>1, <2>6, PresentUpdates
    <3> QED
      BY <1>0, <1>3, <2>6, <3>1
  <2> QED
    BY <1>5, <2>2, <2>3, <2>4, <2>5, <2>6 DEF CourseOfRound
<1>6. CASE CourseOfTool(l)
  <2> DEFINE done == WithStatus(h, r, "completed")
             refused == WithResult(h, r, "rejected")
             answer == Settle(v, r, "completed")
             With(messages) == WithResult(messages, r, call[l].verdict)
             stored == WithStatus(store, r, "completed")
  <2>1. ASSUME call[l].pc \in {"saveCall", "approve", "saveResult", "saveQuestion"}
        PROVE  /\ Present(done) \subseteq Begun /\ Present(refused) \subseteq Begun
               /\ Present(answer) \subseteq Begun /\ Present(stored) \subseteq Begun
               /\ Present(With(h)) \subseteq Begun /\ Present(With(v)) \subseteq Begun
               /\ Present(With(store)) \subseteq Begun
               /\ refused \in Messages
               /\ call[l].pc = "saveResult" => With(h) \in Messages /\ With(store) \in Messages
    <3>1. r \in Replies /\ r \in Begun
      BY <1>0, <2>1 DEF Numbered, After, Loop
    <3>2. call[l].pc = "saveResult" => call[l].verdict \in {"none", "ok", "failed", "rejected"}
      BY <1>0 DEF IndInv, Requests
    <3>3. \A m \in {h, v, store} :
             /\ Present(WithStatus(m, r, "completed")) \subseteq Begun
             /\ Present(WithResult(m, r, "rejected")) \subseteq Begun
             /\ Present(WithResult(m, r, call[l].verdict)) \subseteq Begun
             /\ Present(Settle(m, r, "completed")) \subseteq Begun
      BY <1>0, <3>1, PresentUpdates
    <3>4. /\ refused \in Messages
          /\ call[l].pc = "saveResult" => With(h) \in Messages /\ With(store) \in Messages
      BY <1>0, <3>1, <3>2, MessageUpdates
    <3> QED
      BY <3>3, <3>4
  <2> HIDE DEF done, refused, answer, With, stored
  <2>2. CASE \/ /\ call[l].pc = "saveCall"
                /\ GoesThrough(l, {"approve", "tool"}, done, done, stored)
             \/ call[l].pc = "saveQuestion" /\ GoesThrough(l, {"ask"}, answer, answer, stored)
    BY <1>0, <1>2, <2>1, <2>2
  <2>3. CASE \/ GoesThrough(l, {"tool"}, h, h, store)
             \/ GoesThrough(l, {"saveResult"}, h, v, store)
             \/ GoesThrough(l, {"saveAnswer"}, h, v, store)
    BY <1>0, <1>2, <2>3
  <2>4. CASE call[l].pc = "approve" /\ AsksNext(l, refused, refused, store)
    BY <1>0, <1>1, <2>1, <2>4
  <2>5. CASE /\ call[l].pc = "saveResult"
             /\ \E shown \in {With(h), With(v)} : AsksNext(l, With(h), shown, With(store))
    BY <1>0, <1>1, <2>1, <2>5
  <2>6. CASE ComesTo(l, v, store) \/ AsksNext(l, h, h, store)
    BY <1>0, <1>1, <1>3, <2>6
  <2> QED
    BY <1>6, <2>2, <2>3, <2>4, <2>5, <2>6
       DEF CourseOfTool, done, refused, answer, With, stored
<1>7. CASE CourseOfFailure(l)
  <2> DEFINE last == Last(Unsettled(v))
             failed == WithStatus(v, last, "failed")
  <2>1. CASE ComesTo(l, v, store) \/ GoesThrough(l, {"tailFailed"}, h, v, store)
    BY <1>0, <1>2, <1>3, <2>1
  <2>2. CASE Unsettled(v) # {} /\ Becomes(l, "saveFailed", last, failed, v, store)
    <3>1. last \in Unsettled(v) /\ last \in Replies
      BY <2>2, LastOf DEF Unsettled
    <3>2. last \in Begun
      BY <1>0, <3>1, ComingUpdates
    <3>3. Present(failed) \subseteq Begun
      BY <1>0, <3>1, <3>2, PresentUpdates
    <3> QED
      BY <1>0, <2>2, <3>2, <3>3, SentBecomes
  <2>3. CASE /\ call[l].pc = "saveFailed"
             /\ \E s \in {store, WithStatus(store, r, "failed")} : ComesTo(l, h, s)
    <3>1. r \in Begun /\ r \in Replies
      BY <1>0, <2>3 DEF Sent, Begun
    <3>2. Present(WithStatus(store, r, "failed")) \subseteq Begun
      BY <1>0, <3>1, PresentUpdates
    <3> QED
      BY <1>0, <1>3, <2>3, <3>2
  <2> QED
    BY <1>7, <2>1, <2>2, <2>3 DEF CourseOfFailure
<1> QED
  BY <1>0, <1>4, <1>5, <1>6, <1>7 DEF Course

-------------------------------------------------------------------------------
(* What a step of a call shows. *)

(* A call that comes to pc, with answer r and history h, shows v. *)
Settling(l, pc, r, h, v) ==
  LET c == call[l].session IN
  /\ ~session[c].closed \/ pc = "returned" => Coming(h) = {}
  /\ ~session[c].closed =>
       /\ pc = "running" => session'[c].request = r
       /\ \A x \in Coming(v) : Closes(pc, r, x, v)
  /\ pc = "savePlaceholder" => \A x \in Present(h) : x < r

LEMMA ClosesActive ==
  ASSUME NEW pc, NEW r, NEW x, NEW m, Closes(pc, r, x, m)
  PROVE  /\ pc \in Answering \cup {"tailFailed", "saveFailed"}
         /\ pc \notin {"idle", "returned"}
BY DEF Closes, Answering, Stopping, Storing

LEMMA ShownBecomes ==
  ASSUME RestInv, NEW l \in Calls, CallStep(l), NEW pc, NEW r, NEW h, NEW v, NEW s,
         Becomes(l, pc, r, h, v, s), Settling(l, pc, r, h, v)
  PROVE  /\ \A k \in Calls : Shown(k)'
         /\ \A d \in Sessions : Closing(d)'
<1> DEFINE c == call[l].session
<1>0. /\ Active(l) /\ LeavesCalls(l) /\ LeavesSessions(l) /\ c \in Sessions
      /\ session'[c].closed = session[c].closed
      /\ call'[l].pc = pc /\ call'[l].reply = r /\ call'[l].history = h
      /\ ~session[c].closed => session'[c].view = v
      /\ pc # "returned" => call'[l].session = c
      /\ \A k \in Calls : Shown(k)
  BY OwnPhase DEF CallStep, LeavesSessions, Becomes, RestInv, ConsentInv
<1>1. \A k \in Calls : Active(k) /\ call[k].session = c => k = l
  BY <1>0 DEF RestInv, ConsentInv, Alone
<1>2. ASSUME NEW k \in Calls PROVE Shown(k)'
  <2>1. CASE k = l
    <3>1. CASE pc = "returned"
      BY <1>0, <2>1, <3>1 DEF Settling, Shown, Coming
    <3>2. CASE pc # "returned"
      BY <1>0, <2>1, <3>2 DEF Settling, Shown, Coming, Present
    <3> QED
      BY <3>1, <3>2
  <2>2. CASE k # l
    <3>1. /\ call'[k].pc = call[k].pc /\ call'[k].session = call[k].session
          /\ call'[k].reply = call[k].reply /\ call'[k].history = call[k].history
          /\ call[k].session \in Sessions
      BY <1>0, <2>2, CallFields DEF LeavesCalls, RestInv, ConsentInv, IndInv
    <3>2. session'[call[k].session].closed = session[call[k].session].closed
      BY <1>0, <3>1 DEF LeavesSessions
    <3>3. call[k].pc = "running" =>
            session'[call[k].session].request = session[call[k].session].request
      BY <1>0, <1>1, <2>2, <3>1 DEF LeavesSessions, Active
    <3> QED
      BY <1>0, <3>1, <3>2, <3>3 DEF Shown, Coming, Present
  <2> QED
    BY <2>1, <2>2
<1>3. ASSUME NEW d \in Sessions PROVE Closing(d)'
  <2>1. CASE d # c
    <3>1. session'[d] = session[d] /\ Closing(d)
      BY <1>0, <2>1 DEF LeavesSessions, RestInv
    <3>2. \A k \in Calls : call[k].session = d =>
             /\ call'[k].pc = call[k].pc /\ call'[k].session = d
             /\ call'[k].reply = call[k].reply
      BY <1>0, <2>1 DEF LeavesCalls
    <3> QED
      BY <3>1, <3>2 DEF Closing, Coming
  <2>2. CASE d = c
    <3> SUFFICES ASSUME ~session'[c].closed, NEW x \in Coming(session'[c].view)
                 PROVE  /\ call'[l].session = c
                        /\ Closes(call'[l].pc, call'[l].reply, x, session'[c].view)
      BY <2>2 DEF Closing, Closes, Coming, Unsettled
    <3>1. Closes(pc, r, x, v)
      BY <1>0 DEF Settling
    <3> QED
      BY <1>0, <3>1, ClosesActive
  <2> QED
    BY <2>1, <2>2
<1> QED
  BY <1>2, <1>3

(* What the controller of a call shows as coming in, the call will settle. *)
LEMMA OwnComing ==
  ASSUME RestInv, NEW l \in Calls, Active(l), ~session[call[l].session].closed,
         NEW x \in Coming(session[call[l].session].view)
  PROVE  Closes(call[l].pc, call[l].reply, x, session[call[l].session].view)
<1> DEFINE c == call[l].session
<1>1. c \in Sessions /\ session[c].phase # "loading"
  BY OwnPhase DEF RestInv, ConsentInv
<1>2. PICK k \in Calls : /\ call[k].session = c
                         /\ Closes(call[k].pc, call[k].reply, x, session[c].view)
  BY <1>1 DEF RestInv, Closing
<1>3. k = l
  BY <1>2, ClosesActive DEF RestInv, ConsentInv, Alone, Active
<1> QED
  BY <1>2, <1>3

LEMMA ShownCallStep ==
  ASSUME RestInv, NEW l \in Calls, HandleSnapshot(l) \/ Coroutine(l)
  PROVE  /\ \A k \in Calls : Shown(k)'
         /\ \A d \in Sessions : Closing(d)'
<1> DEFINE c == call[l].session
           r == call[l].reply
           h == call[l].history
           v == session[c].view
           Holds == /\ \A k \in Calls : Shown(k)'
                    /\ \A d \in Sessions : Closing(d)'
<1> SUFFICES Holds
  OBVIOUS
<1>0. /\ IndInv /\ CallStep(l) /\ Course(l) /\ Active(l)
      /\ c \in Sessions /\ h \in Messages /\ v \in Messages /\ store \in Messages
      /\ call[l].pc \in Numbered => r \in Replies /\ Outcome(r) \in Settled
      /\ call[l].pc = "deleteMessage" => call[l].part \in Parts
      /\ Present(h) \subseteq Used /\ Present(v) \subseteq Used
  BY CallSteps, Courses, OwnMessages DEF RestInv, ConsentInv, CallStep, Sent, Begun, Used
<1>a. ~session[c].closed =>
        /\ Coming(h) = {}
        /\ call[l].pc = "running" => session[c].request = r
        /\ \A x \in Coming(v) : Closes(call[l].pc, r, x, v)
        /\ call[l].pc \notin Answering \cup {"tailFailed", "saveFailed"} => Coming(v) = {}
  BY <1>0, OwnComing, ClosesActive DEF RestInv, Shown
<1>b. call[l].pc = "savePlaceholder" => \A x \in Present(h) : x < r
  BY DEF RestInv, Shown
<1>c. ASSUME NEW pc, NEW x, NEW h1, NEW v1, NEW s1, Becomes(l, pc, x, h1, v1, s1),
             Settling(l, pc, x, h1, v1)
      PROVE  Holds
  BY <1>0, <1>c, ShownBecomes
<1> HIDE DEF Holds
<1>1. ASSUME NEW h1 \in Messages, NEW v1, NEW s1, AsksNext(l, h1, v1, s1),
             ~session[c].closed => Coming(h1) = {} /\ Coming(v1) = {},
             Present(h1) \subseteq Used
      PROVE  Holds
  <2>1. PICK x \in Replies, asked \in BOOLEAN :
          /\ Used = 1 .. x - 1
          /\ Becomes(l, "savePlaceholder", x, WithUser(h1, x, asked), v1,
                     WithUser(s1, x, asked))
    BY <1>1 DEF AsksNext
  <2>2. /\ Present(WithUser(h1, x, asked)) = Present(h1)
        /\ Coming(WithUser(h1, x, asked)) = Coming(h1)
    BY PresentUpdates, ComingUpdates
  <2>3. \A y \in Used : y < x
    BY <2>1, Bounds DEF Replies
  <2>4. Settling(l, "savePlaceholder", x, WithUser(h1, x, asked), v1)
    BY <1>1, <2>2, <2>3 DEF Settling
  <2> QED
    BY <1>c, <2>1, <2>4
<1>2. ASSUME NEW pcs, NEW h1, NEW v1, NEW s1, GoesThrough(l, pcs, h1, v1, s1),
             "returned" \notin pcs, "savePlaceholder" \notin pcs,
             ~session[c].closed =>
               /\ Coming(h1) = {}
               /\ "running" \in pcs => session'[c].request = r
               /\ \A pc \in pcs, x \in Coming(v1) : Closes(pc, r, x, v1)
      PROVE  Holds
  <2>1. PICK pc \in pcs : Becomes(l, pc, r, h1, v1, s1)
    BY <1>2 DEF GoesThrough
  <2>2. Settling(l, pc, r, h1, v1)
    BY <1>2, <2>1 DEF Settling
  <2> QED
    BY <1>c, <2>1, <2>2
<1>3. ASSUME NEW v1, NEW s1, ComesTo(l, v1, s1), ~session[c].closed => Coming(v1) = {}
      PROVE  Holds
  <2>1. Settling(l, "returned", 0, Blank, v1)
    BY <1>3, BlankMessages DEF Settling
  <2> QED
    BY <1>3, <1>c, <2>1 DEF ComesTo
<1>4. CASE CourseOfTurn(l)
  <2> DEFINE left == Without(v, From(v, r))
  <2>0. call[l].pc \in {"saveUser", "discard", "saveAgain", "discardResult", "deleteMessage"}
    BY <1>4 DEF CourseOfTurn
  <2>a. ~session[c].closed => Coming(v) = {}
    BY <1>a, <2>0 DEF Answering, Stopping, Storing
  <2>1. CASE call[l].pc = "saveUser" /\ AsksNext(l, h, v, store)
    BY <1>0, <1>1, <1>a, <2>a, <2>1
  <2>2. CASE /\ call[l].pc = "discard"
             /\ GoesThrough(l, {"saveAgain"}, h, v,
                    WithUser(Without(store, From(h, r)), r, store[r].user))
    <3> HIDE DEF c, r, h, v
    <3> QED
      BY <1>2, <1>a, <2>a, <2>2
  <2>3. CASE call[l].pc = "saveAgain" /\ AsksNext(l, left, left, WithUser(store, r, FALSE))
    <3>0. r \in Replies
      BY <1>0, <2>3 DEF Numbered
    <3>a. left \in Messages
      BY <1>0, <3>0, MessageUpdates
    <3>b. \A S : Coming(Without(v, S)) \subseteq Coming(v)
      BY <1>0, <3>0, ComingUpdates
    <3>c. \A S : Present(Without(v, S)) \subseteq Present(v)
      BY <1>0, <3>0, PresentUpdates
    <3>1. /\ left \in Messages /\ Coming(left) \subseteq Coming(v)
          /\ Present(left) \subseteq Used
      BY <1>0, <3>a, <3>b, <3>c
    <3>2. ~session[c].closed => Coming(left) = {}
      BY <2>a, <3>1
    <3> HIDE DEF left, c
    <3> QED
      BY <1>1, <2>3, <3>1, <3>2
  <2>4. CASE /\ call[l].pc = "discardResult"
             /\ GoesThrough(l, {"tool"}, Cut(v, v, r), Cut(v, v, r), Cut(store, h, r))
    <3>0. r \in Replies
      BY <1>0, <2>4 DEF Numbered
    <3>1. Coming(Cut(v, v, r)) \subseteq Coming(v)
      BY <1>0, <3>0, ComingUpdates
    <3> HIDE DEF c, r, h, v
    <3> QED
      BY <1>2, <2>a, <2>4, <3>1
  <2>5. CASE /\ call[l].pc = "deleteMessage"
             /\ ComesTo(l, Gone(v, r, call[l].part), Gone(store, r, call[l].part))
    <3>0. r \in Replies
      BY <1>0, <2>5 DEF Numbered
    <3>1. Coming(Gone(v, r, call[l].part)) \subseteq Coming(v)
      BY <1>0, <2>5, <3>0, ComingUpdates
    <3> QED
      BY <1>3, <2>a, <2>5, <3>1
  <2> QED
    BY <1>4, <2>1, <2>2, <2>3, <2>4, <2>5 DEF CourseOfTurn
<1>5. CASE CourseOfRound(l)
  <2>0. call[l].pc \in {"savePlaceholder", "running", "saveFinal", "saveConversation"} =>
          r \in Replies /\ Outcome(r) \in Settled
    BY <1>0 DEF Numbered, Loop
  <2>1. CASE /\ call[l].pc = "savePlaceholder"
             /\ GoesThrough(l, {"running"}, h, WithStatus(h, r, "queued"),
                            WithStatus(store, r, "queued"))
             /\ ~session[c].closed => session'[c].request = r
    <3> DEFINE shown == WithStatus(h, r, "queued")
    <3>1. /\ shown \in Messages
          /\ Coming(shown) \subseteq Coming(h) \cup {r}
          /\ Present(shown) \subseteq Present(h) \cup {r}
      BY <1>0, <2>0, <2>1, MessageUpdates, ComingUpdates, PresentUpdates DEF Open
    <3>2. Unsettled(shown) \subseteq Present(shown)
      BY <2>0, <2>1, <3>1, ComingUpdates
    <3>3. r <= r /\ \A y \in Present(h) : y <= r
      BY <1>b, <2>0, <2>1, Bounds DEF Replies, Present
    <3>4. \A y \in Unsettled(shown) : y <= r
      BY <3>1, <3>2, <3>3
    <3>5. ~session[c].closed => \A x \in Coming(shown) : Closes("running", r, x, shown)
      BY <1>a, <3>1, <3>4 DEF Closes, Answering
    <3> HIDE DEF shown
    <3>6. GoesThrough(l, {"running"}, h, shown, WithStatus(store, r, "queued"))
      BY <2>1 DEF shown
    <3> HIDE DEF c, r, h
    <3> QED
      BY <1>2, <1>a, <2>1, <3>5, <3>6
  <2>2. ASSUME NEW pcs \in {{"running", "saveQuestion"} \cup Stopping, Storing,
                            {"saveConversation"}},
               call[l].pc \in {"running", "saveFinal"} \cup Stopping
        PROVE  /\ "returned" \notin pcs /\ "savePlaceholder" \notin pcs
               /\ ~session[c].closed =>
                    \A pc \in pcs, x \in Coming(v) : Closes(pc, r, x, v)
    <3>1. pcs \subseteq Answering /\ "returned" \notin pcs /\ "savePlaceholder" \notin pcs
      BY <2>2 DEF Answering, Stopping, Storing
    <3>2. call[l].pc \in Answering
      BY <2>2 DEF Answering, Storing
    <3>3. ASSUME ~session[c].closed, NEW pc \in pcs, NEW x \in Coming(v)
          PROVE  Closes(pc, r, x, v)
      <4>1. Closes(call[l].pc, r, x, v) /\ call[l].pc # "saveFailed"
        BY <1>a, <2>2, <3>3 DEF Stopping
      <4> QED
        BY <3>1, <3>3, <4>1 DEF Closes
    <3> QED
      BY <3>1, <3>3
  <2>3. CASE /\ call[l].pc = "running"
             /\ GoesThrough(l, {"running", "saveQuestion"} \cup Stopping, h, v, store)
             /\ session'[c].request = session[c].request
    <3> DEFINE pcs == {"running", "saveQuestion"} \cup Stopping
    <3>1. /\ "returned" \notin pcs /\ "savePlaceholder" \notin pcs
          /\ ~session[c].closed => \A pc \in pcs, x \in Coming(v) : Closes(pc, r, x, v)
      BY <2>2, <2>3
    <3>2. ~session[c].closed => session'[c].request = r
      BY <1>a, <2>3
    <3>3. GoesThrough(l, pcs, h, v, store)
      BY <2>3
    <3> HIDE DEF pcs, c, r, h, v
    <3> QED
      BY <1>2, <1>a, <3>1, <3>2, <3>3
  <2>4. CASE call[l].pc = "running" /\ session[c].request # r /\ ComesTo(l, v, store)
    BY <1>3, <1>a, <2>4
  <2>5. CASE call[l].pc \in Stopping /\ GoesThrough(l, Storing, h, v, store)
    <3>1. /\ "returned" \notin Storing /\ "savePlaceholder" \notin Storing
          /\ ~session[c].closed => \A pc \in Storing, x \in Coming(v) : Closes(pc, r, x, v)
          /\ "running" \notin Storing
      BY <2>2, <2>5 DEF Storing
    <3> HIDE DEF c, r, h, v
    <3> QED
      BY <1>2, <1>a, <2>5, <3>1
  <2>6. CASE /\ call[l].pc = "saveFinal"
             /\ GoesThrough(l, {"saveConversation"}, h, v, WithStatus(store, r, Outcome(r)))
    <3>1. ~session[c].closed =>
            \A pc \in {"saveConversation"}, x \in Coming(v) : Closes(pc, r, x, v)
      BY <2>2, <2>6
    <3> HIDE DEF c, r, h, v
    <3> QED
      BY <1>2, <1>a, <2>6, <3>1
  <2>7. CASE /\ call[l].pc = "saveConversation"
             /\ ComesTo(l, Settle(v, r, Outcome(r)), store)
    <3>1. Coming(Settle(v, r, Outcome(r))) = Coming(v) \ {r}
      BY <1>0, <2>0, <2>7, ComingUpdates
    <3>2. ~session[c].closed => Coming(v) \subseteq {r}
      BY <1>a DEF Closes
    <3> QED
      BY <1>3, <2>7, <3>1, <3>2
  <2> QED
    BY <1>5, <2>1, <2>3, <2>4, <2>5, <2>6, <2>7 DEF CourseOfRound
<1>6. CASE CourseOfTool(l)
  <2> DEFINE done == WithStatus(h, r, "completed")
             refused == WithResult(h, r, "rejected")
             answer == Settle(v, r, "completed")
             With(messages) == WithResult(messages, r, call[l].verdict)
  <2>0. /\ call[l].pc \in {"saveCall", "approve", "tool", "saveResult", "saveQuestion", "ask",
                           "saveAnswer"}
        /\ r \in Replies
    <3>1. call[l].pc \in {"saveCall", "approve", "tool", "saveResult", "saveQuestion", "ask",
                          "saveAnswer"}
      BY <1>6 DEF CourseOfTool
    <3> QED
      BY <1>0, <3>1 DEF Numbered, Loop
  <2>a. /\ ~session[c].closed =>
             /\ Coming(v) \subseteq {r}
             /\ call[l].pc \notin {"saveCall", "saveQuestion"} => Coming(v) = {}
    BY <1>a, <2>0 DEF Closes, Answering, Stopping, Storing
  <2>b. /\ Coming(done) = Coming(h) \ {r} /\ Coming(answer) = Coming(v) \ {r}
    BY <1>0, <2>0, ComingUpdates DEF Settled
  <2>c. /\ Coming(refused) = Coming(h) /\ Present(refused) = Present(h)
        /\ Coming(With(h)) = Coming(h) /\ Present(With(h)) = Present(h)
        /\ Coming(With(v)) = Coming(v)
    BY <1>0, <2>0, ComingUpdates, PresentUpdates
  <2>d. /\ refused \in Messages
        /\ call[l].pc = "saveResult" => With(h) \in Messages
    <3>1. call[l].pc = "saveResult" => call[l].verdict \in {"none", "ok", "failed", "rejected"}
      BY <1>0 DEF IndInv, Requests
    <3> QED
      BY <1>0, <2>0, <3>1, MessageUpdates
  <2> HIDE DEF done, refused, answer, With, c, r, h, v
  <2>1. CASE /\ call[l].pc = "saveCall"
             /\ GoesThrough(l, {"approve", "tool"}, done, done, WithStatus(store, r, "completed"))
    <3>1. ~session[c].closed => Coming(done) = {}
      BY <1>a, <2>b
    <3> QED
      BY <1>2, <2>1, <3>1
  <2>2. CASE call[l].pc = "approve" /\ GoesThrough(l, {"tool"}, h, h, store)
    BY <1>2, <1>a, <2>2
  <2>3. CASE call[l].pc = "approve" /\ AsksNext(l, refused, refused, store)
    <3>1. ~session[c].closed => Coming(refused) = {}
      BY <1>a, <2>c
    <3> QED
      BY <1>0, <1>1, <2>3, <2>c, <2>d, <3>1
  <2>4. CASE \/ call[l].pc = "tool" /\ GoesThrough(l, {"saveResult"}, h, v, store)
             \/ call[l].pc = "ask" /\ GoesThrough(l, {"saveAnswer"}, h, v, store)
    BY <1>2, <1>a, <2>a, <2>4
  <2>5. CASE /\ call[l].pc = "saveResult"
             /\ \E shown \in {With(h), With(v)} : AsksNext(l, With(h), shown, With(store))
    <3>1. PICK shown \in {With(h), With(v)} : AsksNext(l, With(h), shown, With(store))
      BY <2>5
    <3>2. ~session[c].closed => Coming(With(h)) = {} /\ Coming(shown) = {}
      BY <1>a, <2>a, <2>c, <2>5
    <3> QED
      BY <1>0, <1>1, <2>5, <2>c, <2>d, <3>1, <3>2
  <2>6. CASE /\ call[l].pc = "saveQuestion"
             /\ GoesThrough(l, {"ask"}, answer, answer, WithStatus(store, r, "completed"))
    <3>1. ~session[c].closed => Coming(answer) = {}
      BY <2>a, <2>b
    <3> QED
      BY <1>2, <2>6, <3>1
  <2>7. CASE call[l].pc = "ask" /\ ComesTo(l, v, store)
    BY <1>3, <2>a, <2>7
  <2>8. CASE call[l].pc = "saveAnswer" /\ AsksNext(l, h, h, store)
    BY <1>0, <1>1, <1>a, <2>8
  <2> QED
    BY <1>6, <2>1, <2>2, <2>3, <2>4, <2>5, <2>6, <2>7, <2>8
       DEF CourseOfTool, done, refused, answer, With, c, r, h, v
<1>7. CASE CourseOfFailure(l)
  <2> DEFINE last == Last(Unsettled(v))
             failed == WithStatus(v, last, "failed")
  <2>1. CASE /\ call[l].pc \in {"saveUser", "discard", "saveAgain", "discardResult",
                            "deleteMessage", "saveResult"}
             /\ ComesTo(l, v, store)
    BY <1>3, <1>a, <2>1 DEF Answering, Stopping, Storing
  <2>2. CASE /\ call[l].pc \in {"savePlaceholder", "saveCall", "saveQuestion", "saveAnswer",
                            "saveFinal", "saveConversation", "saveResult"}
             /\ GoesThrough(l, {"tailFailed"}, h, v, store)
    <3>1. ~session[c].closed =>
            \A pc \in {"tailFailed"}, x \in Coming(v) : Closes(pc, r, x, v)
      BY <1>a, <2>2 DEF Closes
    <3> HIDE DEF c, r, h, v
    <3> QED
      BY <1>2, <1>a, <2>2, <3>1
  <2>3. CASE call[l].pc = "tailFailed" /\ Unsettled(v) = {} /\ ComesTo(l, v, store)
    <3>1. Coming(v) = {}
      BY <2>3 DEF Coming, Unsettled
    <3> QED
      BY <1>3, <2>3, <3>1
  <2>4. CASE /\ call[l].pc = "tailFailed" /\ Unsettled(v) # {}
             /\ Becomes(l, "saveFailed", last, failed, v, store)
    <3>1. last \in Unsettled(v) /\ last \in Replies /\ \A x \in Unsettled(v) : x <= last
      BY <2>4, LastOf DEF Unsettled
    <3>2. Coming(failed) = Coming(v) \ {last} /\ Coming(v) \subseteq Unsettled(v)
      BY <1>0, <3>1, ComingUpdates DEF Settled
    <3>3. ~session[c].closed => \A x \in Coming(v) : x = last
      <4> SUFFICES ASSUME ~session[c].closed, NEW x \in Coming(v) PROVE x = last
        OBVIOUS
      <4>1. \A y \in Unsettled(v) : y <= x
        BY <1>a, <2>4 DEF Closes
      <4>2. x \in Replies /\ x <= last /\ last <= x
        BY <3>1, <3>2, <4>1 DEF Coming
      <4> QED
        BY <3>1, <4>2, Bounds DEF Replies
    <3> HIDE DEF last, failed
    <3>4. Settling(l, "saveFailed", last, failed, v)
      BY <3>2, <3>3 DEF Settling, Closes
    <3> QED
      BY <1>c, <2>4, <3>4
  <2>5. CASE /\ call[l].pc = "saveFailed"
             /\ \E s \in {store, WithStatus(store, r, "failed")} : ComesTo(l, h, s)
    BY <1>3, <1>a, <2>5
  <2> QED
    BY <1>7, <2>1, <2>2, <2>3, <2>4, <2>5 DEF CourseOfFailure
<1> QED
  BY <1>0, <1>4, <1>5, <1>6, <1>7 DEF Course

-------------------------------------------------------------------------------
(* Failures, and checkpoints. *)

(* Where the steps of a call lead. *)
LEMMA CoursePcs ==
  ASSUME NEW l \in Calls
  PROVE  /\ \A h, v, s : AsksNext(l, h, v, s) => call'[l].pc = "savePlaceholder"
         /\ \A pcs, h, v, s : GoesThrough(l, pcs, h, v, s) =>
               call'[l].pc \in pcs /\ call'[l].reply = call[l].reply
         /\ \A v, s : ComesTo(l, v, s) => call'[l].pc = "returned"
BY DEF AsksNext, GoesThrough, ComesTo, Becomes

LEMMA CourseLeads ==
  ASSUME NEW l \in Calls
  PROVE  /\ CourseOfTurn(l) => call'[l].pc \in {"savePlaceholder", "saveAgain", "tool", "returned"}
         /\ CourseOfRound(l) =>
              call'[l].pc \in {"running", "saveQuestion", "saveConversation", "returned"}
                                \cup Stopping \cup Storing
         /\ CourseOfTool(l) =>
              call'[l].pc \in {"savePlaceholder", "approve", "tool", "saveResult", "ask",
                               "saveAnswer", "returned"}
         /\ CourseOfFailure(l) =>
              call'[l].pc = "returned" \/ failures' > 0 \/ call[l].pc = "tailFailed"
<1>1. CourseOfTurn(l) => call'[l].pc \in {"savePlaceholder", "saveAgain", "tool", "returned"}
  BY CoursePcs DEF CourseOfTurn
<1>2. CourseOfRound(l) =>
        call'[l].pc \in {"running", "saveQuestion", "saveConversation", "returned"}
                          \cup Stopping \cup Storing
  BY CoursePcs DEF CourseOfRound
<1>3. CourseOfTool(l) =>
        call'[l].pc \in {"savePlaceholder", "approve", "tool", "saveResult", "ask",
                         "saveAnswer", "returned"}
  BY CoursePcs DEF CourseOfTool
<1>4. CourseOfFailure(l) =>
        call'[l].pc = "returned" \/ failures' > 0 \/ call[l].pc = "tailFailed"
  BY CoursePcs DEF CourseOfFailure
<1> QED
  BY <1>1, <1>2, <1>3, <1>4

LEMMA FailingCallStep ==
  ASSUME RestInv, NEW l \in Calls, HandleSnapshot(l) \/ Coroutine(l)
  PROVE  Failing'
<1>0. /\ IndInv /\ CallStep(l) /\ Course(l) /\ Failing
      /\ failures \in Nat /\ failures' \in Nat /\ failures' >= failures
  <2>1. IndInv /\ [Next]_vars
    BY DEF RestInv, ConsentInv, Next
  <2> QED
    BY <2>1, CallSteps, Courses, FailuresGrow, Bounds DEF RestInv, IndInv, Typed
<1>1. call'[l].pc \in {"tailFailed", "saveFailed"} => failures' > 0
  <2>1. call[l].pc = "tailFailed" => failures' > 0
    BY <1>0 DEF Failing
  <2> QED
    BY <1>0, <2>1, CourseLeads DEF Course, Stopping, Storing
<1>2. ASSUME NEW k \in Calls, k # l, call'[k].pc \in {"tailFailed", "saveFailed"}
      PROVE  failures' > 0
  <2>1. call[k].pc \in {"tailFailed", "saveFailed"}
    BY <1>0, <1>2 DEF CallStep, LeavesCalls
  <2> QED
    BY <1>0, <2>1 DEF Failing
<1> QED
  BY <1>1, <1>2 DEF Failing

(* A checkpoint is of an answer that comes in, or is a question. *)
LEMMA AwaitedCallStep ==
  ASSUME RestInv, NEW l \in Calls, HandleSnapshot(l) \/ Coroutine(l), NEW d \in Sessions
  PROVE  Awaited(d)'
<1> DEFINE c == call[l].session
<1>0. /\ IndInv /\ CallStep(l) /\ Course(l) /\ Active(l) /\ c \in Sessions
      /\ LeavesCalls(l) /\ LeavesSessions(l) /\ Timed(l) /\ Advances(l)
      /\ Questions \subseteq Questions' /\ Awaited(d) /\ Shown(l)
      /\ session'[d].closed = session[d].closed
  BY CallSteps, Courses, OwnPhase, TimedAlways, AdvancesAlways, RequestsKept
     DEF RestInv, ConsentInv, CallStep, LeavesSessions
<1>1. \A r \in Replies : In(queue', CheckpointOp(d, r)) => In(queue, CheckpointOp(d, r))
  BY <1>0, CallStepQueue, OpsTyped, OpsDiffer
<1>2. ASSUME NEW r \in Replies, NEW pcs, Streams(d, r, pcs),
             d = c /\ call[l].reply = r /\ call[l].pc \in pcs =>
               \/ r \in Questions'
               \/ call'[l].session = c /\ call'[l].reply = r /\ call'[l].pc \in pcs
      PROVE  Streams(d, r, pcs)'
  <2>1. CASE r \in Questions
    BY <1>0, <2>1 DEF Streams
  <2>2. ASSUME NEW k \in Calls, call[k].session = d, call[k].reply = r, call[k].pc \in pcs
        PROVE  Streams(d, r, pcs)'
    <3>1. CASE k = l
      BY <1>2, <2>2, <3>1 DEF Streams
    <3>2. CASE k # l
      BY <1>0, <2>2, <3>2 DEF LeavesCalls, Streams
    <3> QED
      BY <3>1, <3>2
  <2> QED
    BY <1>2, <2>1, <2>2 DEF Streams
<1>a. ASSUME ~session[d].closed, d = c, call[l].pc = "running"
      PROVE  /\ call'[l].pc \in {"running", "saveQuestion"} \cup Stopping
             /\ call'[l].session = c /\ call'[l].reply = call[l].reply
             /\ call'[l].pc = "saveQuestion" => call[l].reply \in Questions'
  <2>1. CourseOfRound(l)
    BY <1>0, <1>a DEF Course, CourseOfTurn, CourseOfTool, CourseOfFailure
  <2>2. GoesThrough(l, {"running", "saveQuestion"} \cup Stopping, call[l].history,
                    session[c].view, store)
    BY <1>0, <1>a, <2>1 DEF CourseOfRound, Shown, Stopping
  <2>3. /\ call'[l].pc \in {"running", "saveQuestion"} \cup Stopping
        /\ call'[l].reply = call[l].reply
    BY <2>2, CoursePcs
  <2>4. call[l].reply \in Replies
    BY <1>0, <1>a DEF IndInv, Requests, Numbered, Loop
  <2>5. call'[l].pc = "saveQuestion" => call[l].reply \in Questions'
    BY <1>0, <2>4 DEF Advances, Questions
  <2> QED
    BY <1>0, <2>3, <2>5 DEF CallStep, Stopping
<1>3. ASSUME ~session[d].closed, NEW r \in Replies, session'[d].timer = r
      PROVE  Streams(d, r, {"running"})'
  <2>0. r # 0
    BY Bounds DEF Replies
  <2>1. CASE session[d].timer = r
    <3>1. Streams(d, r, {"running"})
      BY <1>0, <1>3, <2>1 DEF Awaited
    <3>2. d = c /\ call[l].pc = "running" => call'[l].pc \notin Stopping
      BY <1>0, <1>3, <2>0 DEF Timed
    <3> QED
      BY <1>2, <1>3, <1>a, <3>1, <3>2
  <2>2. CASE session[d].timer # r
    <3>1. d = c
      BY <1>0, <1>3, <2>2 DEF LeavesSessions
    <3>2. /\ call[l].pc = "running" /\ call[l].reply = r /\ UNCHANGED call
      BY <1>0, <1>3, <2>0, <2>2, <3>1 DEF Timed
    <3> QED
      BY <3>1, <3>2 DEF Streams
  <2> QED
    BY <2>1, <2>2
<1>4. ASSUME ~session[d].closed, NEW r \in Replies, In(queue', CheckpointOp(d, r))
      PROVE  Streams(d, r, {"running"} \cup Stopping)'
  <2>1. In(queue, CheckpointOp(d, r))
    BY <1>1, <1>4
  <2>2. Streams(d, r, {"running"} \cup Stopping)
    BY <1>0, <1>4, <2>1 DEF Awaited
  <2>3. d = c => call[l].pc \notin Stopping
    <3> SUFFICES ASSUME d = c, call[l].pc \in Stopping PROVE FALSE
      OBVIOUS
    <3>1. CourseOfRound(l) \/ CourseOfFailure(l)
      BY <1>0 DEF Course, CourseOfTurn, CourseOfTool, Stopping
    <3>2. GoesThrough(l, Storing, call[l].history, session[c].view, store)
      BY <3>1 DEF CourseOfRound, CourseOfFailure, Stopping
    <3>3. NoCheckpoint(c)
      BY <1>0, <3>2, CoursePcs DEF Timed
    <3>4. ~In(queue, CheckpointOp(c, r))
      BY <1>0, <3>3, OpsDiffer DEF NoCheckpoint, In
    <3> QED
      BY <2>1, <3>4
  <2> QED
    BY <1>2, <1>4, <1>a, <2>2, <2>3
<1> QED
  BY <1>0, <1>3, <1>4 DEF Awaited

-------------------------------------------------------------------------------
(* What is stored, and what is shown. *)

(* The status of the answer is replaced in both. *)
LEMMA SameSettled ==
  ASSUME NEW m \in Messages, NEW n \in Messages, NEW r \in Replies, NEW B,
         Same(m, n, B \cup {r})
  PROVE  /\ \A a : Same(WithStatus(m, r, a), WithStatus(n, r, a), B)
         /\ \A a : n[r].status = a \/ r \in B =>
               Same(Settle(WithStatus(m, r, "queued"), r, a), n, B)
<1>2. ASSUME NEW a PROVE Same(WithStatus(m, r, a), WithStatus(n, r, a), B)
  <2> DEFINE m1 == WithStatus(m, r, a)
             n1 == WithStatus(n, r, a)
  <2>1. \A x \in Replies :
          /\ m1[x].user = m[x].user /\ n1[x].user = n[x].user
          /\ m1[x].result = m[x].result /\ n1[x].result = n[x].result
          /\ x = r => m1[x].status = a /\ n1[x].status = a
          /\ x # r => m1[x].status = m[x].status /\ n1[x].status = n[x].status
    BY FieldUpdates
  <2> HIDE DEF m1, n1
  <2>2. Same(m1, n1, B)
    BY <2>1 DEF Same
  <2> QED
    BY <2>2 DEF m1, n1
<1>3. ASSUME NEW a, n[r].status = a \/ r \in B
      PROVE  Same(Settle(WithStatus(m, r, "queued"), r, a), n, B)
  <2> DEFINE m1 == WithStatus(m, r, "queued")
             m2 == WithStatus(m1, r, a)
  <2>a. m1 \in Messages
    BY MessageUpdates DEF Open
  <2>b. m1[r].status = "queued"
    BY FieldUpdates
  <2>1. m1 \in Messages /\ m1[r].status = "queued"
    BY <2>a, <2>b
  <2>2. Settle(m1, r, a) = m2
    BY <2>1, SettleIs
  <2>3. \A x \in Replies :
          /\ m1[x].user = m[x].user /\ m1[x].result = m[x].result
          /\ x # r => m1[x].status = m[x].status
    BY FieldUpdates
  <2> HIDE DEF m1
  <2>4. \A x \in Replies :
          /\ m2[x].user = m1[x].user /\ m2[x].result = m1[x].result
          /\ x = r => m2[x].status = a
          /\ x # r => m2[x].status = m1[x].status
    BY <2>1, FieldUpdates
  <2> HIDE DEF m2
  <2>5. Same(m2, n, B)
    BY <1>3, <2>3, <2>4 DEF Same
  <2> QED
    BY <2>2, <2>5 DEF m1
<1> QED
  BY <1>2, <1>3

(* A step of the only call that is under way. *)
LEMMA StoredBecomes ==
  ASSUME NEW l \in Calls, CallStep(l), call[l].session = 1, ~session[1].closed,
         \A k \in Calls : k # l => ~Active(k),
         NEW pc, NEW r, NEW h, NEW v, NEW s, Becomes(l, pc, r, h, v, s),
         pc = "returned" => Same(v, s, Questions'), Kept(pc, r, h, v, s, Questions'),
         Recorded(l)'
  PROVE  Stored'
<1>1. /\ call'[l].pc = pc /\ call'[l].reply = r /\ call'[l].history = h
      /\ session'[1].view = v /\ store' = s /\ pc # "idle"
  BY DEF Becomes, CallStep
<1>2. \A k \in Calls : k # l => call'[k].pc \in {"idle", "returned"}
  BY DEF CallStep, LeavesCalls, Active
<1>3. ASSUME NEW k \in Calls
      PROVE  /\ Kept(call'[k].pc, call'[k].reply, call'[k].history, session'[1].view, store',
                     Questions')
             /\ Recorded(k)'
  <2>1. CASE k = l
    BY <1>1, <2>1
  <2>2. CASE k # l
    BY <1>2, <2>2 DEF Kept, Recorded, Answering, Stopping, Storing
  <2> QED
    BY <2>1, <2>2
<1>4. (\A k \in Calls : ~Active(k)') => Same(session'[1].view, store', Questions')
  BY <1>1 DEF Active
<1> QED
  BY <1>3, <1>4 DEF Stored, Questions, Active

LEMMA StoredCallStep ==
  ASSUME RestInv, NEW l \in Calls, HandleSnapshot(l) \/ Coroutine(l)
  PROVE  Stored'
<1> SUFFICES ASSUME failures' = 0, ~session'[1].closed PROVE Stored'
  BY DEF Stored
<1> DEFINE r == call[l].reply
           h == call[l].history
           v == session[1].view
           B == Questions'
<1>0. /\ IndInv /\ CallStep(l) /\ Course(l) /\ Active(l)
      /\ h \in Messages /\ store \in Messages
      /\ call[l].pc \in Numbered => r \in Replies /\ Outcome(r) \in Settled
      /\ call[l].pc = "deleteMessage" => call[l].part \in Parts
      /\ Questions \subseteq B /\ Advances(l)
  BY CallSteps, Courses, OwnMessages, RequestsKept, AdvancesAlways
     DEF RestInv, ConsentInv, CallStep
<1>a. failures = 0 /\ ~session[1].closed
  <2>1. [Next]_vars /\ Typed /\ failures \in Nat
    BY <1>0, Bounds DEF Next, IndInv, Typed
  <2>2. failures = 0
    BY <2>1, FailuresGrow
  <2>3. 1 \in Sessions
    BY Bounds
  <2>4. session'[1].closed = session[1].closed
    BY <1>0, <2>3 DEF CallStep, LeavesSessions
  <2> QED
    BY <2>2, <2>4
<1>b. current = 1 /\ \A k \in Calls : Active(k) => call[k].session = 1
  <2>1. current \in Nat /\ current >= 1 /\ 1 \in Sessions /\ ~(1 < current)
    BY <1>0, <1>a, Bounds DEF IndInv, Typed, Sessions, Attached
  <2>2. \A k \in Calls : call[k].session \in Nat /\ call[k].session >= 1
    BY <1>0, CallFields, Bounds DEF IndInv, Sessions
  <2> QED
    BY <1>0, <2>1, <2>2 DEF IndInv, Attached
<1>c. /\ call[l].session = 1 /\ v \in Messages
      /\ \A k \in Calls : k # l => ~Active(k)
      /\ Kept(call[l].pc, r, h, v, store, Questions) /\ Recorded(l)
      /\ call[l].pc \notin {"tailFailed", "saveFailed"}
      /\ call[l].pc = "running" => session[1].request = r
  <2>1. call[l].session = 1 /\ \A k \in Calls : k # l => ~Active(k)
    BY <1>0, <1>b DEF RestInv, ConsentInv, Alone
  <2>2. v \in Messages
    BY <1>0, <2>1, OwnMessages
  <2>3. Kept(call[l].pc, r, h, v, store, Questions) /\ Recorded(l)
    BY <1>a DEF RestInv, Stored
  <2>4. call[l].pc \notin {"tailFailed", "saveFailed"}
    BY <1>a DEF RestInv, Failing
  <2>5. call[l].pc = "running" => session[1].request = r
    BY <1>a, <2>1 DEF RestInv, Shown
  <2> QED
    BY <2>1, <2>2, <2>3, <2>4, <2>5
<1>d. Recorded(l)'
  <2> SUFFICES ASSUME call'[l].pc = "saveConversation" PROVE Recorded(l)'
    BY DEF Recorded
  <2>1. CourseOfRound(l)
    BY <1>0, <1>c, CourseLeads DEF Course
  <2>2. /\ call[l].pc = "saveFinal"
        /\ GoesThrough(l, {"saveConversation"}, h, v, WithStatus(store, r, Outcome(r)))
    BY <1>c, <2>1, CoursePcs DEF CourseOfRound, Stopping, Storing
  <2>3. call'[l].reply = r /\ store' = WithStatus(store, r, Outcome(r))
    BY <2>2 DEF GoesThrough, Becomes
  <2>4. r \in Replies /\ run[r].state = "ended"
    BY <1>0, <2>2, EndedUsed DEF After, Loop
  <2>5. store'[r].status = Outcome(r)
    BY <1>0, <2>3, <2>4, FieldUpdates
  <2>6. run'[r] = run[r]
    BY <1>0, <2>4 DEF Advances
  <2> QED
    BY <2>3, <2>5, <2>6 DEF Recorded, Outcome
<1>e. ASSUME NEW pc, NEW x, NEW h1, NEW v1, NEW s1, Becomes(l, pc, x, h1, v1, s1),
             pc = "returned" => Same(v1, s1, B), Kept(pc, x, h1, v1, s1, B)
      PROVE  Stored'
  BY <1>0, <1>a, <1>c, <1>d, <1>e, StoredBecomes
<1>1. ASSUME NEW h1 \in Messages, NEW v1, NEW s1 \in Messages, AsksNext(l, h1, v1, s1),
             Same(h1, s1, B)
      PROVE  Stored'
  <2>1. PICK x \in Replies, asked \in BOOLEAN :
          Becomes(l, "savePlaceholder", x, WithUser(h1, x, asked), v1, WithUser(s1, x, asked))
    BY <1>1 DEF AsksNext
  <2>2. Same(WithUser(h1, x, asked), WithUser(s1, x, asked), B)
    BY <1>1, SameUpdates
  <2>3. Kept("savePlaceholder", x, WithUser(h1, x, asked), v1, WithUser(s1, x, asked), B)
    BY <2>2 DEF Kept, Answering, Stopping, Storing
  <2> QED
    BY <1>e, <2>1, <2>3
<1>2. ASSUME NEW pcs, NEW h1, NEW v1, NEW s1, GoesThrough(l, pcs, h1, v1, s1),
             "returned" \notin pcs, \A pc \in pcs : Kept(pc, r, h1, v1, s1, B)
      PROVE  Stored'
  <2>1. PICK pc \in pcs : Becomes(l, pc, r, h1, v1, s1)
    BY <1>2 DEF GoesThrough
  <2> QED
    BY <1>2, <1>e, <2>1
<1>3. ASSUME NEW v1, NEW s1, ComesTo(l, v1, s1), Same(v1, s1, B) PROVE Stored'
  <2>1. Kept("returned", 0, Blank, v1, s1, B)
    BY DEF Kept, Answering, Stopping, Storing
  <2> QED
    BY <1>3, <1>e, <2>1 DEF ComesTo
<1>f. call[l].pc \in {"saveUser", "discard", "discardResult", "deleteMessage", "ask",
                      "saveAnswer", "approve", "tool", "saveResult"} =>
        h = v /\ Same(v, store, B)
  BY <1>c, <1>0 DEF Kept, Same
<1>4. CASE CourseOfTurn(l)
  <2> DEFINE left == Without(v, From(v, r))
  <2>1. call[l].pc \in {"discard", "saveAgain", "discardResult", "deleteMessage"} => r \in Replies
    BY <1>0 DEF Numbered
  <2>2. CASE call[l].pc = "saveUser" /\ AsksNext(l, h, v, store)
    BY <1>0, <1>1, <1>f, <2>2
  <2>3. CASE /\ call[l].pc = "discard"
             /\ GoesThrough(l, {"saveAgain"}, h, v,
                    WithUser(Without(store, From(h, r)), r, store[r].user))
    <3> DEFINE stored == WithUser(Without(store, From(h, r)), r, store[r].user)
    <3>1. Same(left, WithUser(stored, r, FALSE), B)
      BY <1>0, <1>c, <1>f, <2>1, <2>3, SameTaken
    <3>2. Kept("saveAgain", r, h, v, stored, B)
      BY <3>1 DEF Kept, Answering, Stopping, Storing
    <3> QED
      BY <1>2, <2>3, <3>2
  <2>4. CASE call[l].pc = "saveAgain" /\ AsksNext(l, left, left, WithUser(store, r, FALSE))
    <3>1. Same(left, WithUser(store, r, FALSE), Questions)
      BY <1>c, <2>4 DEF Kept
    <3>2. Same(left, WithUser(store, r, FALSE), B)
      BY <1>0, <3>1 DEF Same
    <3>3. left \in Messages /\ WithUser(store, r, FALSE) \in Messages
      BY <1>0, <1>c, <2>1, <2>4, MessageUpdates
    <3> HIDE DEF left
    <3> QED
      BY <1>1, <2>4, <3>2, <3>3
  <2>5. CASE /\ call[l].pc = "discardResult"
             /\ GoesThrough(l, {"tool"}, Cut(v, v, r), Cut(v, v, r), Cut(store, h, r))
    <3>1. Same(Cut(v, v, r), Cut(store, h, r), B)
      BY <1>0, <1>c, <1>f, <2>1, <2>5, SameTaken
    <3>2. Kept("tool", r, Cut(v, v, r), Cut(v, v, r), Cut(store, h, r), B)
      BY <3>1 DEF Kept, Answering, Stopping, Storing
    <3> QED
      BY <1>2, <2>5, <3>2
  <2>6. CASE /\ call[l].pc = "deleteMessage"
             /\ ComesTo(l, Gone(v, r, call[l].part), Gone(store, r, call[l].part))
    <3>1. Same(Gone(v, r, call[l].part), Gone(store, r, call[l].part), B)
      BY <1>0, <1>c, <1>f, <2>1, <2>6, SameTaken
    <3> QED
      BY <1>3, <2>6, <3>1
  <2> QED
    BY <1>4, <1>c, <2>2, <2>3, <2>4, <2>5, <2>6 DEF CourseOfTurn
<1>g. call[l].pc \in Answering =>
        v = WithStatus(h, r, "queued") /\ Same(h, store, B \cup {r})
  BY <1>c, <1>0 DEF Kept, Same
<1>5. CASE CourseOfRound(l)
  <2>0. call[l].pc \in {"savePlaceholder", "running", "saveFinal", "saveConversation"} =>
          r \in Replies
    BY <1>0 DEF Numbered, Loop
  <2>1. CASE /\ call[l].pc = "savePlaceholder"
             /\ GoesThrough(l, {"running"}, h, WithStatus(h, r, "queued"),
                            WithStatus(store, r, "queued"))
    <3>1. Same(h, store, Questions)
      BY <1>c, <2>1 DEF Kept
    <3>2. Same(h, WithStatus(store, r, "queued"), B \cup {r})
      BY <1>0, <2>0, <2>1, <3>1, SameUpdates
    <3>3. Kept("running", r, h, WithStatus(h, r, "queued"), WithStatus(store, r, "queued"), B)
      BY <3>2 DEF Kept, Answering
    <3> QED
      BY <1>2, <2>1, <3>3
  <2>2. ASSUME call[l].pc \in Answering, NEW pc \in Answering
        PROVE  Kept(pc, r, h, v, store, B)
    BY <1>g, <2>2 DEF Kept, Answering, Stopping, Storing
  <2>3. CASE \/ /\ call[l].pc = "running"
                /\ GoesThrough(l, {"running", "saveQuestion"} \cup Stopping, h, v, store)
             \/ call[l].pc \in Stopping /\ GoesThrough(l, Storing, h, v, store)
    <3>1. PICK pcs \in {{"running", "saveQuestion"} \cup Stopping, Storing} :
            GoesThrough(l, pcs, h, v, store)
      BY <2>3
    <3>2. pcs \subseteq Answering /\ "returned" \notin pcs /\ call[l].pc \in Answering
      BY <2>3 DEF Answering, Stopping, Storing
    <3>3. \A pc \in pcs : Kept(pc, r, h, v, store, B)
      BY <2>2, <3>2
    <3> QED
      BY <1>2, <3>1, <3>2, <3>3
  <2>4. CASE /\ call[l].pc = "saveFinal"
             /\ GoesThrough(l, {"saveConversation"}, h, v, WithStatus(store, r, Outcome(r)))
    <3>0. call[l].pc \in Answering
      BY <2>4 DEF Answering, Storing
    <3>1. r \in B \cup {r} /\ B \cup {r} \subseteq B \cup {r}
      OBVIOUS
    <3>2. Same(h, WithStatus(store, r, Outcome(r)), B \cup {r})
      BY <1>0, <1>g, <2>0, <2>4, <3>0, <3>1, SameUpdates
    <3>3. Kept("saveConversation", r, h, v, WithStatus(store, r, Outcome(r)), B)
      BY <1>g, <3>0, <3>2 DEF Kept, Answering
    <3> QED
      BY <1>2, <2>4, <3>3
  <2>5. CASE /\ call[l].pc = "saveConversation"
             /\ ComesTo(l, Settle(v, r, Outcome(r)), store)
    <3>1. v = WithStatus(h, r, "queued") /\ Same(h, store, B \cup {r})
      BY <1>g, <2>5 DEF Answering
    <3>2. store[r].status = Outcome(r) \/ r \in B
      BY <1>0, <1>c, <2>5 DEF Recorded
    <3>3. Same(Settle(v, r, Outcome(r)), store, B)
      BY <1>0, <2>0, <2>5, <3>1, <3>2, SameSettled
    <3> QED
      BY <1>3, <2>5, <3>3
  <2> QED
    BY <1>5, <1>c, <2>1, <2>3, <2>4, <2>5 DEF CourseOfRound
<1>6. CASE CourseOfTool(l)
  <2> DEFINE done == WithStatus(h, r, "completed")
             refused == WithResult(h, r, "rejected")
             answer == Settle(v, r, "completed")
             With(m) == WithResult(m, r, call[l].verdict)
  <2>0. call[l].pc \in {"saveCall", "approve", "saveResult", "saveQuestion"} => r \in Replies
    BY <1>0 DEF Numbered, Loop
  <2>1. CASE /\ call[l].pc = "saveCall"
             /\ GoesThrough(l, {"approve", "tool"}, done, done, WithStatus(store, r, "completed"))
    <3>1. Same(h, store, B \cup {r})
      BY <1>g, <2>1 DEF Answering, Storing
    <3>2. Same(done, WithStatus(store, r, "completed"), B)
      BY <1>0, <2>0, <2>1, <3>1, SameSettled
    <3> HIDE DEF done
    <3>3. \A pc \in {"approve", "tool"} :
            Kept(pc, r, done, done, WithStatus(store, r, "completed"), B)
      BY <3>2 DEF Kept, Answering, Stopping, Storing
    <3> QED
      BY <1>2, <2>1, <3>3
  <2>2. ASSUME call[l].pc \in {"approve", "tool", "ask"}, NEW pcs, NEW v1,
               pcs \subseteq {"tool", "saveResult", "saveAnswer"}, v1 \in {h, v},
               GoesThrough(l, pcs, h, v1, store)
        PROVE  Stored'
    <3>1. h = v /\ Same(v, store, B)
      BY <1>f, <2>2
    <3>2. \A pc \in pcs : Kept(pc, r, h, v1, store, B)
      BY <2>2, <3>1 DEF Kept, Answering, Stopping, Storing
    <3> QED
      BY <1>2, <2>2, <3>2
  <2>3. CASE call[l].pc = "approve" /\ AsksNext(l, refused, refused, store)
    <3>1. B \subseteq B /\ Same(h, store, B)
      BY <1>f, <2>3
    <3>2. Same(refused, store, B)
      BY <1>0, <2>0, <2>3, <3>1, SameUpdates
    <3>3. refused \in Messages
      BY <1>0, <2>0, <2>3, MessageUpdates
    <3> HIDE DEF refused
    <3> QED
      BY <1>0, <1>1, <2>3, <3>2, <3>3
  <2>4. CASE /\ call[l].pc = "saveResult"
             /\ \E shown \in {With(h), With(v)} : AsksNext(l, With(h), shown, With(store))
    <3>0. B \subseteq B /\ Same(h, store, B) /\ h = v
      BY <1>f, <2>4
    <3>1. Same(With(h), With(store), B)
      BY <1>0, <2>0, <2>4, <3>0, SameUpdates
    <3>2. call[l].verdict \in {"none", "ok", "failed", "rejected"}
      BY <1>0, <2>4 DEF IndInv, Requests
    <3>3. With(h) \in Messages /\ With(store) \in Messages
      BY <1>0, <2>0, <2>4, <3>2, MessageUpdates
    <3>4. AsksNext(l, With(h), With(h), With(store))
      BY <2>4, <3>0
    <3> HIDE DEF With
    <3> QED
      BY <1>1, <3>1, <3>3, <3>4
  <2>5. CASE /\ call[l].pc = "saveQuestion"
             /\ GoesThrough(l, {"ask"}, answer, answer, WithStatus(store, r, "completed"))
    <3> DEFINE stored == WithStatus(store, r, "completed")
    <3>1. v = WithStatus(h, r, "queued") /\ Same(h, store, B \cup {r})
      BY <1>g, <2>5 DEF Answering
    <3>2. r \in B \cup {r} /\ B \cup {r} \subseteq B \cup {r}
      OBVIOUS
    <3>3. Same(h, stored, B \cup {r})
      BY <1>0, <2>0, <2>5, <3>1, <3>2, SameUpdates
    <3>a. stored \in Messages
      BY <1>0, <2>0, <2>5, MessageUpdates DEF Settled
    <3>b. stored[r].status = "completed"
      BY <1>0, <2>0, <2>5, FieldUpdates
    <3>4. stored \in Messages /\ stored[r].status = "completed"
      BY <3>a, <3>b
    <3> HIDE DEF stored
    <3>5. Same(answer, stored, B)
      BY <1>0, <2>0, <2>5, <3>1, <3>3, <3>4, SameSettled
    <3> HIDE DEF answer
    <3>6. \A pc \in {"ask"} : Kept(pc, r, answer, answer, stored, B)
      BY <3>5 DEF Kept, Answering, Stopping, Storing
    <3> QED
      BY <1>2, <2>5, <3>6 DEF stored
  <2>6. CASE call[l].pc = "ask" /\ ComesTo(l, v, store)
    BY <1>3, <1>f, <2>6
  <2>7. CASE call[l].pc = "saveAnswer" /\ AsksNext(l, h, h, store)
    BY <1>0, <1>1, <1>f, <2>7
  <2>8. \/ call[l].pc = "approve" /\ GoesThrough(l, {"tool"}, h, h, store)
        \/ call[l].pc = "tool" /\ GoesThrough(l, {"saveResult"}, h, v, store)
        \/ call[l].pc = "ask" /\ GoesThrough(l, {"saveAnswer"}, h, v, store)
        => Stored'
    BY <2>2
  <2>9. session[call[l].session].view = v
    BY <1>c
  <2> HIDE DEF v
  <2> QED
    BY <1>6, <2>1, <2>3, <2>4, <2>5, <2>6, <2>7, <2>8, <2>9, SMTT(30) DEF CourseOfTool
<1>7. CASE CourseOfFailure(l)
  BY <1>7, <1>a, <1>c DEF CourseOfFailure
<1> QED
  BY <1>0, <1>4, <1>5, <1>6, <1>7 DEF Course

LEMMA RestCallStep ==
  ASSUME RestInv, NEW l \in Calls, HandleSnapshot(l) \/ Coroutine(l)
  PROVE  RestInv'
<1>1. ConsentInv' /\ CheckpointInv'
  BY ConsentCallStep, CheckpointCallStep DEF RestInv
<1>2. Sent' /\ Failing' /\ Stored'
  BY SentCallStep, FailingCallStep, StoredCallStep
<1>3. /\ \A k \in Calls : Shown(k)'
      /\ \A d \in Sessions : Closing(d)'
  BY ShownCallStep
<1>4. \A d \in Sessions : Awaited(d)'
  BY AwaitedCallStep
<1> QED
  BY <1>1, <1>2, <1>3, <1>4 DEF RestInv

-------------------------------------------------------------------------------
(* The other steps, in which no call goes on. *)

(* Controller c has no checkpoints but those that it had, or was to make. *)
SameCheckpoints(c) ==
  \A r \in Replies :
     /\ session'[c].timer = r => session[c].timer = r
     /\ In(queue', CheckpointOp(c, r)) => In(queue, CheckpointOp(c, r)) \/ session[c].timer = r

(* Controller c is closed, or shows what it showed, or nothing that comes in. *)
SameController(c) ==
  \/ session'[c].closed
  \/ /\ ~session[c].closed
     /\ session'[c].request = session[c].request
     /\ session'[c].phase # "loading" =>
          \/ session'[c].view = session[c].view /\ session[c].phase # "loading"
          \/ Coming(session'[c].view) = {}

LEMMA RunsKept ==
  ASSUME IndInv, EndedKept
  PROVE  /\ Questions \subseteq Questions'
         /\ \A r \in Replies : run[r].state = "ended" => Outcome(r)' = Outcome(r)
BY DEF IndInv, Requests, Questions, EndedKept, Outcome

LEMMA RestCalm ==
  ASSUME RestInv, SameCalls, EndedKept, Begun \subseteq Begun', UNCHANGED failures,
         Present(store') \subseteq Begun',
         \A c \in Sessions : /\ Present(session'[c].view) \subseteq Begun'
                             /\ SameController(c) /\ SameCheckpoints(c)
  PROVE  /\ Sent' /\ Failing'
         /\ \A l \in Calls : Shown(l)'
         /\ \A c \in Sessions : Closing(c)' /\ Awaited(c)'
<1>0. /\ IndInv /\ Questions \subseteq Questions'
      /\ \A k \in Calls : /\ call'[k].pc = call[k].pc /\ call'[k].reply = call[k].reply
                          /\ call'[k].session = call[k].session
                          /\ call'[k].history = call[k].history
                          /\ call[k].session \in Sessions
  BY RunsKept, CallFields DEF RestInv, ConsentInv, IndInv, SameCalls
<1>1. Sent'
  <2>1. \A k \in Calls : /\ Present(call'[k].history) \subseteq Begun'
                         /\ call'[k].pc = "saveFailed" => call'[k].reply \in Begun'
    BY <1>0 DEF RestInv, Sent
  <2> QED
    BY <2>1 DEF Sent, Present
<1>2. Failing'
  BY <1>0 DEF RestInv, Failing
<1>3. ASSUME NEW l \in Calls PROVE Shown(l)'
  <2>1. Shown(l) /\ SameController(call[l].session)
    BY <1>0 DEF RestInv
  <2>2. ~session'[call[l].session].closed =>
          /\ ~session[call[l].session].closed
          /\ session'[call[l].session].request = session[call[l].session].request
    BY <2>1 DEF SameController
  <2> QED
    BY <1>0, <2>1, <2>2 DEF Shown, Coming, Present
<1>4. ASSUME NEW c \in Sessions PROVE Closing(c)'
  <2> SUFFICES ASSUME ~session'[c].closed, session'[c].phase # "loading",
                      Coming(session'[c].view) # {}
               PROVE  Closing(c)'
    BY DEF Closing, Coming
  <2>1. /\ ~session[c].closed /\ session[c].phase # "loading"
        /\ session'[c].view = session[c].view
    BY DEF SameController
  <2>2. \A x \in Coming(session[c].view) : \E l \in Calls :
           call[l].session = c /\ Closes(call[l].pc, call[l].reply, x, session[c].view)
    BY <2>1 DEF RestInv, Closing
  <2>3. \A x \in Coming(session'[c].view) : \E l \in Calls :
           call'[l].session = c /\ Closes(call'[l].pc, call'[l].reply, x, session'[c].view)
    BY <1>0, <2>1, <2>2
  <2> QED
    BY <2>3 DEF Closing, Coming, Closes, Unsettled
<1>5. ASSUME NEW c \in Sessions PROVE Awaited(c)'
  <2> SUFFICES ASSUME ~session'[c].closed, NEW r \in Replies
               PROVE  /\ session'[c].timer = r => Streams(c, r, {"running"})'
                      /\ In(queue', CheckpointOp(c, r)) =>
                           Streams(c, r, {"running"} \cup Stopping)'
    BY DEF Awaited, In, CheckpointOp
  <2>1. ~session[c].closed /\ SameCheckpoints(c)
    BY DEF SameController
  <2>2. /\ session[c].timer = r => Streams(c, r, {"running"})
        /\ In(queue, CheckpointOp(c, r)) => Streams(c, r, {"running"} \cup Stopping)
    BY <2>1 DEF RestInv, Awaited
  <2>3. \A pcs : Streams(c, r, pcs) => Streams(c, r, pcs)'
    BY <1>0 DEF Streams
  <2>4. Streams(c, r, {"running"}) => Streams(c, r, {"running"} \cup Stopping)
    BY DEF Streams
  <2> QED
    BY <2>1, <2>2, <2>3, <2>4 DEF SameCheckpoints
<1> QED
  BY <1>1, <1>2, <1>3, <1>4, <1>5

(* What is stored stays as it is. *)
LEMMA StoredCalm ==
  ASSUME RestInv, SameCalls, EndedKept, UNCHANGED <<failures, store>>,
         session'[1].closed \/ /\ ~session[1].closed
                               /\ session'[1].view = session[1].view
  PROVE  Stored'
<1> SUFFICES ASSUME failures' = 0, ~session'[1].closed PROVE Stored'
  BY DEF Stored
<1>0. /\ IndInv /\ Stored /\ Questions \subseteq Questions'
      /\ session'[1].view = session[1].view /\ ~session[1].closed /\ failures = 0
      /\ \A k \in Calls : /\ call'[k].pc = call[k].pc /\ call'[k].reply = call[k].reply
                          /\ call'[k].history = call[k].history
  BY RunsKept DEF RestInv, ConsentInv, SameCalls
<1>1. ASSUME NEW m, NEW n, NEW B, NEW C, B \subseteq C, Same(m, n, B) PROVE Same(m, n, C)
  BY <1>1 DEF Same
<1>2. ASSUME NEW k \in Calls
      PROVE  /\ Kept(call'[k].pc, call'[k].reply, call'[k].history, session'[1].view, store',
                     Questions')
             /\ Recorded(k)'
  <2>1. Kept(call[k].pc, call[k].reply, call[k].history, session[1].view, store, Questions)
        /\ Recorded(k)
    BY <1>0 DEF Stored
  <2>2. Kept(call[k].pc, call[k].reply, call[k].history, session[1].view, store, Questions')
    <3>1. Questions \cup {call[k].reply} \subseteq Questions' \cup {call[k].reply}
      BY <1>0
    <3> QED
      BY <1>0, <1>1, <2>1, <3>1 DEF Kept
  <2>3. Recorded(k)'
    <3>2. call[k].pc = "saveConversation" =>
            \A r \in Replies : r = call[k].reply => Outcome(r)' = Outcome(r)
      BY <1>0, RunsKept, EndedUsed DEF After, Loop
    <3>3. call[k].pc = "saveConversation" => call[k].reply \in Replies
      BY <1>0, EndedUsed DEF After, Loop
    <3> QED
      BY <1>0, <2>1, <3>2, <3>3 DEF Recorded, Outcome
  <2> QED
    BY <1>0, <2>2, <2>3
<1>3. (\A k \in Calls : ~Active(k)') => Same(session'[1].view, store', Questions')
  BY <1>0, <1>1 DEF Stored, Active
<1> QED
  BY <1>2, <1>3 DEF Stored, Questions, Active

LEMMA RestInterferes ==
  ASSUME RestInv, Interferes, ConsentInv', CheckpointInv'
  PROVE  RestInv'
<1>0. /\ IndInv /\ Typed /\ current \in Sessions /\ session[current] \in Controllers
      /\ session \in [Sessions -> Controllers] /\ Sent
      /\ SameCalls /\ SameRuns /\ UNCHANGED <<current, store, queue>>
      /\ ~session[current].closed /\ session[current].phase # "loading"
      /\ \A c \in Sessions : /\ session'[c].view = session[c].view
                             /\ c # current => session'[c] = session[c]
  BY VerdictStep, SessionFields DEF RestInv, ConsentInv, IndInv, Typed
<1>1. /\ UNCHANGED failures
      /\ session'[current].timer \in {0, session[current].timer}
      /\ session'[current].closed \/ session'[current].request = session[current].request
  <2>1. CASE Approve(current) \/ Reject(current)
             \/ \E verdict \in {"yes", "no"} : SubmitAnswer(current, verdict)
    BY <2>1 DEF Approve, Reject, SubmitAnswer
  <2>2. CASE Cancel(current)
    <3> DEFINE phase == IF session[current].run = 0 THEN session[current].phase ELSE "cancelling"
               new == [session[current] EXCEPT !.phase = phase]
    <3>1. session' = [session EXCEPT ![current] = new] /\ UNCHANGED failures
      BY <1>0, <2>2 DEF Cancel
    <3> HIDE DEF phase
    <3>2. new.timer = session[current].timer /\ new.request = session[current].request
      BY <1>0 DEF Controllers
    <3> HIDE DEF new
    <3> QED
      BY <1>0, <3>1, <3>2
  <2>3. CASE Close(current)
    <3> DEFINE new == [session[current] EXCEPT !.closed = TRUE, !.timer = 0,
                                               !.approver = 0, !.asker = 0]
    <3>1. session' = [session EXCEPT ![current] = new] /\ UNCHANGED failures
      BY <1>0, <2>3 DEF Close
    <3>2. new.timer = 0 /\ new.closed
      BY <1>0 DEF Controllers
    <3> HIDE DEF new
    <3> QED
      BY <1>0, <3>1, <3>2
  <2> QED
    BY <2>1, <2>2, <2>3 DEF Interferes
<1>2. /\ EndedKept /\ Begun \subseteq Begun'
  BY <1>0 DEF SameRuns, EndedKept, Begun
<1>3. ASSUME NEW c \in Sessions
      PROVE  /\ Present(session'[c].view) \subseteq Begun'
             /\ SameController(c) /\ SameCheckpoints(c)
  <2>1. Present(session'[c].view) \subseteq Begun'
    BY <1>0, <1>2 DEF Sent
  <2>2. SameController(c)
    <3>1. CASE c = current
      BY <1>0, <1>1, <3>1 DEF SameController
    <3>2. CASE c # current
      <4>1. session'[c] = session[c] /\ session[c].closed \in BOOLEAN
        BY <1>0, <3>2, SessionFields
      <4> QED
        BY <4>1 DEF SameController
    <3> QED
      BY <3>1, <3>2
  <2>3. SameCheckpoints(c)
    <3>1. 0 \notin Replies
      BY Bounds DEF Replies
    <3> QED
      BY <1>0, <1>1, <3>1 DEF SameCheckpoints
  <2> QED
    BY <2>1, <2>2, <2>3
<1>4. Present(store') \subseteq Begun'
  BY <1>0, <1>2 DEF Sent
<1>5. Stored'
  <2>1. SameController(1) /\ session'[1].view = session[1].view
    BY <1>0, <1>3, Bounds
  <2> QED
    BY <1>0, <1>1, <1>2, <2>1, StoredCalm DEF SameController
<1> QED
  BY <1>0, <1>1, <1>2, <1>3, <1>4, <1>5, RestCalm DEF RestInv

(* A call starts where no other is under way, from what is shown. *)
LEMMA RestStarting ==
  ASSUME ~Overlapping, RestInv, Starting, failures' = failures, ConsentInv', CheckpointInv'
  PROVE  RestInv'
<1>1. PICK l \in Calls, pc \in {"saveUser", "discard", "discardResult", "deleteMessage"},
          r \in Replies \cup {0}, part \in Parts \cup {"none"} :
        Started(l, pc, r, part)
  BY DEF Starting
<1>2. /\ call[l].pc = "idle" /\ call'[l].pc = pc /\ call'[l].session = current
      /\ call'[l].reply = r /\ call'[l].history = session[current].view
      /\ LeavesCalls(l) /\ CanStart(current)
      /\ queue' = Append(queue, CallOp(l)) /\ queue \in Seq(Ops)
      /\ UNCHANGED <<current, session, run, store>>
      /\ IndInv /\ Typed /\ current \in Sessions /\ current' = current
  BY <1>1 DEF Started, RestInv, ConsentInv, IndInv, Typed
<1>3. \A k \in Calls : Active(k) => call[k].session # current
  <2>1. ASSUME NEW k \in Calls, Active(k), call[k].session = current PROVE FALSE
    <3>1. ~Live(k) /\ ~session[current].closed /\ session[current].phase \in {"ready", "failed"}
      BY <1>2, <2>1 DEF CanStart
    <3>2. call[k].pc \in {"approve", "ask"}
      BY <2>1, <3>1 DEF Live, Active
    <3> QED
      BY <2>1, <3>1, <3>2 DEF RestInv, ConsentInv, Offered
  <2> QED
    BY <2>1
<1>4. Coming(session[current].view) = {}
  <2>1. Closing(current) /\ ~session[current].closed /\ session[current].phase # "loading"
    BY <1>2 DEF RestInv, CanStart
  <2>2. ASSUME NEW x \in Coming(session[current].view) PROVE FALSE
    <3>1. PICK k \in Calls : /\ call[k].session = current
                             /\ Closes(call[k].pc, call[k].reply, x, session[current].view)
      BY <2>1, <2>2 DEF Closing
    <3> QED
      BY <1>3, <3>1, ClosesActive DEF Active
  <2> QED
    BY <2>2
<1>5. \A k \in Calls : k # l => /\ call'[k].pc = call[k].pc /\ call'[k].reply = call[k].reply
                                /\ call'[k].session = call[k].session
                                /\ call'[k].history = call[k].history
  BY <1>2 DEF LeavesCalls
<1>6. Begun' = Begun /\ Questions' = Questions
  BY <1>2 DEF Begun, Questions
<1>7. Sent'
  <2>1. Sent
    BY DEF RestInv
  <2>2. ASSUME NEW k \in Calls
        PROVE  /\ Present(call'[k].history) \subseteq Begun'
               /\ call'[k].pc = "saveFailed" => call'[k].reply \in Begun'
    BY <1>2, <1>5, <1>6, <2>1 DEF Sent
  <2> QED
    BY <1>2, <1>6, <2>1, <2>2 DEF Sent, Present
<1>8. Failing'
  BY <1>2, <1>5 DEF RestInv, Failing
<1>9. ASSUME NEW k \in Calls PROVE Shown(k)'
  <2>1. CASE k = l
    BY <1>2, <1>4, <2>1 DEF Shown, Coming
  <2>2. CASE k # l
    <3>1. Shown(k)
      BY DEF RestInv
    <3> QED
      BY <1>2, <1>5, <2>2, <3>1 DEF Shown, Coming, Present
  <2> QED
    BY <2>1, <2>2
<1>10. ASSUME NEW c \in Sessions PROVE Closing(c)'
  <2> SUFFICES ASSUME ~session[c].closed, session[c].phase # "loading",
                      NEW x \in Coming(session[c].view)
               PROVE  \E k \in Calls :
                         call'[k].session = c
                         /\ Closes(call'[k].pc, call'[k].reply, x, session[c].view)
    BY <1>2 DEF Closing, Coming, Closes, Unsettled
  <2>1. PICK k \in Calls : /\ call[k].session = c
                           /\ Closes(call[k].pc, call[k].reply, x, session[c].view)
    BY DEF RestInv, Closing
  <2>2. k # l
    BY <1>2, <2>1, ClosesActive
  <2> QED
    BY <1>5, <2>1, <2>2
<1>11. ASSUME NEW c \in Sessions PROVE Awaited(c)'
  <2>1. \A x \in Replies : In(queue', CheckpointOp(c, x)) => In(queue, CheckpointOp(c, x))
    BY <1>2, IssueIn, OpsTyped, OpsDiffer
  <2>2. ASSUME NEW x \in Replies, NEW pcs \in SUBSET ({"running"} \cup Stopping),
               Streams(c, x, pcs)
        PROVE  Streams(c, x, pcs)'
    <3>1. call[l].pc \notin pcs
      BY <1>2, <2>2 DEF Stopping
    <3> QED
      BY <1>5, <1>6, <2>2, <3>1 DEF Streams
  <2>3. \A x \in Replies :
          /\ Streams(c, x, {"running"}) => Streams(c, x, {"running"})'
          /\ Streams(c, x, {"running"} \cup Stopping) =>
               Streams(c, x, {"running"} \cup Stopping)'
    BY <2>2
  <2>4. Awaited(c)
    BY DEF RestInv
  <2> QED
    BY <1>2, <2>1, <2>3, <2>4 DEF Awaited, In, CheckpointOp
<1>12. Stored'
  <2> SUFFICES ASSUME failures = 0, ~session[1].closed PROVE Stored'
    BY <1>2 DEF Stored
  <2>1. current = 1
    BY <1>2, Bounds DEF IndInv, Attached, Sessions
  <2>2. \A k \in Calls : ~Active(k)
    <3>1. \A k \in Calls : call[k].session \in Nat /\ call[k].session >= 1
      BY <1>2, CallFields, Bounds DEF Sessions
    <3> QED
      BY <1>2, <1>3, <2>1, <3>1 DEF IndInv, Attached
  <2>3. Same(session[1].view, store, Questions)
    BY <2>2 DEF RestInv, Stored
  <2>4. ASSUME NEW k \in Calls
        PROVE  /\ Kept(call'[k].pc, call'[k].reply, call'[k].history, session[1].view, store,
                       Questions)
               /\ Recorded(k)'
    <3>1. call'[k].pc \in {"idle", "returned"} \/ (k = l /\ call'[k].pc = pc)
      BY <1>2, <1>5, <2>2 DEF Active
    <3>2. call'[k].pc = pc => call'[k].history = session[1].view
      BY <1>2, <2>1, <3>1
    <3> QED
      BY <2>3, <3>1, <3>2 DEF Kept, Recorded, Answering, Stopping, Storing
  <2>5. Active(l)'
    BY <1>2 DEF Active
  <2> QED
    BY <1>2, <1>6, <2>4, <2>5 DEF Stored, Questions, Active
<1> QED
  BY <1>7, <1>8, <1>9, <1>10, <1>11, <1>12 DEF RestInv

(* The app starts again with no call under way and nothing shown. *)
LEMMA RestRestart ==
  ASSUME RestInv, Restart(current), ConsentInv', CheckpointInv'
  PROVE  RestInv'
<1>0. /\ IndInv /\ Typed /\ current \in Sessions /\ session \in [Sessions -> Controllers]
      /\ run \in [Replies -> Runs] /\ UNCHANGED <<store, failures>> /\ Sent
      /\ session' = [session EXCEPT ![current] = [NewSession EXCEPT !.closed = TRUE]]
      /\ queue' = <<OpeningOp(current + 1)>> /\ current + 1 \in Sessions
      /\ \A c \in Sessions : c < current => session[c].closed
      /\ \A c \in Sessions : c > current => session[c] = NewSession
      /\ Sessions \subseteq Nat
  BY Bounds, RepliesTyped DEF RestInv, ConsentInv, IndInv, Typed, Restart, Sessions, Attached
<1>1. ASSUME NEW k \in Calls
      PROVE  call'[k].pc \in {"idle", "returned"} /\ call'[k].history = Blank
  <2>1. call'[k] = NewCall \/ call'[k] = [NewCall EXCEPT !.pc = "returned"]
    BY Zenon DEF Restart
  <2> QED
    BY <2>1 DEF NewCall, Blank
<1>2. ASSUME NEW c \in Sessions
      PROVE  /\ c <= current => session'[c].closed
             /\ c > current => session'[c] = NewSession
             /\ c # current => session'[c] = session[c]
             /\ c = current => session'[c].view = Blank
  <2>1. /\ [NewSession EXCEPT !.closed = TRUE].closed
        /\ [NewSession EXCEPT !.closed = TRUE].view = Blank
    BY DEF NewSession, Blank
  <2>2. c < current \/ c = current \/ c > current
    BY <1>0
  <2> QED
    BY <1>0, <2>1, <2>2
<1>3. Begun \subseteq Begun'
  <2> SUFFICES ASSUME NEW r \in Replies, run[r].state \in {"open", "ended"}
               PROVE  run'[r].state = "ended"
    BY DEF Begun
  <2>1. run'[r] = [run[r] EXCEPT !.state = "ended"] /\ run[r] \in Runs
    BY <1>0 DEF Restart
  <2> QED
    BY <2>1 DEF Runs
<1>4. Sent'
  <2>1. \A c \in Sessions : Present(session'[c].view) \subseteq Begun'
    BY <1>0, <1>2, <1>3, BlankMessages DEF Sent
  <2>2. \A k \in Calls : Present(call'[k].history) \subseteq Begun'
    BY <1>1, BlankMessages
  <2> QED
    BY <1>0, <1>1, <1>3, <2>1, <2>2 DEF Sent, Present
<1>5. \A k \in Calls : Shown(k)'
  <2>1. \A k \in Calls : Coming(call'[k].history) = {}
    BY <1>1, BlankMessages
  <2> QED
    BY <1>1, <2>1 DEF Shown, Coming
<1>6. ASSUME NEW c \in Sessions PROVE Closing(c)' /\ Awaited(c)'
  <2>1. CASE c <= current
    BY <1>2, <2>1 DEF Closing, Awaited
  <2>2. CASE c > current
    <3>1. session'[c].phase = "loading" /\ session'[c].timer = 0 /\ 0 \notin Replies
      BY <1>2, <2>2, Bounds DEF NewSession, Replies
    <3>2. \A r \in Replies : ~In(queue', CheckpointOp(c, r))
      BY <1>0, OpsDiffer DEF In
    <3> QED
      BY <3>1, <3>2 DEF Closing, Awaited, In, CheckpointOp
  <2> QED
    BY <1>0, <2>1, <2>2
<1>7. Stored'
  <2>1. 1 <= current /\ 1 \in Sessions
    BY <1>0, Bounds DEF Sessions
  <2> QED
    BY <1>2, <2>1 DEF Stored
<1>8. Failing'
  BY <1>1 DEF Failing
<1> QED
  BY <1>4, <1>5, <1>6, <1>7, <1>8 DEF RestInv

(* A part of an answer is stored by a checkpoint. *)
LEMMA KeptStatus ==
  ASSUME NEW pc, NEW r, NEW h, NEW v, NEW s \in Messages, NEW B,
         Kept(pc, r, h, v, s, B), NEW x \in Replies, NEW a \in Open,
         x \in B \/ pc \in {"idle", "returned"} \/ (pc \in Answering /\ x = r),
         pc = "saveAgain" => r \in Replies
  PROVE  Kept(pc, r, h, v, WithStatus(s, x, a), B)
<1>1. \A y \in Replies :
        /\ WithStatus(s, x, a)[y].status = IF y = x THEN a ELSE s[y].status
        /\ WithStatus(s, x, a)[y].user = s[y].user
        /\ WithStatus(s, x, a)[y].result = s[y].result
  BY FieldUpdates
<1>2. ASSUME NEW m, NEW C, x \in C, Same(m, s, C) PROVE Same(m, WithStatus(s, x, a), C)
  BY <1>1, <1>2 DEF Same
<1>3. ASSUME NEW m, NEW b, r \in Replies, x \in B, Same(m, WithUser(s, r, b), B)
      PROVE  Same(m, WithUser(WithStatus(s, x, a), r, b), B)
  <2>1. \A y \in Replies :
          /\ WithUser(WithStatus(s, x, a), r, b)[y].user = IF y = r THEN b ELSE s[y].user
          /\ WithUser(WithStatus(s, x, a), r, b)[y].result = s[y].result
          /\ y # x => WithUser(WithStatus(s, x, a), r, b)[y].status = s[y].status
    <3> DEFINE m1 == WithStatus(s, x, a)
    <3>1. m1 \in Messages
      BY MessageUpdates
    <3> HIDE DEF m1
    <3>2. \A y \in Replies :
            /\ WithUser(m1, r, b)[y].user = IF y = r THEN b ELSE m1[y].user
            /\ WithUser(m1, r, b)[y].result = m1[y].result
            /\ WithUser(m1, r, b)[y].status = m1[y].status
      <4>1. r \in Replies
        BY <1>3
      <4> QED
        BY <3>1, <4>1, FieldUpdates
    <3>3. \A y \in Replies : /\ m1[y].user = s[y].user /\ m1[y].result = s[y].result
                             /\ y # x => m1[y].status = s[y].status
      BY <1>1 DEF m1
    <3> QED
      BY <3>2, <3>3 DEF m1
  <2>2. \A y \in Replies :
          /\ WithUser(s, r, b)[y].user = IF y = r THEN b ELSE s[y].user
          /\ WithUser(s, r, b)[y].result = s[y].result
          /\ WithUser(s, r, b)[y].status = s[y].status
    BY <1>3, FieldUpdates
  <2> QED
    BY <1>3, <2>1, <2>2 DEF Same
<1>4. CASE x \in B
  BY <1>2, <1>3, <1>4 DEF Kept
<1>5. CASE pc \in {"idle", "returned"}
  BY <1>5 DEF Kept, Answering, Stopping, Storing
<1>6. CASE pc \in Answering /\ x = r
  BY <1>2, <1>6 DEF Kept, Answering, Stopping, Storing
<1> QED
  BY <1>4, <1>5, <1>6

LEMMA StoredCheckpoint ==
  ASSUME RestInv, CheckpointSaved
  PROVE  Stored' /\ Present(store') \subseteq Begun'
<1>0. /\ IndInv /\ Typed /\ Requests /\ store \in Messages /\ queue \in Seq(Ops)
      /\ queue # <<>> /\ Head(queue).by = "checkpoint"
      /\ UNCHANGED <<current, session, call, run, failures>>
      /\ store' = WithStatus(store, Head(queue).reply, "streaming")
  BY DEF RestInv, ConsentInv, IndInv, Typed, CheckpointSaved, WithStatus
<1>1. PICK c \in Sessions, x \in Replies : Head(queue) = CheckpointOp(c, x)
  <2>1. Head(queue) \in Ops
    BY <1>0, TakeIn
  <2> QED
    BY <1>0, <2>1, OpsDiffer DEF Ops
<1>2. /\ In(queue, CheckpointOp(c, x)) /\ store' = WithStatus(store, x, "streaming")
      /\ store' \in Messages
  <2>1. store' = WithStatus(store, x, "streaming")
    BY <1>0, <1>1, OpsDiffer
  <2> QED
    BY <1>0, <1>1, <2>1, TakeIn, MessageUpdates DEF Open
<1>3. Present(store') \subseteq Begun'
  <2>1. x \in Begun
    BY <1>2 DEF RestInv, CheckpointInv, Harmless, Begun
  <2>2. Present(store') \subseteq Present(store) \cup {x}
    BY <1>0, <1>2, PresentUpdates
  <2> QED
    BY <1>0, <2>1, <2>2 DEF RestInv, Sent, Begun
<1>4. ASSUME failures = 0, ~session[1].closed PROVE Stored'
  <2>1. current = 1
    BY <1>0, <1>4, Bounds DEF IndInv, Attached, Typed, Sessions
  <2>2. \A k \in Calls : Active(k) => call[k].session = 1
    <3>1. \A k \in Calls : call[k].session \in Nat /\ call[k].session >= 1
      BY <1>0, CallFields, Bounds DEF Sessions
    <3> QED
      BY <1>0, <2>1, <3>1 DEF IndInv, Attached
  <2>3. ~session[c].closed
    <3>1. c = 1 \/ c > 1
      BY Bounds DEF Sessions
    <3> QED
      BY <1>0, <1>4, <2>1, <3>1 DEF IndInv, Attached, NewSession
  <2>4. Streams(c, x, {"running"} \cup Stopping)
    BY <1>2, <2>3 DEF RestInv, Awaited
  <2>5. \/ x \in Questions
        \/ \E l \in Calls : /\ call[l].reply = x /\ call[l].pc \in {"running"} \cup Stopping
                            /\ \A k \in Calls : k # l => ~Active(k)
    <3>1. ASSUME NEW l \in Calls, call[l].pc \in {"running"} \cup Stopping
          PROVE  \A k \in Calls : k # l => ~Active(k)
      <4>1. Active(l)
        BY <3>1 DEF Active, Stopping
      <4> QED
        BY <2>2, <4>1 DEF RestInv, ConsentInv, Alone
    <3> QED
      BY <2>4, <3>1 DEF Streams
  <2>6. ASSUME NEW k \in Calls
        PROVE  x \in Questions \/ call[k].pc \in {"idle", "returned"}
               \/ (call[k].pc \in {"running"} \cup Stopping /\ x = call[k].reply)
    BY <2>5 DEF Active
  <2>7. ASSUME NEW k \in Calls
        PROVE  /\ Kept(call[k].pc, call[k].reply, call[k].history, session[1].view, store',
                       Questions)
               /\ Recorded(k)'
    <3>1. /\ Kept(call[k].pc, call[k].reply, call[k].history, session[1].view, store, Questions)
          /\ Recorded(k)
      BY <1>4 DEF RestInv, Stored
    <3>2. call[k].reply \in Replies \cup {0}
      BY <1>0, CallFields, Bounds DEF Replies
    <3>3. call[k].pc \in {"saveAgain", "saveConversation"} => call[k].reply \in Replies
      BY <1>0 DEF Requests, Numbered, Loop
    <3>4. x \in Questions \/ call[k].pc \in {"idle", "returned"}
          \/ (call[k].pc \in Answering /\ x = call[k].reply)
      BY <2>6 DEF Answering
    <3>5. Kept(call[k].pc, call[k].reply, call[k].history, session[1].view,
               WithStatus(store, x, "streaming"), Questions)
      BY <1>0, <3>1, <3>2, <3>3, <3>4, KeptStatus DEF Open
    <3>6. Recorded(k)'
      <4> SUFFICES ASSUME call[k].pc = "saveConversation", call[k].reply \notin Questions
                   PROVE  store'[call[k].reply].status = Outcome(call[k].reply)
        BY <1>0 DEF Recorded, Questions, Outcome
      <4>1. x \in Questions
        BY <2>6 DEF Stopping
      <4>2. store[call[k].reply].status = Outcome(call[k].reply)
        BY <3>1 DEF Recorded
      <4> QED
        BY <1>0, <1>2, <3>3, <4>1, <4>2, FieldUpdates
    <3> QED
      BY <1>2, <3>5, <3>6
  <2>8. ASSUME \A k \in Calls : ~Active(k)
        PROVE  Same(session[1].view, store', Questions)
    <3>1. x \in Questions
      BY <2>4, <2>8 DEF Streams, Active, Stopping
    <3>2. Same(session[1].view, store, Questions)
      BY <1>4, <2>8 DEF RestInv, Stored
    <3>3. \A y \in Replies :
            /\ WithStatus(store, x, "streaming")[y].status
                 = IF y = x THEN "streaming" ELSE store[y].status
            /\ WithStatus(store, x, "streaming")[y].user = store[y].user
            /\ WithStatus(store, x, "streaming")[y].result = store[y].result
      BY <1>0, FieldUpdates
    <3> QED
      BY <1>2, <3>1, <3>2, <3>3 DEF Same
  <2> QED
    BY <1>0, <2>7, <2>8 DEF Stored, Questions, Active
<1>5. Stored'
  BY <1>0, <1>4 DEF Stored
<1> QED
  BY <1>3, <1>5

(* What is loaded is what is stored, and what is repaired does not come in. *)
LEMMA OpeningShows ==
  ASSUME RestInv, NEW c \in Sessions, Load(c) \/ Repair(c)
  PROVE  /\ c = current /\ session[c].phase = "loading" /\ ~session[c].closed
         /\ UNCHANGED <<current, call, run, failures>>
         /\ \A d \in Sessions : d # c => session'[d] = session[d]
         /\ session'[c].closed = session[c].closed
         /\ session'[c].request = session[c].request
         /\ session'[c].timer = session[c].timer
         /\ Present(store') \subseteq Begun /\ Present(session'[c].view) \subseteq Begun
         /\ session'[c].phase # "loading" => Coming(session'[c].view) = {}
         /\ \/ session'[c].view = store' 
            \/ \A B : Same(session[c].view, store, B) => Same(session'[c].view, store', B)
<1>0. /\ Typed /\ session \in [Sessions -> Controllers] /\ session[c] \in Controllers
      /\ store \in Messages /\ Sent /\ queue \in Seq(Ops) /\ session[c].view \in Messages
  BY SessionFields DEF RestInv, ConsentInv, IndInv, Typed
<1>1. c = current /\ session[c].phase = "loading" /\ ~session[c].closed
  <2>1. In(queue, OpeningOp(c))
    BY <1>0, TakeIn, Zenon DEF Load, Repair, Opening, Typed
  <2> QED
    BY <2>1 DEF RestInv, ConsentInv, IndInv, Opened
<1>2. UNCHANGED <<current, call, run, failures>>
  BY Zenon DEF Load, Repair
<1>3. CASE Load(c)
  <2> DEFINE open == {r \in Replies : store[r].status \in Open}
             phase == IF open = {} THEN "ready" ELSE session[c].phase
             new == [session[c] EXCEPT !.loaded = TRUE, !.view = store, !.phase = phase]
  <2>1. session' = [session EXCEPT ![c] = new] /\ UNCHANGED store
    BY <1>0, <1>3, Zenon DEF Load
  <2>2. phase # "loading" => Coming(store) = {}
    BY <1>1 DEF Coming
  <2> HIDE DEF phase
  <2>3. /\ new.closed = session[c].closed /\ new.request = session[c].request
        /\ new.timer = session[c].timer /\ new.view = store /\ new.phase = phase
    BY <1>0 DEF Controllers
  <2> HIDE DEF new
  <2>4. session'[c] = new /\ \A d \in Sessions : d # c => session'[d] = session[d]
    BY <1>0, <2>1
  <2> QED
    BY <1>0, <1>1, <1>2, <2>1, <2>2, <2>3, <2>4 DEF Sent
<1>4. CASE Repair(c)
  <2> DEFINE v == session[c].view
             Repaired(messages) ==
               [r \in Replies |-> IF v[r].status \in Open
                                  THEN [messages[r] EXCEPT !.status = "interrupted"]
                                  ELSE messages[r]]
             view == Repaired(v)
             new == [session[c] EXCEPT !.view = view, !.phase = "ready"]
  <2>1. session' = [session EXCEPT ![c] = new] /\ store' = Repaired(store)
    BY <1>0, <1>4, Zenon DEF Repair
  <2>2. \A r \in Replies :
          /\ view[r].user = v[r].user /\ view[r].result = v[r].result
          /\ view[r].status = IF v[r].status \in Open THEN "interrupted" ELSE v[r].status
          /\ store'[r].user = store[r].user /\ store'[r].result = store[r].result
          /\ store'[r].status = IF v[r].status \in Open THEN "interrupted" ELSE store[r].status
    BY <1>0, <2>1 DEF Messages
  <2> HIDE DEF view
  <2>3. /\ new.closed = session[c].closed /\ new.request = session[c].request
        /\ new.timer = session[c].timer /\ new.view = view
    BY <1>0 DEF Controllers
  <2> HIDE DEF new, Repaired
  <2>4. session'[c] = new /\ \A d \in Sessions : d # c => session'[d] = session[d]
    BY <1>0, <2>1
  <2>5. Coming(view) = {}
    BY <2>2 DEF Coming, Open
  <2>6. /\ Present(view) \subseteq Present(v)
        /\ Present(store') \subseteq Present(store) \cup Present(v)
    BY <2>2 DEF Present, Open
  <2>7. \A B : Same(v, store, B) => Same(view, store', B)
    BY <2>2 DEF Same
  <2>8. Present(store') \subseteq Begun /\ Present(view) \subseteq Begun
    BY <1>0, <2>6 DEF Sent
  <2> HIDE DEF v
  <2> QED
    BY <1>0, <1>1, <1>2, <2>3, <2>4, <2>5, <2>7, <2>8 DEF v
<1> QED
  BY <1>3, <1>4

LEMMA OpeningQueue ==
  ASSUME RestInv, NEW c \in Sessions, Load(c) \/ Repair(c)
  PROVE  \A d \in Sessions, x \in Replies :
            In(queue', CheckpointOp(d, x)) => In(queue, CheckpointOp(d, x))
<1>0. queue \in Seq(Ops)
  BY DEF RestInv, ConsentInv, IndInv, Typed
<1>1. queue # <<>> /\ (queue' = Tail(queue) \/ queue' = Append(Tail(queue), OpeningOp(c)))
  <2>1. CASE Load(c)
    <3>1. \E open : queue' = IF open = {} THEN Tail(queue)
                             ELSE Append(Tail(queue), OpeningOp(c))
      BY <2>1, Zenon DEF Load
    <3>2. Opening(c)
      BY <2>1, Zenon DEF Load
    <3> QED
      BY <3>1, <3>2 DEF Opening
  <2>2. CASE Repair(c)
    BY <2>2, Zenon DEF Repair, Opening
  <2> QED
    BY <2>1, <2>2
<1>2. Tail(queue) \in Seq(Ops) /\ \A x : In(Tail(queue), x) => In(queue, x)
  BY <1>0, <1>1, TakeIn
<1>3. CASE queue' = Append(Tail(queue), OpeningOp(c))
  <2>1. OpeningOp(c) \in Ops
    BY OpsTyped
  <2>2. \A x : In(queue', x) <=> In(Tail(queue), x) \/ x = OpeningOp(c)
    BY <1>2, <1>3, <2>1, IssueIn
  <2> QED
    BY <1>2, <2>2, OpsDiffer
<1> QED
  BY <1>1, <1>2, <1>3

(* A controller is loaded before a call of its begins. *)
LEMMA StoredOpening ==
  ASSUME RestInv, NEW c \in Sessions, Load(c) \/ Repair(c)
  PROVE  Stored'
<1>0. /\ IndInv /\ c = current /\ session[c].phase = "loading" /\ UNCHANGED <<call, run, failures>>
      /\ \A d \in Sessions : d # c => session'[d] = session[d]
      /\ session'[c].closed = session[c].closed
      /\ \/ session'[c].view = store'
         \/ \A B : Same(session[c].view, store, B) => Same(session'[c].view, store', B)
  BY OpeningShows DEF RestInv, ConsentInv
<1> SUFFICES ASSUME failures' = 0, ~session'[1].closed PROVE Stored'
  BY DEF Stored
<1>1. failures = 0 /\ ~session[1].closed
  BY <1>0, Bounds
<1>2. c = 1
  BY <1>0, <1>1, Bounds DEF IndInv, Attached, Typed, Sessions
<1>3. \A k \in Calls : ~Active(k)
  <2>1. \A k \in Calls : call[k].session \in Nat /\ call[k].session >= 1
    BY <1>0, CallFields, Bounds DEF IndInv, Sessions
  <2>2. ASSUME NEW k \in Calls, Active(k) PROVE FALSE
    <3>1. call[k].session = 1
      BY <1>0, <1>2, <2>1, <2>2 DEF IndInv, Attached
    <3> QED
      BY <1>0, <1>2, <2>2, <3>1 DEF IndInv, Attached
  <2> QED
    BY <2>2
<1>4. Same(session'[1].view, store', Questions)
  <2>1. Same(session[1].view, store, Questions)
    BY <1>1, <1>3 DEF RestInv, Stored
  <2> QED
    BY <1>0, <1>2, <2>1 DEF Same
<1>5. \A k \in Calls :
        /\ Kept(call[k].pc, call[k].reply, call[k].history, session'[1].view, store', Questions)
        /\ Recorded(k)'
  BY <1>0, <1>3 DEF Active, Kept, Recorded, Answering, Stopping, Storing
<1> QED
  BY <1>0, <1>4, <1>5 DEF Stored, Questions, Active

LEMMA RestRest ==
  ASSUME RestInv, ConsentInv', CheckpointInv',
         \/ \E c \in Sessions : Checkpoint(c) \/ Attach(c) \/ Load(c) \/ Repair(c)
         \/ CheckpointSaved \/ RunEndsSomehow \/ UNCHANGED vars
  PROVE  RestInv'
<1>0. /\ IndInv /\ Typed /\ session \in [Sessions -> Controllers] /\ store \in Messages
      /\ run \in [Replies -> Runs] /\ queue \in Seq(Ops) /\ Sent /\ 1 \in Sessions
      /\ \A c \in Sessions : session[c] \in Controllers /\ session[c].closed \in BOOLEAN
  BY SessionFields, Bounds DEF RestInv, ConsentInv, IndInv, Typed
<1>a. /\ UNCHANGED run => EndedKept /\ Begun' = Begun
      /\ UNCHANGED call => SameCalls
  BY DEF EndedKept, Begun, SameCalls
<1>b. ASSUME NEW c \in Sessions, session'[c] = session[c] PROVE SameController(c)
  BY <1>0, <1>b DEF SameController
<1>c. ASSUME UNCHANGED <<call, failures>>, EndedKept, Begun \subseteq Begun',
             \A c \in Sessions : /\ session'[c].view = session[c].view
                                 /\ session'[c].closed = session[c].closed
                                 /\ SameController(c) /\ SameCheckpoints(c),
             Present(store') \subseteq Begun', UNCHANGED store \/ Stored'
      PROVE  RestInv'
  <2>1. SameCalls /\ \A c \in Sessions : Present(session'[c].view) \subseteq Begun'
    BY <1>0, <1>a, <1>c DEF Sent
  <2>2. Stored'
    BY <1>0, <1>c, <2>1, StoredCalm
  <2> QED
    BY <1>c, <2>1, <2>2, RestCalm DEF RestInv
<1>d. UNCHANGED <<run, store>> => Present(store') \subseteq Begun'
  BY <1>0, <1>a DEF Sent
<1>e. UNCHANGED session /\ (\A c \in Sessions, r \in Replies :
                              In(queue', CheckpointOp(c, r)) => In(queue, CheckpointOp(c, r)))
        => \A c \in Sessions : SameCheckpoints(c)
  BY DEF SameCheckpoints
<1>1. CASE UNCHANGED vars
  BY <1>1, <1>a, <1>b, <1>c, <1>d, <1>e DEF vars
<1>2. CASE CheckpointSaved
  <2>1. UNCHANGED <<session, call, run, failures>> /\ queue # <<>> /\ queue' = Tail(queue)
    BY <1>2 DEF CheckpointSaved
  <2>2. \A x : In(queue', x) => In(queue, x)
    BY <1>0, <2>1, TakeIn
  <2>3. Stored' /\ Present(store') \subseteq Begun'
    BY <1>2, StoredCheckpoint
  <2> QED
    BY <1>a, <1>b, <1>c, <1>e, <2>1, <2>2, <2>3
<1>3. CASE RunEndsSomehow
  <2>1. PICK r \in Replies, risky \in BOOLEAN, outcome \in Outcomes : RunEnds(r, outcome, risky)
    BY <1>3 DEF RunEndsSomehow, Outcomes
  <2>2. /\ run[r].state = "open" /\ UNCHANGED <<session, call, store, queue, failures>>
        /\ \A x \in Replies : x # r => run'[x] = run[x]
        /\ run'[r].state = "ended"
    BY <1>0, <2>1 DEF RunEnds, Runs
  <2>3. EndedKept /\ Begun \subseteq Begun'
    BY <2>2 DEF EndedKept, Begun
  <2>4. Present(store') \subseteq Begun'
    BY <1>0, <2>2, <2>3 DEF Sent
  <2> QED
    BY <1>b, <1>c, <1>e, <2>2, <2>3, <2>4
<1>4. ASSUME NEW c \in Sessions, Checkpoint(c) PROVE RestInv'
  <2> DEFINE new == [session[c] EXCEPT !.timer = 0]
             r == session[c].timer
  <2>1. /\ session' = [session EXCEPT ![c] = new] /\ UNCHANGED <<call, run, store, failures>>
        /\ r \in Replies
        /\ queue' = queue \/ queue' = Append(queue, CheckpointOp(c, r))
    <3>1. r \in 0 .. MaxReplies /\ r # 0
      BY <1>0, <1>4 DEF Checkpoint, Controllers
    <3>2. r \in Replies
      BY <3>1, Bounds DEF Replies
    <3> QED
      BY <1>0, <1>4, <3>2 DEF Checkpoint
  <2>2. /\ new.timer = 0 /\ 0 \notin Replies /\ new.view = session[c].view
        /\ new.closed = session[c].closed /\ new.phase = session[c].phase
        /\ new.request = session[c].request
    BY <1>0, Bounds DEF Controllers, Replies
  <2> HIDE DEF new
  <2>3. session'[c] = new /\ \A d \in Sessions : d # c => session'[d] = session[d]
    BY <1>0, <2>1
  <2>4. \A d \in Sessions, x \in Replies : In(queue', CheckpointOp(d, x)) =>
          In(queue, CheckpointOp(d, x)) \/ session[d].timer = x
    <3>1. CASE queue' = Append(queue, CheckpointOp(c, r))
      <4>1. \A x : In(queue', x) <=> In(queue, x) \/ x = CheckpointOp(c, r)
        BY <1>0, <2>1, <3>1, IssueIn, OpsTyped
      <4> QED
        BY <2>1, <4>1, OpsDiffer
    <3> QED
      BY <2>1, <3>1
  <2>5. ASSUME NEW d \in Sessions
        PROVE  /\ session'[d].view = session[d].view /\ session'[d].closed = session[d].closed
               /\ SameController(d) /\ SameCheckpoints(d)
    <3>1. SameController(d)
      BY <1>0, <1>b, <2>2, <2>3 DEF SameController
    <3>2. SameCheckpoints(d)
      BY <2>2, <2>3, <2>4 DEF SameCheckpoints
    <3> QED
      BY <2>2, <2>3, <3>1, <3>2
  <2> QED
    BY <1>a, <1>c, <1>d, <2>1, <2>5
<1>5. ASSUME NEW c \in Sessions, Attach(c) PROVE RestInv'
  <2>1. /\ queue' = Append(queue, OpeningOp(c + 1))
        /\ UNCHANGED <<session, call, run, store, failures>>
        /\ c + 1 \in Sessions
    <3>1. current' \in Sessions /\ current' = c + 1
      BY <1>5 DEF Attach, ConsentInv, IndInv, Typed
    <3> QED
      BY <1>5, <3>1 DEF Attach
  <2>2. \A d \in Sessions, x \in Replies :
          In(queue', CheckpointOp(d, x)) => In(queue, CheckpointOp(d, x))
    BY <1>0, <2>1, IssueIn, OpsTyped, OpsDiffer
  <2> QED
    BY <1>a, <1>b, <1>c, <1>d, <1>e, <2>1, <2>2
<1>6. ASSUME NEW c \in Sessions, Load(c) \/ Repair(c) PROVE RestInv'
  <2>1. /\ UNCHANGED <<call, run, failures>> /\ ~session[c].closed
        /\ \A d \in Sessions : d # c => session'[d] = session[d]
        /\ session'[c].closed = session[c].closed
        /\ session'[c].request = session[c].request
        /\ session'[c].timer = session[c].timer
        /\ Present(store') \subseteq Begun /\ Present(session'[c].view) \subseteq Begun
        /\ session'[c].phase # "loading" => Coming(session'[c].view) = {}
    BY <1>6, OpeningShows
  <2>2. ASSUME NEW d \in Sessions
        PROVE  /\ Present(session'[d].view) \subseteq Begun'
               /\ SameController(d) /\ SameCheckpoints(d)
    <3>1. SameController(d)
      BY <1>b, <2>1 DEF SameController
    <3>2. SameCheckpoints(d)
      BY <1>6, <2>1, OpeningQueue DEF SameCheckpoints
    <3>3. Present(session'[d].view) \subseteq Begun'
      BY <1>0, <1>a, <2>1 DEF Sent
    <3> QED
      BY <3>1, <3>2, <3>3
  <2>3. Stored'
    BY <1>6, StoredOpening
  <2> QED
    BY <1>a, <2>1, <2>2, <2>3, RestCalm DEF RestInv
<1> QED
  BY <1>1, <1>2, <1>3, <1>4, <1>5, <1>6

LEMMA RestInit == Init => RestInv
<1> SUFFICES ASSUME Init PROVE RestInv
  OBVIOUS
<1>1. /\ \A c \in Sessions : /\ session[c].timer = 0 /\ session[c].view = Blank
                             /\ session[c].phase = "loading"
      /\ \A l \in Calls : call[l].pc = "idle" /\ call[l].history = Blank
      /\ store = Blank /\ queue = <<OpeningOp(1)>> /\ 1 \in Sessions
  BY Bounds DEF Init, NewSession, NewCall, Blank
<1>2. \A c \in Sessions, r \in Replies : ~In(queue, CheckpointOp(c, r))
  BY <1>1, OpsDiffer DEF In
<1>3. 0 \notin Replies
  BY Bounds DEF Replies
<1>4. Sent
  BY <1>1, BlankMessages DEF Sent
<1>5. /\ \A l \in Calls : Shown(l)
      /\ \A c \in Sessions : Closing(c)
      /\ \A c \in Sessions : Awaited(c)
      /\ Failing
  BY <1>1, <1>2, <1>3, BlankMessages DEF Shown, Closing, Awaited, Failing
<1>6. Stored
  <2>1. Same(Blank, Blank, Questions)
    BY DEF Same
  <2> QED
    BY <1>1, <2>1 DEF Stored, Kept, Recorded, Answering, Stopping, Storing
<1> QED
  BY <1>4, <1>5, <1>6, ConsentInit, CheckpointInit DEF RestInv

LEMMA RestNext == ASSUME ~Overlapping, RestInv, [Next]_vars PROVE RestInv'
<1>1. ConsentInv' /\ CheckpointInv' /\ Typed
  BY ConsentNext, CheckpointNext DEF RestInv, ConsentInv, IndInv
<1>2. User => failures' = failures
  BY Zenon DEF User, SendText, Regenerate, RetryTool, DeleteMessage, Approve, Reject,
     SubmitAnswer, Cancel, Close, Restart
<1>3. User => RestInv'
  BY <1>1, <1>2, UserSteps, RestStarting, RestInterferes, RestRestart
<1> QED
  BY <1>1, <1>3, RestCallStep, RestRest DEF Next

LEMMA RestHolds == ASSUME RestInv PROVE RestIsTrue
<1>1. ASSUME NEW c \in Sessions, session[c].phase \in {"ready", "failed"}, ~session[c].closed,
             \A l \in Calls : call[l].session = c => ~Live(l)
      PROVE  \A r \in Replies : session[c].view[r].status \notin Open
  <2>1. \A x \in Coming(session[c].view) : \E l \in Calls :
           call[l].session = c /\ Closes(call[l].pc, call[l].reply, x, session[c].view)
    BY <1>1 DEF RestInv, Closing
  <2>2. ASSUME NEW x \in Coming(session[c].view) PROVE FALSE
    <3>1. PICK l \in Calls : /\ call[l].session = c /\ ~Live(l)
                             /\ Closes(call[l].pc, call[l].reply, x, session[c].view)
      BY <1>1, <2>1
    <3>2. call[l].pc \in Answering \cup {"tailFailed", "saveFailed"}
      BY <3>1, ClosesActive
    <3> QED
      BY <3>1, <3>2 DEF Live, Answering, Stopping, Storing
  <2> QED
    BY <2>2 DEF Coming
<1>2. ASSUME failures = 0, ~session[1].closed, session[1].phase \in {"ready", "failed"},
             \A l \in Calls : ~Live(l)
      PROVE  Same(session[1].view, store, Questions)
  <2>1. IndInv /\ 1 \in Sessions /\ current \in Sessions
    BY Bounds DEF RestInv, ConsentInv, IndInv, Typed
  <2>2. current = 1
    BY <1>2, <2>1 DEF IndInv, Attached, Sessions
  <2>3. ASSUME NEW k \in Calls, Active(k) PROVE FALSE
    <3>1. call[k].pc \in {"approve", "ask"}
      BY <1>2, <2>3 DEF Live, Active
    <3>2. call[k].session \in Sessions /\ call[k].session <= 1
      BY <2>1, <2>2, <2>3, CallFields DEF IndInv, Attached
    <3>3. call[k].session = 1
      BY <3>2, Bounds DEF Sessions
    <3> QED
      BY <1>2, <3>1, <3>3 DEF RestInv, ConsentInv, Offered
  <2> QED
    BY <1>2, <2>3 DEF RestInv, Stored
<1>3. NothingOpen
  BY <1>1 DEF NothingOpen
<1>4. ShownIsStored
  BY <1>2 DEF ShownIsStored, Same, Questions
<1> QED
  BY <1>3, <1>4 DEF RestIsTrue

(* A conversation at rest is shown as it is: no message looks as if it were    *)
(* still coming in, and, unless the store has failed, a restart will load    *)
(* what is shown, but for the refusals of tools and the record of questions. *)
(* (What a restart will load is said of the first controller, for a call of  *)
(* one that was replaced may still settle its answer.)  It holds whatever is *)
(* stopped, deleted, tried again, replaced or started again, and wherever    *)
(* the store throws; like the agreement to tools, where a call starts when   *)
(* the one before it is shown.                                               *)
THEOREM RestIsShownTruly == ~Overlapping => (Spec => []RestIsTrue)
<1> SUFFICES ASSUME ~Overlapping PROVE Spec => []RestIsTrue
  OBVIOUS
<1>1. Init => RestInv
  BY RestInit
<1>2. RestInv /\ [Next]_vars => RestInv'
  BY RestNext
<1>3. RestInv => RestIsTrue
  BY RestHolds
<1> QED
  BY <1>1, <1>2, <1>3, PTL DEF Spec
===============================================================================
