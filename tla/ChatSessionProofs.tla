-------------------------- MODULE ChatSessionProofs --------------------------
(***************************************************************************)
(* Proofs about ChatSession, for every number of controllers, calls,       *)
(* answers, rounds and failures.                                           *)
(***************************************************************************)
EXTENDS ChatSession, FiniteSetTheorems, WellFoundedInduction, TLAPS

Pcs == {"idle", "returned"} \cup Saving \cup Waiting

(* A call that has an answer of its own to wait for, to save or to follow up. *)
Loop == {"savePlaceholder", "running", "tailCall", "saveCall", "tailFinal", "saveFinal",
         "saveConversation", "tool", "approve", "saveResult", "saveQuestion", "ask",
         "saveAnswer"}

(* A call that is about a message with a number. *)
Numbered == Loop \cup {"discard", "saveAgain", "discardResult", "deleteMessage", "saveFailed"}

(* It has seen the end of the request behind its answer. *)
After == (Loop \ {"savePlaceholder", "running"}) \cup {"discardResult"}

Ops == {CallOp(l) : l \in Calls} \cup {OpeningOp(c) : c \in Sessions}
         \cup {CheckpointOp(c, r) : c \in Sessions, r \in Replies}

Controllers == [phase : Phases, loaded : BOOLEAN, closed : BOOLEAN, view : Messages,
                request : 0 .. MaxReplies, run : 0 .. MaxReplies, timer : 0 .. MaxReplies,
                approver : 0 .. MaxCalls, asker : 0 .. MaxCalls]

Parts == {"user", "status", "result"}

Verdicts == {"none", "yes", "no", "ok", "failed"}

Coroutines == [pc : Pcs, session : Sessions, retry : BOOLEAN, round : 0 .. MaxReplies,
               reply : 0 .. MaxReplies, history : Messages, part : {"none"} \cup Parts,
               verdict : Verdicts]

Outcomes == {"text", "tools", "question", "failed", "cancelled"}

Runs == [state : {"unused", "reserved", "open", "ended"}, outcome : {"none"} \cup Outcomes,
         cancelled : BOOLEAN, risky : BOOLEAN]

Typed ==
  /\ current \in Sessions
  /\ session \in [Sessions -> Controllers]
  /\ call \in [Calls -> Coroutines]
  /\ run \in [Replies -> Runs]
  /\ store \in Messages
  /\ queue \in Seq(Ops)
  /\ failures \in 0 .. MaxFailures
  /\ consented \subseteq Replies

In(q, op) == \E i \in DOMAIN q : q[i] = op

Once(q) == \A i, j \in DOMAIN q : q[i] = q[j] /\ q[i].by # "checkpoint" => i = j

(* A call has one operation under way if it awaits one. *)
Queued ==
  /\ Once(queue)
  /\ \A l \in Calls : In(queue, CallOp(l)) <=> call[l].pc \in Saving

Active(l) == call[l].pc \notin {"idle", "returned"}

(* Only the controller that is attached is being opened. *)
Opened ==
  \A c \in Sessions : In(queue, OpeningOp(c)) =>
     c = current /\ session[c].phase = "loading" /\ ~session[c].closed

(* Controllers follow each other, and a call starts in one that is loaded. *)
Attached ==
  /\ \A c \in Sessions : c < current => session[c].closed
  /\ \A c \in Sessions : c > current => session[c] = NewSession
  /\ session[current].closed => current < MaxSessions
  /\ \A l \in Calls : Active(l) =>
        /\ session[call[l].session].phase # "loading"
        /\ call[l].session <= current

(* The answers are numbered in the order in which they are reserved, *)
Numbers == \E n \in 0 .. MaxReplies : Used = 1 .. n

(* and there is a number left for every call that will ask for one. *)
Capacity == Cardinality(Used) + Cardinality(Owing) <= MaxReplies

(* How far a request is when its call is at a given point. *)
Requests ==
  /\ \A r \in Replies : run[r].outcome # "none" => run[r].state = "ended"
  /\ \A l \in Calls :
      /\ call[l].pc \in Numbered => call[l].reply \in Replies
      /\ call[l].pc = "savePlaceholder" => run[call[l].reply].state = "reserved"
      /\ call[l].pc = "running" => run[call[l].reply].state \in {"open", "ended"}
      /\ call[l].pc \in After => run[call[l].reply].state = "ended"
      /\ call[l].pc = "saveResult" => call[l].verdict \in {"ok", "failed"}
      /\ call[l].pc = "deleteMessage" => call[l].part \in Parts

(* No two calls wait for the same answer. *)
OwnReplies ==
  \A k, l \in Calls :
     /\ {call[k].pc, call[l].pc} \subseteq {"savePlaceholder", "running"}
     /\ call[k].reply = call[l].reply
     => k = l

(* A message of the user before answer r can be stored or shown: if r may be  *)
(* given back, the call that has it knows.                                   *)
Asked(r) ==
  /\ run[r].state # "unused"
  /\ \A l \in Calls :
        call[l].pc = "savePlaceholder" /\ call[l].reply = r => call[l].history[r].user

(* Messages that the requests account for. *)
Backed(messages) ==
  \A r \in Replies :
    /\ messages[r].status = "completed" \/ messages[r].result # "none"
         => run[r].state = "ended"
    /\ messages[r].user => Asked(r)

MessagesBacked ==
  /\ Backed(store)
  /\ \A c \in Sessions : Backed(session[c].view)
  /\ \A l \in Calls : Backed(call[l].history)

(* The count of a call is not behind the rounds of tools its history shows.  *)
RoundsCounted ==
  \A l \in Calls :
    /\ call[l].pc \in Loop \ {"tool", "saveResult"} => ~call[l].retry
    /\ call[l].pc = "discardResult" => call[l].retry
    /\ call[l].pc \in Loop =>
         call[l].round < call[l].reply + (IF call[l].retry THEN 1 ELSE 0)
    /\ call[l].pc \in {"savePlaceholder", "running", "tailCall", "saveCall"}
         => RoundsInTurn(call[l].history) <= call[l].round
    /\ call[l].pc \in {"tool", "approve", "saveResult"}
         => RoundsInTurn(call[l].history) <= call[l].round + (IF call[l].retry THEN 0 ELSE 1)

IndInv ==
  /\ Typed /\ Queued /\ Opened /\ Attached /\ Numbers /\ Capacity /\ Requests /\ OwnReplies
  /\ MessagesBacked /\ RoundsCounted

-------------------------------------------------------------------------------
(* The operations under way. *)

(* The operations of calls, checkpoints and openings are told apart. *)
LEMMA OpsDiffer ==
  /\ \A k, l \in Calls : CallOp(k) = CallOp(l) => k = l
  /\ \A c, d \in Sessions : OpeningOp(c) = OpeningOp(d) => c = d
  /\ \A c, d \in Sessions, r, x \in Replies :
        CheckpointOp(c, r) = CheckpointOp(d, x) => c = d /\ r = x
  /\ \A l \in Calls, c \in Sessions : CallOp(l) # OpeningOp(c)
  /\ \A l \in Calls, c \in Sessions, r \in Replies : CallOp(l) # CheckpointOp(c, r)
  /\ \A c, d \in Sessions, r \in Replies : OpeningOp(c) # CheckpointOp(d, r)
  /\ \A l \in Calls : CallOp(l).by = "call"
  /\ \A c \in Sessions : OpeningOp(c).by = "opening"
  /\ \A c \in Sessions, r \in Replies :
        /\ CheckpointOp(c, r).by = "checkpoint"
        /\ CheckpointOp(c, r).id = c /\ CheckpointOp(c, r).reply = r
BY DEF CallOp, OpeningOp, CheckpointOp

LEMMA OpsTyped ==
  /\ \A l \in Calls : CallOp(l) \in Ops
  /\ \A c \in Sessions : OpeningOp(c) \in Ops
  /\ \A c \in Sessions, r \in Replies : CheckpointOp(c, r) \in Ops
  /\ \A op \in Ops : op.by # "checkpoint" <=> op \notin {CheckpointOp(c, r) : c \in Sessions, r \in Replies}
BY OpsDiffer DEF Ops

(* An operation is issued. *)
LEMMA IssueIn ==
  ASSUME NEW q \in Seq(Ops), NEW op \in Ops
  PROVE  /\ Append(q, op) \in Seq(Ops)
         /\ \A x : In(Append(q, op), x) <=> In(q, x) \/ x = op
         /\ Once(q) /\ (op.by # "checkpoint" => ~In(q, op)) => Once(Append(q, op))
<1>1. /\ Append(q, op) \in Seq(Ops)
      /\ Len(Append(q, op)) = Len(q) + 1
      /\ DOMAIN Append(q, op) = 1 .. Len(q) + 1
      /\ DOMAIN q = 1 .. Len(q)
      /\ Len(q) \in Nat
  OBVIOUS
<1>2. /\ \A i \in 1 .. Len(q) : Append(q, op)[i] = q[i]
      /\ Append(q, op)[Len(q) + 1] = op
  OBVIOUS
<1>3. \A i \in 1 .. Len(q) + 1 : i \in 1 .. Len(q) \/ i = Len(q) + 1
  BY <1>1
<1>4. \A x : In(Append(q, op), x) <=> In(q, x) \/ x = op
  BY <1>1, <1>2, <1>3 DEF In
<1>5. ASSUME Once(q), op.by # "checkpoint" => ~In(q, op) PROVE Once(Append(q, op))
  BY <1>1, <1>2, <1>3, <1>5 DEF In, Once
<1> QED
  BY <1>1, <1>4, <1>5

(* The first of them has taken effect. *)
LEMMA TakeIn ==
  ASSUME NEW q \in Seq(Ops), q # <<>>
  PROVE  /\ Tail(q) \in Seq(Ops) /\ Head(q) \in Ops /\ In(q, Head(q))
         /\ \A x : In(q, x) <=> In(Tail(q), x) \/ x = Head(q)
         /\ Once(q) => Once(Tail(q))
         /\ Once(q) /\ Head(q).by # "checkpoint" => ~In(Tail(q), Head(q))
<1>1. /\ Tail(q) \in Seq(Ops) /\ Head(q) \in Ops
      /\ DOMAIN q = 1 .. Len(q) /\ Len(q) \in Nat /\ Len(q) > 0
      /\ DOMAIN Tail(q) = 1 .. Len(q) - 1
      /\ Head(q) = q[1]
  OBVIOUS
<1>2. \A i \in 1 .. Len(q) - 1 : Tail(q)[i] = q[i + 1]
  OBVIOUS
<1>3. \A i \in 1 .. Len(q) : i = 1 \/ i - 1 \in 1 .. Len(q) - 1
  BY <1>1
<1>4. \A i \in 1 .. Len(q) : i # 1 => Tail(q)[i - 1] = q[i]
  BY <1>1, <1>2, <1>3
<1>5. \A x : In(q, x) <=> In(Tail(q), x) \/ x = Head(q)
  <2>1. ASSUME NEW x, In(q, x), x # Head(q) PROVE In(Tail(q), x)
    BY <1>1, <1>3, <1>4, <2>1 DEF In
  <2>2. ASSUME NEW x, In(Tail(q), x) PROVE In(q, x)
    BY <1>1, <1>2, <2>2 DEF In
  <2>3. In(q, Head(q))
    BY <1>1 DEF In
  <2> QED
    BY <2>1, <2>2, <2>3
<1>6. \A i, j \in 1 .. Len(q) - 1 : i + 1 \in 1 .. Len(q) /\ (i + 1 = j + 1 => i = j)
  BY <1>1
<1>7. Once(q) => Once(Tail(q))
  BY <1>1, <1>2, <1>6 DEF Once
<1>8. ASSUME Once(q), Head(q).by # "checkpoint", In(Tail(q), Head(q)) PROVE FALSE
  <2>1. PICK i \in 1 .. Len(q) - 1 : q[i + 1] = q[1]
    BY <1>1, <1>2, <1>8 DEF In
  <2>2. i + 1 = 1
    BY <2>1, <1>1, <1>6, <1>8 DEF Once
  <2> QED
    BY <2>2, <1>1
<1> QED
  BY <1>1, <1>5, <1>7, <1>8

-------------------------------------------------------------------------------
(* Types of the values the steps store. *)

LEMMA Bounds ==
  /\ MaxSessions \in Nat /\ MaxCalls \in Nat /\ MaxReplies \in Nat /\ MaxRounds \in Nat
  /\ MaxSessions >= 1 /\ MaxCalls >= 1 /\ MaxReplies >= 1 /\ MaxRounds >= 1
  /\ MaxFailures \in Nat
  /\ 1 \in Sessions
BY ChatConstants DEF Sessions

LEMMA NothingMessage ==
  /\ [r \in Replies |-> Nothing] \in Messages
  /\ Nothing.user = FALSE /\ Nothing.status = "none" /\ Nothing.result = "none"
BY DEF Nothing, Messages

LEMMA NewTyped ==
  /\ NewSession \in Controllers
  /\ [NewSession EXCEPT !.closed = TRUE] \in Controllers
  /\ NewCall \in Coroutines
  /\ [NewCall EXCEPT !.pc = "returned"] \in Coroutines
  /\ NewRun \in Runs
<1>1. NewSession \in Controllers /\ [NewSession EXCEPT !.closed = TRUE] \in Controllers
  <2>1. 0 \in 0 .. MaxReplies /\ 0 \in 0 .. MaxCalls /\ "loading" \in Phases
    BY Bounds DEF Phases
  <2> QED
    BY <2>1, NothingMessage DEF NewSession, Controllers
<1>2. {"idle", "returned"} \subseteq Pcs /\ 0 \in 0 .. MaxReplies
  BY Bounds DEF Pcs
<1>3. NewCall \in Coroutines /\ [NewCall EXCEPT !.pc = "returned"] \in Coroutines
  BY <1>2, Bounds, NothingMessage DEF NewCall, Coroutines, Verdicts
<1>4. NewRun \in Runs
  BY DEF NewRun, Runs
<1> QED
  BY <1>1, <1>3, <1>4

(* A field of a record may be replaced by a value of its type. *)
LEMMA ControllerUpdates ==
  \A s \in Controllers :
     /\ \A p \in Phases : [s EXCEPT !.phase = p] \in Controllers
     /\ \A b \in BOOLEAN : /\ [s EXCEPT !.loaded = b] \in Controllers
                           /\ [s EXCEPT !.closed = b] \in Controllers
     /\ \A m \in Messages : [s EXCEPT !.view = m] \in Controllers
     /\ \A r \in 0 .. MaxReplies : /\ [s EXCEPT !.request = r] \in Controllers
                                  /\ [s EXCEPT !.run = r] \in Controllers
                                  /\ [s EXCEPT !.timer = r] \in Controllers
     /\ \A l \in 0 .. MaxCalls : /\ [s EXCEPT !.approver = l] \in Controllers
                                /\ [s EXCEPT !.asker = l] \in Controllers
BY DEF Controllers

LEMMA CoroutineUpdates ==
  \A s \in Coroutines :
     /\ \A pc \in Pcs : [s EXCEPT !.pc = pc] \in Coroutines
     /\ \A c \in Sessions : [s EXCEPT !.session = c] \in Coroutines
     /\ \A b \in BOOLEAN : [s EXCEPT !.retry = b] \in Coroutines
     /\ \A n \in 0 .. MaxReplies : /\ [s EXCEPT !.round = n] \in Coroutines
                                  /\ [s EXCEPT !.reply = n] \in Coroutines
     /\ \A m \in Messages : [s EXCEPT !.history = m] \in Coroutines
     /\ \A part \in {"none"} \cup Parts : [s EXCEPT !.part = part] \in Coroutines
     /\ \A v \in Verdicts : [s EXCEPT !.verdict = v] \in Coroutines
BY DEF Coroutines

LEMMA PhaseNames ==
  /\ "loading" \in Phases /\ "ready" \in Phases /\ "failed" \in Phases
  /\ "requesting" \in Phases /\ "streaming" \in Phases /\ "cancelling" \in Phases
  /\ "awaitingToolApproval" \in Phases /\ "awaitingUserAnswer" \in Phases
BY DEF Phases

LEMMA ZeroTypes == 0 \in 0 .. MaxReplies /\ 0 \in 0 .. MaxCalls
BY Bounds

(* Messages stay messages when a part of one is replaced, and when some are   *)
(* taken away.                                                               *)
LEMMA MessageTypes ==
  ASSUME NEW m \in Messages, NEW r \in Replies
  PROVE  /\ \A b \in BOOLEAN : [m EXCEPT ![r].user = b] \in Messages
         /\ \A s \in {"none", "interrupted"} \cup Open \cup Settled :
               /\ [m EXCEPT ![r].status = s] \in Messages
               /\ Settle(m, r, s) \in Messages
         /\ \A v \in {"none", "ok", "failed", "rejected"} : [m EXCEPT ![r].result = v] \in Messages
         /\ \A part \in Parts : [m EXCEPT ![r][part] = Nothing[part]] \in Messages
BY NothingMessage DEF Messages, Settle, Parts

LEMMA WithoutType ==
  ASSUME NEW m \in Messages, NEW replies
  PROVE  Without(m, replies) \in Messages
BY NothingMessage DEF Messages, Without, Nothing

LEMMA ShowsType ==
  ASSUME Typed, NEW c \in Sessions, NEW m \in Messages, NEW p \in Phases,
         NEW q \in 0 .. MaxReplies
  PROVE  /\ Shows(c, m, p, q) \in Controllers
         /\ Shows(c, m, p, q).closed = session[c].closed
         /\ Shows(c, m, p, q).run = session[c].run
         /\ Shows(c, m, p, q).timer = session[c].timer
         /\ Shows(c, m, p, q).approver = session[c].approver
         /\ Shows(c, m, p, q).asker = session[c].asker
         /\ Shows(c, m, p, q).view = IF session[c].closed THEN session[c].view ELSE m
         /\ Shows(c, m, p, q).phase = IF session[c].closed THEN session[c].phase ELSE p
         /\ Shows(c, m, p, q).request = IF session[c].closed THEN session[c].request ELSE q
BY DEF Shows, Typed, Controllers

LEMMA RefusedType ==
  ASSUME Typed, NEW completers
  PROVE  /\ Refused(completers) \in [Calls -> Coroutines]
         /\ \A l \in Calls :
              /\ Refused(completers)[l].pc = call[l].pc
              /\ Refused(completers)[l].session = call[l].session
              /\ Refused(completers)[l].retry = call[l].retry
              /\ Refused(completers)[l].round = call[l].round
              /\ Refused(completers)[l].reply = call[l].reply
              /\ Refused(completers)[l].history = call[l].history
              /\ Refused(completers)[l].part = call[l].part
              /\ Refused(completers)[l].verdict =
                   IF l \in completers /\ call[l].verdict = "none" THEN "no" ELSE call[l].verdict
BY DEF Refused, Typed, Coroutines, Verdicts

LEMMA CancelRunType ==
  ASSUME Typed, NEW x
  PROVE  /\ CancelRun(x) \in [Replies -> Runs]
         /\ \A r \in Replies : /\ CancelRun(x)[r].state = run[r].state
                               /\ CancelRun(x)[r].outcome = run[r].outcome
                               /\ CancelRun(x)[r].risky = run[r].risky
BY DEF CancelRun, Typed, Runs

LEMMA OutcomeType ==
  ASSUME Typed, NEW r \in Replies
  PROVE  Outcome(r) \in Settled
BY DEF Outcome, Settled, Typed, Runs

LEMMA OpenSettled == Open \cup Settled \cup {"none", "interrupted"} =
  {"none", "interrupted", "queued", "streaming", "completed", "failed", "cancelled"}
BY DEF Open, Settled

-------------------------------------------------------------------------------
(* The number of the next answer. *)

LEMMA FiniteParts ==
  /\ IsFiniteSet(Replies) /\ Cardinality(Replies) = MaxReplies
  /\ IsFiniteSet(Calls)
  /\ \A S \in SUBSET Replies : IsFiniteSet(S) /\ Cardinality(S) \in Nat
  /\ \A S \in SUBSET Calls : IsFiniteSet(S) /\ Cardinality(S) \in Nat
<1>1. /\ IsFiniteSet(Replies) /\ Cardinality(Replies) = MaxReplies
      /\ IsFiniteSet(Calls)
  BY FS_Interval, Bounds DEF Replies, Calls
<1> QED
  BY <1>1, FS_Subset, FS_CardinalityType

LEMMA NextNumber ==
  ASSUME Typed, Numbers, Capacity, NEW l \in Owing
  PROVE  /\ Cardinality(Used) + 1 \in Replies
         /\ run[Cardinality(Used) + 1].state = "unused"
         /\ Used = 1 .. Cardinality(Used)
         /\ \A r \in Used : r < Cardinality(Used) + 1
<1>1. PICK n \in 0 .. MaxReplies : Used = 1 .. n
  BY DEF Numbers
<1>2. Cardinality(Used) = n /\ n \in Nat
  BY <1>1, FS_Interval, Bounds
<1>3. Owing \subseteq Calls /\ IsFiniteSet(Owing) /\ Cardinality(Owing) \in Nat
  BY FiniteParts DEF Owing
<1>4. Cardinality(Owing) >= 1
  BY <1>3, FS_EmptySet
<1>5. n + 1 <= MaxReplies
  <2> DEFINE k == Cardinality(Owing)
  <2>1. n + k <= MaxReplies
    BY <1>2 DEF Capacity
  <2>2. k \in Nat /\ k >= 1
    BY <1>3, <1>4
  <2> HIDE DEF k
  <2> QED
    BY <2>1, <2>2, <1>2, Bounds
<1>6. n + 1 \in Replies /\ n + 1 \notin Used
  BY <1>1, <1>2, <1>5, Bounds DEF Replies
<1>7. run[n + 1].state = "unused"
  BY <1>6 DEF Used
<1>8. \A r \in 1 .. n : r < n + 1
  BY <1>2
<1> QED
  BY <1>1, <1>2, <1>6, <1>7, <1>8

LEMMA NextRoundType ==
  ASSUME Typed, Numbers, Capacity, NEW l \in Owing, NEW history \in Messages,
         NEW round \in 0 .. MaxReplies, NEW asked \in BOOLEAN, NEW stored \in Messages,
         NEW before \in Seq(Ops), NextRound(l, history, round, asked, stored, before)
  PROVE  /\ call' \in [Calls -> Coroutines]
         /\ run' \in [Replies -> Runs]
         /\ store' \in Messages
         /\ queue' \in Seq(Ops)
<1> DEFINE r == Cardinality(Used) + 1
<1>1. r \in Replies /\ l \in Calls
  BY NextNumber DEF Owing
<1>2. [history EXCEPT ![r].user = asked] \in Messages /\ [stored EXCEPT ![r].user = asked] \in Messages
  BY <1>1, MessageTypes
<1>3. "savePlaceholder" \in Pcs /\ r \in 0 .. MaxReplies
  BY <1>1, Bounds DEF Pcs, Saving, Replies
<1> HIDE DEF r
<1>4. call' = [call EXCEPT ![l].pc = "savePlaceholder", ![l].retry = FALSE,
                            ![l].round = round, ![l].reply = r,
                            ![l].history = [history EXCEPT ![r].user = asked],
                            ![l].verdict = "none"]
  BY DEF NextRound, r
<1>5. call' \in [Calls -> Coroutines]
  <2> DEFINE new == [call[l] EXCEPT !.pc = "savePlaceholder", !.retry = FALSE,
                                    !.round = round, !.reply = r,
                                    !.history = [history EXCEPT ![r].user = asked],
                                    !.verdict = "none"]
  <2>1. call[l] \in Coroutines /\ call \in [Calls -> Coroutines]
    BY <1>1 DEF Typed
  <2>2. new \in Coroutines
    BY <2>1, <1>2, <1>3 DEF Coroutines, Verdicts
  <2>3. call' = [call EXCEPT ![l] = new]
    BY <2>1, <1>1, <1>4
  <2> QED
    BY <2>1, <2>2, <2>3
<1>6. run' \in [Replies -> Runs]
  BY <1>1 DEF NextRound, r, Typed, Runs
<1>7. store' \in Messages /\ queue' \in Seq(Ops)
  BY <1>1, <1>2, OpsTyped, IssueIn DEF NextRound, r
<1> QED
  BY <1>5, <1>6, <1>7

LEMMA StartsType ==
  ASSUME Typed, NEW l \in Calls, NEW c \in Sessions, NEW pc \in Pcs,
         NEW reply \in 0 .. MaxReplies, NEW history \in Messages,
         NEW part \in {"none"} \cup Parts, Starts(l, c, pc, reply, history, part)
  PROVE  call' \in [Calls -> Coroutines] /\ queue' \in Seq(Ops)
<1> DEFINE new == [NewCall EXCEPT !.pc = pc, !.session = c, !.reply = reply,
                                  !.history = history, !.part = part,
                                  !.retry = (pc = "discardResult")]
<1>1. (pc = "discardResult") \in BOOLEAN
  OBVIOUS
<1>2. new \in Coroutines
  BY <1>1, NewTyped DEF Coroutines
<1>3. call' = [call EXCEPT ![l] = new]
  BY DEF Starts
<1>4. queue' \in Seq(Ops)
  BY OpsTyped, IssueIn DEF Starts, Typed
<1> QED
  BY <1>2, <1>3, <1>4 DEF Typed

LEMMA IssuesType ==
  ASSUME Typed, NEW l \in Calls, NEW pc \in Pcs, NEW before \in Seq(Ops),
         Issues(l, pc, before)
  PROVE  call' \in [Calls -> Coroutines] /\ queue' \in Seq(Ops)
<1>1. queue' \in Seq(Ops)
  BY OpsTyped, IssueIn DEF Issues
<1>2. call' \in [Calls -> Coroutines]
  BY DEF Issues, Typed, Coroutines
<1> QED
  BY <1>1, <1>2

LEMMA GoesType ==
  ASSUME Typed, NEW l \in Calls, NEW pc \in Pcs, Goes(l, pc)
  PROVE  call' \in [Calls -> Coroutines]
BY DEF Goes, Typed, Coroutines

LEMMA ReturnsType ==
  ASSUME Typed, NEW l \in Calls, Returns(l)
  PROVE  call' \in [Calls -> Coroutines]
BY NewTyped DEF Returns, Typed

LEMMA DoneType ==
  ASSUME Typed, NEW l \in Calls, NEW pc, Done(l, pc)
  PROVE  Tail(queue) \in Seq(Ops)
BY TakeIn DEF Done, Typed

LEMMA PcTypes ==
  /\ Saving \cup Waiting \subseteq Pcs
  /\ Pcs = {"idle", "returned", "saveUser", "discard", "saveAgain", "discardResult",
            "deleteMessage", "savePlaceholder", "saveCall", "saveResult", "saveQuestion",
            "saveAnswer", "saveFinal", "saveConversation", "saveFailed", "running",
            "tailCall", "tailFinal", "tailFailed", "tool", "approve", "ask"}
BY DEF Pcs, Saving, Waiting

LEMMA CallFields ==
  ASSUME Typed, NEW l \in Calls
  PROVE  /\ call[l] \in Coroutines
         /\ call[l].pc \in Pcs /\ call[l].session \in Sessions /\ call[l].retry \in BOOLEAN
         /\ call[l].round \in 0 .. MaxReplies /\ call[l].reply \in 0 .. MaxReplies
         /\ call[l].history \in Messages /\ call[l].part \in {"none"} \cup Parts
         /\ call[l].verdict \in Verdicts
BY DEF Typed, Coroutines

LEMMA SessionFields ==
  ASSUME Typed, NEW c \in Sessions
  PROVE  /\ session[c] \in Controllers
         /\ session[c].phase \in Phases /\ session[c].loaded \in BOOLEAN
         /\ session[c].closed \in BOOLEAN /\ session[c].view \in Messages
         /\ session[c].request \in 0 .. MaxReplies /\ session[c].run \in 0 .. MaxReplies
         /\ session[c].timer \in 0 .. MaxReplies
         /\ session[c].approver \in 0 .. MaxCalls /\ session[c].asker \in 0 .. MaxCalls
BY DEF Typed, Controllers

(* A controller that is replaced by a controller. *)
LEMMA SessionType ==
  ASSUME Typed, NEW c \in Sessions, NEW new \in Controllers,
         session' = [session EXCEPT ![c] = new]
  PROVE  session' \in [Sessions -> Controllers]
BY DEF Typed

-------------------------------------------------------------------------------
(* Steps keep the types. *)

LEMMA TypedUser ==
  ASSUME IndInv, User
  PROVE  Typed'
<1> USE DEF IndInv
<1>0. current \in Sessions /\ session[current].view \in Messages /\ 0 \in 0 .. MaxReplies
  BY SessionFields, Bounds DEF Typed
<1>a. {"saveUser", "discard", "discardResult", "deleteMessage"} \subseteq Pcs
  BY PcTypes
<1>1. ASSUME NEW l \in Calls, SendText(l, current) PROVE Typed'
  BY <1>0, <1>a, <1>1, StartsType DEF SendText, Typed
<1>2. ASSUME NEW l \in Calls, NEW r \in Replies, Regenerate(l, current, r) PROVE Typed'
  <2>1. r \in 0 .. MaxReplies
    BY DEF Replies
  <2> QED
    BY <1>0, <1>a, <1>2, <2>1, StartsType DEF Regenerate, Typed
<1>3. ASSUME NEW l \in Calls, NEW r \in Replies, RetryTool(l, current, r) PROVE Typed'
  <2>1. r \in 0 .. MaxReplies
    BY DEF Replies
  <2> QED
    BY <1>0, <1>a, <1>3, <2>1, StartsType DEF RetryTool, Typed
<1>4. ASSUME NEW l \in Calls, NEW r \in Replies, NEW part \in Parts,
             DeleteMessage(l, current, r, part)
      PROVE  Typed'
  <2>1. r \in 0 .. MaxReplies
    BY DEF Replies
  <2> QED
    BY <1>0, <1>a, <1>4, <2>1, StartsType DEF DeleteMessage, Typed
<1>5. ASSUME NEW l \in 0 .. MaxCalls, NEW verdict \in {"yes", "no"}, Decides(l, verdict)
      PROVE  call' \in [Calls -> Coroutines]
  <2>1. l \in Calls
    BY <1>5, Bounds DEF Decides, Calls
  <2> QED
    BY <1>5, <2>1, CallFields, CoroutineUpdates DEF Decides, Typed, Verdicts
<1>6. ASSUME Approve(current) PROVE Typed'
  <2>1. Pending(session[current].view) \subseteq Replies
    BY DEF Pending
  <2>2. call' \in [Calls -> Coroutines]
    BY <1>5, <1>6, <1>0, SessionFields DEF Approve
  <2>3. consented' \subseteq Replies
    BY <1>6, <2>1 DEF Approve, Typed
  <2> QED
    BY <1>6, <2>2, <2>3 DEF Approve, Typed
<1>7. ASSUME Reject(current) PROVE Typed'
  BY <1>5, <1>7, <1>0, SessionFields DEF Reject, Typed
<1>8. ASSUME NEW verdict \in {"yes", "no"}, SubmitAnswer(current, verdict) PROVE Typed'
  BY <1>5, <1>8, <1>0, SessionFields DEF SubmitAnswer, Typed
<1>9. ASSUME Cancel(current) PROVE Typed'
  <2> DEFINE phase == IF session[current].run = 0 THEN session[current].phase ELSE "cancelling"
  <2>1. phase \in Phases
    BY <1>0, SessionFields DEF Phases
  <2>2. session' = [session EXCEPT ![current] = [session[current] EXCEPT !.phase = phase]]
    BY <1>9, <1>0 DEF Cancel, Typed
  <2>3. session' \in [Sessions -> Controllers]
    BY <2>1, <2>2, <1>0, SessionFields, ControllerUpdates, SessionType
  <2>4. call' \in [Calls -> Coroutines] /\ run' \in [Replies -> Runs]
    BY <1>9, RefusedType, CancelRunType DEF Cancel
  <2> QED
    BY <1>9, <2>3, <2>4 DEF Cancel, Typed
<1>10. ASSUME Close(current) PROVE Typed'
  <2> DEFINE new == [session[current] EXCEPT !.closed = TRUE, !.timer = 0,
                                             !.approver = 0, !.asker = 0]
  <2>0. new \in Controllers
    BY <1>0, ZeroTypes, SessionFields, ControllerUpdates
  <2>1. session' = [session EXCEPT ![current] = new]
    BY <1>10, <1>0 DEF Close, Typed
  <2>2. call' \in [Calls -> Coroutines] /\ run' \in [Replies -> Runs]
    BY <1>10, RefusedType, CancelRunType DEF Close
  <2>3. session' \in [Sessions -> Controllers]
    BY <2>0, <2>1 DEF Typed
  <2> QED
    BY <1>10, <2>3, <2>2 DEF Close, Typed
<1>11. ASSUME Restart(current) PROVE Typed'
  <2>1. current + 1 \in Sessions
    BY <1>0, <1>11, Bounds DEF Restart, Sessions
  <2>2. <<OpeningOp(current + 1)>> \in Seq(Ops)
    BY <2>1, OpsTyped
  <2>3. run' \in [Replies -> Runs]
    BY <1>11, NewTyped DEF Restart, Typed, Runs
  <2>4. call' \in [Calls -> Coroutines]
    BY <1>11, NewTyped DEF Restart
  <2>5. session' \in [Sessions -> Controllers]
    BY <1>11, NewTyped DEF Restart, Typed
  <2> QED
    BY <1>11, <2>1, <2>2, <2>3, <2>4, <2>5 DEF Restart, Typed
<1> QED
  BY <1>1, <1>2, <1>3, <1>4, <1>6, <1>7, <1>8, <1>9, <1>10, <1>11 DEF User, Parts

LEMMA OwingPcs ==
  ASSUME NEW l \in Calls,
         call[l].pc \in {"saveUser", "discard", "saveAgain", "discardResult", "tool",
                         "saveResult", "tailCall", "saveCall", "approve",
                         "saveQuestion", "ask", "saveAnswer"}
  PROVE  l \in Owing
BY DEF Owing

LEMMA NumberedPcs ==
  ASSUME Requests, NEW l \in Calls, call[l].pc \in Numbered
  PROVE  call[l].reply \in Replies
BY DEF Requests

LEMMA RepliesTyped == Replies \subseteq 0 .. MaxReplies /\ Sessions \subseteq Nat
BY Bounds DEF Replies, Sessions

(* What a round that follows another is counted as. *)
LEMMA RoundTypes ==
  ASSUME IndInv, NEW l \in Calls, call[l].pc \in Loop
  PROVE  /\ ~call[l].retry => call[l].round + 1 \in 0 .. MaxReplies
         /\ call[l].pc \notin {"tool", "saveResult"} => call[l].round + 1 \in 0 .. MaxReplies
<1>1. call[l].round \in Nat /\ call[l].reply \in Nat /\ call[l].reply <= MaxReplies
  BY CallFields, Bounds DEF IndInv
<1> QED
  BY <1>1, Bounds DEF IndInv, RoundsCounted, Loop

LEMMA RoundsInTurnType ==
  ASSUME NEW m
  PROVE  RoundsInTurn(m) \in 0 .. MaxReplies
<1> DEFINE S == {r \in Replies : /\ Calling(m, r)
                                 /\ \A x \in Replies : x > r => ~m[x].user}
<1>1. S \subseteq Replies
  OBVIOUS
<1> HIDE DEF S
<1>2. Cardinality(S) \in Nat /\ Cardinality(S) <= MaxReplies
  BY <1>1, FiniteParts, FS_Subset
<1>3. RoundsInTurn(m) = Cardinality(S)
  BY DEF RoundsInTurn, S
<1> QED
  BY <1>2, <1>3, Bounds

LEMMA TypedTurn ==
  ASSUME IndInv, NEW l \in Calls,
         \/ UserSaved(l) \/ Discarded(l) \/ SavedAgain(l) \/ ResultDiscarded(l)
         \/ MessageDeleted(l)
  PROVE  Typed'
<1> DEFINE c == call[l].session
           r == call[l].reply
<1> USE DEF IndInv
<1>0. /\ Typed /\ Numbers /\ Capacity
      /\ c \in Sessions /\ session[c].phase \in Phases /\ session[c].view \in Messages
      /\ session[c].request \in 0 .. MaxReplies /\ call[l].history \in Messages
      /\ store \in Messages /\ 0 \in 0 .. MaxReplies
  BY CallFields, SessionFields, ZeroTypes DEF Typed
<1>1. CASE UserSaved(l)
  <2>1. l \in Owing /\ Tail(queue) \in Seq(Ops)
    BY <1>1, OwingPcs, DoneType DEF UserSaved, Done
  <2> QED
    BY <1>0, <1>1, <2>1, NextRoundType DEF UserSaved, Typed
<1>2. CASE Discarded(l)
  <2>1. r \in Replies /\ Tail(queue) \in Seq(Ops) /\ "saveAgain" \in Pcs
    BY <1>2, NumberedPcs, DoneType, PcTypes DEF Discarded, Done, Numbered
  <2>2. call' \in [Calls -> Coroutines] /\ queue' \in Seq(Ops)
    BY <1>2, <2>1, IssuesType DEF Discarded
  <2>3. store[r].user \in BOOLEAN
    BY <1>0, <2>1 DEF Messages
  <2>4. store' \in Messages
    BY <1>2, <1>0, <2>1, <2>3, MessageTypes, WithoutType DEF Discarded
  <2> QED
    BY <1>2, <2>2, <2>4 DEF Discarded, Typed
<1>3. CASE SavedAgain(l)
  <2> DEFINE history == Without(session[c].view, From(session[c].view, r))
  <2>1. l \in Owing /\ r \in Replies /\ Tail(queue) \in Seq(Ops)
    BY <1>3, OwingPcs, NumberedPcs, DoneType DEF SavedAgain, Done, Numbered
  <2>2. history \in Messages /\ [store EXCEPT ![r].user = FALSE] \in Messages
    BY <1>0, <2>1, MessageTypes, WithoutType
  <2> HIDE DEF history
  <2>3. NextRound(l, history, 0, TRUE, [store EXCEPT ![r].user = FALSE], Tail(queue))
    BY <1>3 DEF SavedAgain, history
  <2>4. /\ call' \in [Calls -> Coroutines] /\ run' \in [Replies -> Runs]
        /\ store' \in Messages /\ queue' \in Seq(Ops)
    BY <1>0, <2>1, <2>2, <2>3, NextRoundType
  <2>5. session' \in [Sessions -> Controllers]
    BY <1>3, <1>0, <2>2, ShowsType, SessionType, Zenon DEF SavedAgain, history
  <2> QED
    BY <1>3, <2>4, <2>5 DEF SavedAgain, Typed
<1>4. CASE ResultDiscarded(l)
  <2> DEFINE Kept(messages, later) == [Without(messages, From(later, r + 1))
                                         EXCEPT ![r].result = "none"]
             history == Kept(session[c].view, session[c].view)
  <2>1. r \in Replies /\ Tail(queue) \in Seq(Ops)
    BY <1>4, NumberedPcs, DoneType, Zenon DEF ResultDiscarded, Done, Numbered
  <2>2. history \in Messages /\ Kept(store, call[l].history) \in Messages
    BY <1>0, <2>1, MessageTypes, WithoutType
  <2>3. RoundsInTurn(history) \in 0 .. MaxReplies /\ "tool" \in Pcs
    BY RoundsInTurnType, PcTypes
  <2>4. store' = Kept(store, call[l].history)
    BY <1>4, Zenon DEF ResultDiscarded
  <2>5. session' = [session EXCEPT ![c] = Shows(c, history, "requesting", session[c].request)]
    BY <1>4, Zenon DEF ResultDiscarded
  <2>6. call' = [call EXCEPT ![l].pc = "tool", ![l].history = history,
                             ![l].round = RoundsInTurn(history)]
    BY <1>4, Zenon DEF ResultDiscarded
  <2> HIDE DEF history
  <2>7. call' \in [Calls -> Coroutines]
    BY <2>2, <2>3, <2>6, CallFields, CoroutineUpdates DEF Typed
  <2>8. session' \in [Sessions -> Controllers]
    BY <1>0, <2>2, <2>5, ShowsType, SessionType, PhaseNames
  <2> QED
    BY <1>4, <2>1, <2>2, <2>4, <2>7, <2>8, Zenon DEF ResultDiscarded, Typed
<1>5. CASE MessageDeleted(l)
  <2> DEFINE Gone(messages) ==
               [messages EXCEPT ![call[l].reply][call[l].part] = Nothing[call[l].part]]
  <2>1. r \in Replies /\ Tail(queue) \in Seq(Ops) /\ call[l].part \in Parts
    BY <1>5, NumberedPcs, DoneType DEF MessageDeleted, Done, Numbered, Requests
  <2>2. Gone(store) \in Messages /\ Gone(session[c].view) \in Messages
    BY <1>0, <2>1, MessageTypes
  <2>3. store' = Gone(store)
    BY <1>5 DEF MessageDeleted
  <2>4. session' = [session EXCEPT
           ![c] = Shows(c, Gone(session[c].view), session[c].phase, session[c].request)]
    BY <1>5 DEF MessageDeleted
  <2>5. session' \in [Sessions -> Controllers]
    BY <1>0, <2>2, <2>4, ShowsType, SessionType
  <2>6. call' \in [Calls -> Coroutines]
    BY <1>5, ReturnsType DEF MessageDeleted
  <2> QED
    BY <1>5, <2>1, <2>2, <2>3, <2>5, <2>6 DEF MessageDeleted, Typed
<1> QED
  BY <1>1, <1>2, <1>3, <1>4, <1>5

LEMMA TypedRound ==
  ASSUME IndInv, NEW l \in Calls,
         \/ PlaceholderSaved(l) \/ EndsInQuestion(l) \/ EndsInCall(l) \/ Finishes(l)
         \/ TailAwaited(l) \/ FinalSaved(l) \/ ConversationSaved(l) \/ HandleSnapshot(l)
  PROVE  Typed'
<1> DEFINE c == call[l].session
           r == call[l].reply
<1> USE DEF IndInv
<1>0. /\ Typed /\ c \in Sessions /\ session[c] \in Controllers
      /\ session[c].view \in Messages /\ session[c].phase \in Phases
      /\ session[c].request \in 0 .. MaxReplies
      /\ call[l].history \in Messages /\ 0 \in 0 .. MaxReplies /\ r \in Replies
      /\ r \in 0 .. MaxReplies
  <2>1. call[l].pc \in Numbered
    BY Zenon DEF PlaceholderSaved, EndsInQuestion, EndsInCall, Finishes, TailAwaited, FinalSaved,
           ConversationSaved, HandleSnapshot, Done, Ended, Numbered, Loop
  <2> QED
    BY <2>1, NumberedPcs, RepliesTyped, CallFields, SessionFields, ZeroTypes
<1>1. CASE PlaceholderSaved(l)
  <2> DEFINE messages == [call[l].history EXCEPT ![r].status = "queued"]
  <2>1. messages \in Messages /\ [store EXCEPT ![r].status = "queued"] \in Messages
    BY <1>0, MessageTypes, OpenSettled DEF Typed
  <2>2. session' = [session EXCEPT ![c] = [Shows(c, messages, "requesting", r) EXCEPT !.run = r]]
    BY <1>1 DEF PlaceholderSaved
  <2> HIDE DEF messages
  <2>3. [Shows(c, messages, "requesting", r) EXCEPT !.run = r] \in Controllers
    BY <1>0, <2>1, ShowsType, PhaseNames, ControllerUpdates
  <2>4. session' \in [Sessions -> Controllers]
    BY <1>0, <2>2, <2>3, SessionType
  <2>5. run' \in [Replies -> Runs]
    BY <1>1, <1>0 DEF PlaceholderSaved, Typed, Runs
  <2>6. call' \in [Calls -> Coroutines] /\ Tail(queue) \in Seq(Ops)
    BY <1>1, GoesType, DoneType, PcTypes DEF PlaceholderSaved
  <2> QED
    BY <1>1, <2>1, <2>4, <2>5, <2>6 DEF PlaceholderSaved, Typed
<1>2. CASE EndsInQuestion(l)
  <2>1. call' \in [Calls -> Coroutines] /\ queue' \in Seq(Ops)
    BY <1>2, IssuesType, PcTypes DEF EndsInQuestion, Typed
  <2>2. session' = [session EXCEPT ![c] = [session[c] EXCEPT !.run = 0]]
    BY <1>2 DEF EndsInQuestion
  <2>3. session' \in [Sessions -> Controllers]
    BY <1>0, <2>2, ControllerUpdates, SessionType
  <2> QED
    BY <1>2, <2>1, <2>3 DEF EndsInQuestion, Typed
<1>3. Quiet(c) \in Controllers /\ [session[c] EXCEPT !.run = 0] \in Controllers
  BY <1>0, ControllerUpdates DEF Quiet
<1>4. CASE EndsInCall(l)
  <2>1. call' \in [Calls -> Coroutines]
    BY <1>4, GoesType, PcTypes DEF EndsInCall
  <2>2. session' \in [Sessions -> Controllers]
    BY <1>4, <1>0, <1>3, SessionType DEF EndsInCall
  <2> QED
    BY <1>4, <2>1, <2>2 DEF EndsInCall, Typed
<1>5. CASE Finishes(l)
  <2>1. call' \in [Calls -> Coroutines]
    BY <1>5, GoesType, ReturnsType, PcTypes DEF Finishes
  <2>2. \/ session' = [session EXCEPT ![c] = Quiet(c)]
        \/ session' = [session EXCEPT ![c] = [session[c] EXCEPT !.run = 0]]
    BY <1>5 DEF Finishes
  <2>3. session' \in [Sessions -> Controllers]
    BY <2>2, <1>0, <1>3, SessionType
  <2> QED
    BY <1>5, <2>1, <2>3 DEF Finishes, Typed
<1>6. CASE TailAwaited(l)
  <2>1. call' \in [Calls -> Coroutines] /\ queue' \in Seq(Ops)
    BY <1>6, IssuesType, PcTypes DEF TailAwaited, Typed
  <2> QED
    BY <1>6, <2>1 DEF TailAwaited, Typed
<1>7. CASE FinalSaved(l)
  <2>1. call' \in [Calls -> Coroutines] /\ queue' \in Seq(Ops)
    BY <1>7, IssuesType, DoneType, PcTypes DEF FinalSaved
  <2>2. store' \in Messages
    BY <1>7, <1>0, OutcomeType, MessageTypes DEF FinalSaved, Typed
  <2> QED
    BY <1>7, <2>1, <2>2 DEF FinalSaved, Typed
<1>8. CASE ConversationSaved(l)
  <2> DEFINE settled == Settle(session[c].view, r, Outcome(r))
             phase == IF Outcome(r) = "failed" THEN "failed" ELSE "ready"
  <2>1. settled \in Messages /\ phase \in Phases
    BY <1>0, OutcomeType, MessageTypes, PhaseNames
  <2>2. session' = [session EXCEPT ![c] = [Shows(c, settled, phase, 0) EXCEPT !.run = 0]]
    BY <1>8 DEF ConversationSaved
  <2> HIDE DEF settled, phase
  <2>3. session' \in [Sessions -> Controllers]
    BY <1>0, <2>1, <2>2, ShowsType, ControllerUpdates, SessionType
  <2>4. call' \in [Calls -> Coroutines] /\ Tail(queue) \in Seq(Ops)
    BY <1>8, ReturnsType, DoneType DEF ConversationSaved
  <2> QED
    BY <1>8, <2>3, <2>4 DEF ConversationSaved, Typed
<1>9. CASE HandleSnapshot(l)
  <2>1. session' = [session EXCEPT ![c] = [session[c] EXCEPT !.phase = "streaming", !.timer = r]]
    BY <1>9, <1>0 DEF HandleSnapshot, Typed
  <2>2. session' \in [Sessions -> Controllers]
    BY <1>0, <2>1, ControllerUpdates, PhaseNames, SessionType
  <2> QED
    BY <1>9, <2>2 DEF HandleSnapshot, Typed
<1> QED
  BY <1>1, <1>2, <1>4, <1>5, <1>6, <1>7, <1>8, <1>9

LEMMA TypedTool ==
  ASSUME IndInv, NEW l \in Calls,
         \/ CallSaved(l) \/ Approved(l) \/ Rejected(l)
         \/ \E result \in {"ok", "failed"} : ToolReturns(l, result)
         \/ ResultSaved(l) \/ QuestionSaved(l) \/ Answered(l) \/ AnswerSaved(l)
  PROVE  Typed'
<1> DEFINE c == call[l].session
           r == call[l].reply
<1> USE DEF IndInv
<1>0. /\ Typed /\ Numbers /\ Capacity /\ c \in Sessions /\ session[c] \in Controllers
      /\ session[c].view \in Messages /\ session[c].phase \in Phases
      /\ session[c].request \in 0 .. MaxReplies /\ call[l].round \in 0 .. MaxReplies
      /\ call[l].history \in Messages /\ 0 \in 0 .. MaxReplies /\ r \in Replies
      /\ store \in Messages /\ l \in Owing /\ l \in 0 .. MaxCalls /\ 0 \in 0 .. MaxCalls
  <2>1. call[l].pc \in Numbered
    BY Zenon DEF CallSaved, Approved, Rejected, ToolReturns, ResultSaved, QuestionSaved, Answered,
           AnswerSaved, Done, Numbered, Loop
  <2>2. l \in Owing
    BY OwingPcs, Zenon DEF CallSaved, Approved, Rejected, ToolReturns, ResultSaved, QuestionSaved,
           Answered, AnswerSaved, Done
  <2> QED
    BY <2>1, <2>2, NumberedPcs, CallFields, SessionFields, ZeroTypes, Bounds DEF Calls, Typed
<1>1. CASE CallSaved(l)
  <2> DEFINE history == [call[l].history EXCEPT ![r].status = "completed"]
             pc == IF run[r].risky THEN "approve" ELSE "tool"
  <2>1. /\ history \in Messages /\ [store EXCEPT ![r].status = "completed"] \in Messages
        /\ pc \in Pcs /\ "none" \in Verdicts
    BY <1>0, MessageTypes, OpenSettled, PcTypes DEF Verdicts
  <2>2. call' = [call EXCEPT ![l] = [call[l] EXCEPT !.history = history, !.verdict = "none",
                                                    !.pc = pc]]
    BY <1>1, <1>0, Zenon DEF CallSaved, Typed
  <2>3. \/ session' = [session EXCEPT ![c] = [Shows(c, history, "awaitingToolApproval", 0)
                                                EXCEPT !.approver = l]]
        \/ session' = [session EXCEPT ![c] = Shows(c, history, "requesting", 0)]
    BY <1>1, Zenon DEF CallSaved
  <2> HIDE DEF history, pc
  <2>4. call' \in [Calls -> Coroutines]
    BY <2>1, <2>2, CallFields, CoroutineUpdates DEF Typed
  <2>5. session' \in [Sessions -> Controllers]
    <3>1. /\ Shows(c, history, "awaitingToolApproval", 0) \in Controllers
          /\ Shows(c, history, "requesting", 0) \in Controllers
      BY <1>0, <2>1, ShowsType, PhaseNames
    <3>2. [Shows(c, history, "awaitingToolApproval", 0) EXCEPT !.approver = l] \in Controllers
      BY <1>0, <3>1, ControllerUpdates
    <3> QED
      BY <1>0, <2>3, <3>1, <3>2, SessionType
  <2>6. Tail(queue) \in Seq(Ops)
    BY <1>1, DoneType DEF CallSaved
  <2> QED
    BY <1>1, <2>1, <2>4, <2>5, <2>6 DEF CallSaved, Typed
<1>2. CASE Approved(l)
  <2>0. session' = [session EXCEPT ![c] = [Shows(c, call[l].history, "requesting", 0)
                                             EXCEPT !.approver = 0]]
    BY <1>2 DEF Approved
  <2>1. session' \in [Sessions -> Controllers]
    BY <1>0, <2>0, ShowsType, PhaseNames, ControllerUpdates, SessionType
  <2>2. call' \in [Calls -> Coroutines]
    BY <1>2, GoesType, PcTypes DEF Approved
  <2> QED
    BY <1>2, <2>1, <2>2 DEF Approved, Typed
<1>3. CASE Rejected(l)
  <2> DEFINE history == [call[l].history EXCEPT ![r].result = "rejected"]
  <2>1. history \in Messages /\ call[l].round + 1 \in 0 .. MaxReplies /\ queue \in Seq(Ops)
    BY <1>0, <1>3, MessageTypes, RoundTypes DEF Rejected, Typed, Loop
  <2>2. NextRound(l, history, call[l].round + 1, FALSE, store, queue)
    BY <1>3 DEF Rejected
  <2>3. session' = [session EXCEPT ![c] = [Shows(c, history, "requesting", 0)
                                             EXCEPT !.approver = 0]]
    BY <1>3 DEF Rejected
  <2> HIDE DEF history
  <2>4. /\ call' \in [Calls -> Coroutines] /\ run' \in [Replies -> Runs]
        /\ store' \in Messages /\ queue' \in Seq(Ops)
    BY <1>0, <2>1, <2>2, NextRoundType
  <2>5. session' \in [Sessions -> Controllers]
    BY <1>0, <2>1, <2>3, ShowsType, PhaseNames, ControllerUpdates, SessionType
  <2> QED
    BY <1>3, <2>4, <2>5 DEF Rejected, Typed
<1>4. ASSUME NEW result \in {"ok", "failed"}, ToolReturns(l, result) PROVE Typed'
  <2>1. call' = [call EXCEPT ![l] = [call[l] EXCEPT !.pc = "saveResult", !.verdict = result]]
    BY <1>4, <1>0 DEF ToolReturns, Typed
  <2>2. "saveResult" \in Pcs /\ result \in Verdicts
    BY PcTypes DEF Verdicts
  <2>3. call' \in [Calls -> Coroutines]
    BY <2>1, <2>2, CallFields, CoroutineUpdates DEF Typed
  <2>4. queue' \in Seq(Ops)
    BY <1>4, IssueIn, OpsTyped DEF ToolReturns, Typed
  <2> QED
    BY <1>4, <2>3, <2>4 DEF ToolReturns, Typed
<1>5. CASE ResultSaved(l)
  <2> DEFINE verdict == call[l].verdict
             history == [call[l].history EXCEPT ![r].result = verdict]
             shown == [session[c].view EXCEPT ![r].result = verdict]
             stored == [store EXCEPT ![r].result = verdict]
             round == call[l].round + (IF call[l].retry THEN 0 ELSE 1)
  <2>1. verdict \in {"ok", "failed"} /\ call[l].pc \in Loop
    BY <1>5 DEF ResultSaved, Done, Requests, Loop
  <2>2. history \in Messages /\ shown \in Messages /\ stored \in Messages
    BY <2>1, <1>0, MessageTypes
  <2>3. round \in 0 .. MaxReplies
    BY <1>0, <2>1, RoundTypes, CallFields, Bounds
  <2>4. Tail(queue) \in Seq(Ops)
    BY <1>5, DoneType DEF ResultSaved
  <2>5. NextRound(l, history, round, FALSE, stored, Tail(queue))
    BY <1>5, Zenon DEF ResultSaved
  <2>6. \/ session' = [session EXCEPT ![c] = Shows(c, shown, "requesting", session[c].request)]
        \/ session' = [session EXCEPT ![c] = Shows(c, history, "requesting", 0)]
    BY <1>5, Zenon DEF ResultSaved
  <2> HIDE DEF history, shown, stored, round
  <2>7. /\ call' \in [Calls -> Coroutines] /\ run' \in [Replies -> Runs]
        /\ store' \in Messages /\ queue' \in Seq(Ops)
    BY <1>0, <2>2, <2>3, <2>4, <2>5, NextRoundType
  <2>8. session' \in [Sessions -> Controllers]
    BY <1>0, <2>2, <2>6, ShowsType, PhaseNames, SessionType
  <2> QED
    BY <1>5, <2>7, <2>8 DEF ResultSaved, Typed
<1>6. CASE QuestionSaved(l)
  <2> DEFINE history == Settle(session[c].view, r, "completed")
  <2>1. /\ history \in Messages /\ [store EXCEPT ![r].status = "completed"] \in Messages
        /\ "ask" \in Pcs /\ "none" \in Verdicts
    BY <1>0, MessageTypes, OpenSettled, PcTypes DEF Verdicts
  <2>2. call' = [call EXCEPT ![l] = [call[l] EXCEPT !.pc = "ask", !.history = history,
                                                    !.verdict = "none"]]
    BY <1>6, <1>0 DEF QuestionSaved, Typed
  <2>3. session' = [session EXCEPT ![c] = [Shows(c, history, "awaitingUserAnswer", 0)
                                             EXCEPT !.asker = l]]
    BY <1>6 DEF QuestionSaved
  <2> HIDE DEF history
  <2>4. call' \in [Calls -> Coroutines]
    BY <2>1, <2>2, CallFields, CoroutineUpdates DEF Typed
  <2>5. session' \in [Sessions -> Controllers]
    BY <1>0, <2>1, <2>3, ShowsType, PhaseNames, ControllerUpdates, SessionType
  <2>6. Tail(queue) \in Seq(Ops)
    BY <1>6, DoneType DEF QuestionSaved
  <2> QED
    BY <1>6, <2>1, <2>4, <2>5, <2>6 DEF QuestionSaved, Typed
<1>7. CASE Answered(l)
  <2>1. session' = [session EXCEPT ![c] = [session[c] EXCEPT !.asker = 0]]
    BY <1>7 DEF Answered
  <2>2. session' \in [Sessions -> Controllers]
    BY <1>0, <2>1, ControllerUpdates, SessionType
  <2>3. call' \in [Calls -> Coroutines] /\ queue' \in Seq(Ops)
    BY <1>7, IssuesType, ReturnsType, PcTypes DEF Answered, Typed
  <2> QED
    BY <1>7, <2>2, <2>3 DEF Answered, Typed
<1>8. CASE AnswerSaved(l)
  <2>1. call[l].round + 1 \in 0 .. MaxReplies /\ Tail(queue) \in Seq(Ops)
    BY <1>8, RoundTypes, DoneType DEF AnswerSaved, Done, Loop
  <2>2. /\ call' \in [Calls -> Coroutines] /\ run' \in [Replies -> Runs]
        /\ store' \in Messages /\ queue' \in Seq(Ops)
    BY <1>0, <1>8, <2>1, NextRoundType DEF AnswerSaved
  <2>3. session' \in [Sessions -> Controllers]
    BY <1>8, <1>0, ShowsType, PhaseNames, SessionType DEF AnswerSaved
  <2> QED
    BY <1>8, <2>2, <2>3 DEF AnswerSaved, Typed
<1> QED
  BY <1>1, <1>2, <1>3, <1>4, <1>5, <1>6, <1>7, <1>8

(* A set of answers has a last one. *)
LEMMA Greatest ==
  ASSUME NEW N \in Nat, NEW S, S \subseteq 1 .. N, S # {}
  PROVE  \E x \in S : \A y \in S : y <= x
<1> DEFINE T == {N - x : x \in S}
           R == {ss \in Nat \X Nat : ss[1] < ss[2]}
<1>0. \A x \in S : x \in Nat /\ x <= N /\ N - x \in Nat
  OBVIOUS
<1>1. T \subseteq Nat /\ T # {}
  BY <1>0
<1>2. IsWellFoundedOn(R, Nat)
  BY NatLessThanWellFounded DEF OpToRel
<1>3. PICK m \in T : \A y \in T : ~ (<<y, m>> \in R)
  <2> HIDE DEF R, T
  <2> QED
    BY <1>1, <1>2, WFMin
<1>4. PICK x \in S : m = N - x
  OBVIOUS
<1>5. ASSUME NEW y \in S PROVE y <= x
  <2>1. N - y \in T /\ N - y \in Nat /\ N - x \in Nat
    BY <1>0
  <2>2. ~ (N - y < N - x)
    BY <2>1, <1>3, <1>4
  <2> QED
    BY <2>1, <2>2, <1>0
<1> QED
  BY <1>5

LEMMA LastOf ==
  ASSUME NEW S \in SUBSET Replies, S # {}
  PROVE  Last(S) \in S /\ \A x \in S : x <= Last(S)
<1>1. \E r \in S : \A x \in S : x <= r
  BY Greatest, Bounds DEF Replies
<1> QED
  BY <1>1 DEF Last

LEMMA TypedFailure ==
  ASSUME IndInv, NEW l \in Calls,
         ThrowsToCaller(l) \/ LoopFails(l) \/ Recovers(l) \/ FailureSaved(l)
  PROVE  Typed'
<1> DEFINE c == call[l].session
           r == call[l].reply
<1> USE DEF IndInv
<1>0. /\ Typed /\ c \in Sessions /\ session[c] \in Controllers
      /\ session[c].view \in Messages /\ call[l].history \in Messages
      /\ 0 \in 0 .. MaxReplies /\ 0 \in 0 .. MaxCalls
  BY CallFields, SessionFields, ZeroTypes
<1>1. ASSUME Throws(l) PROVE failures' \in 0 .. MaxFailures /\ Tail(queue) \in Seq(Ops)
  BY <1>1, Bounds, DoneType DEF Throws, Typed
<1>2. CASE ThrowsToCaller(l)
  BY <1>1, <1>2, ReturnsType DEF ThrowsToCaller, Typed
<1>3. CASE LoopFails(l)
  <2> DEFINE new == [Quiet(c) EXCEPT !.approver = 0, !.asker = 0]
  <2>1. new \in Controllers
    BY <1>0, ControllerUpdates DEF Quiet
  <2>2. session' = [session EXCEPT ![c] = new]
    BY <1>3 DEF LoopFails
  <2> HIDE DEF new
  <2>3. session' \in [Sessions -> Controllers]
    BY <1>0, <2>1, <2>2, SessionType
  <2>4. run' \in [Replies -> Runs]
    <3>1. run' = run \/ run' = [run EXCEPT ![r] = NewRun]
      BY <1>3 DEF LoopFails
    <3> QED
      BY <3>1, NewTyped DEF Typed
  <2>5. call' \in [Calls -> Coroutines]
    <3>1. Refused(Completers(c)) \in [Calls -> Coroutines]
      BY RefusedType
    <3>2. "tailFailed" \in Pcs
      BY PcTypes
    <3>3. call' = [Refused(Completers(c)) EXCEPT
                     ![l] = [Refused(Completers(c))[l] EXCEPT !.pc = "tailFailed"]]
      BY <1>3 DEF LoopFails
    <3> QED
      BY <3>1, <3>2, <3>3, CoroutineUpdates
  <2> QED
    BY <1>1, <1>3, <2>3, <2>4, <2>5 DEF LoopFails, Typed
<1>4. CASE Recovers(l)
  <2> DEFINE view == session[c].view
             x == Last(Unsettled(view))
  <2>1. CASE Unsettled(view) = {}
    <3>1. session' = [session EXCEPT ![c] = Shows(c, view, "failed", 0)] /\ Returns(l)
          /\ UNCHANGED queue
      BY <1>4, <2>1 DEF Recovers
    <3>2. session' \in [Sessions -> Controllers] /\ call' \in [Calls -> Coroutines]
      BY <1>0, <3>1, ShowsType, PhaseNames, SessionType, ReturnsType
    <3> QED
      BY <1>4, <3>1, <3>2 DEF Recovers, Typed
  <2>2. CASE Unsettled(view) # {}
    <3>1. x \in Replies /\ x \in 0 .. MaxReplies
      BY <2>2, LastOf, RepliesTyped DEF Unsettled
    <3>2. [view EXCEPT ![x].status = "failed"] \in Messages /\ "saveFailed" \in Pcs
      BY <1>0, <3>1, MessageTypes, OpenSettled, PcTypes
    <3>3. call' = [call EXCEPT ![l] = [call[l] EXCEPT !.pc = "saveFailed", !.reply = x,
                                         !.history = [view EXCEPT ![x].status = "failed"]]]
      BY <1>4, <1>0, <2>2, Zenon DEF Recovers, Typed
    <3>4. queue' = Append(queue, CallOp(l)) /\ UNCHANGED session
      BY <1>4, <2>2, Zenon DEF Recovers
    <3>5. call' \in [Calls -> Coroutines]
      BY <3>1, <3>2, <3>3, CallFields, CoroutineUpdates DEF Typed
    <3>6. queue' \in Seq(Ops)
      BY <3>4, IssueIn, OpsTyped DEF Typed
    <3> QED
      BY <1>4, <3>4, <3>5, <3>6 DEF Recovers, Typed
  <2> QED
    BY <2>1, <2>2
<1>5. CASE FailureSaved(l)
  <2>1. r \in Replies /\ Tail(queue) \in Seq(Ops)
    BY <1>5, NumberedPcs, DoneType DEF FailureSaved, Done, Numbered
  <2>2. store' \in Messages
    <3>1. [store EXCEPT ![r].status = "failed"] \in Messages
      BY <2>1, MessageTypes, OpenSettled DEF Typed
    <3> QED
      BY <1>5, <3>1 DEF FailureSaved, Typed
  <2>3. session' \in [Sessions -> Controllers] /\ call' \in [Calls -> Coroutines]
    BY <1>5, <1>0, ShowsType, PhaseNames, SessionType, ReturnsType DEF FailureSaved
  <2> QED
    BY <1>5, <2>1, <2>2, <2>3 DEF FailureSaved, Typed
<1> QED
  BY <1>2, <1>3, <1>4, <1>5

LEMMA TypedRest ==
  ASSUME IndInv,
         \/ \E c \in Sessions : Checkpoint(c) \/ Attach(c) \/ Load(c) \/ Repair(c)
         \/ CheckpointSaved \/ RunEndsSomehow
  PROVE  Typed'
<1> USE DEF IndInv
<1>1. ASSUME NEW c \in Sessions, Checkpoint(c) PROVE Typed'
  <2>1. session' = [session EXCEPT ![c] = [session[c] EXCEPT !.timer = 0]]
    BY <1>1 DEF Checkpoint
  <2>2. session' \in [Sessions -> Controllers]
    BY <2>1, SessionFields, ZeroTypes, ControllerUpdates, SessionType
  <2>3. session[c].timer \in Replies
    BY <1>1, SessionFields, Bounds DEF Checkpoint, Replies
  <2>4. queue' \in Seq(Ops)
    BY <1>1, <2>3, IssueIn, OpsTyped DEF Checkpoint, Typed
  <2> QED
    BY <1>1, <2>2, <2>4 DEF Checkpoint, Typed
<1>2. ASSUME NEW c \in Sessions, Attach(c) PROVE Typed'
  <2>1. c + 1 \in Sessions
    BY <1>2, Bounds DEF Attach, Attached, Sessions
  <2>2. queue' \in Seq(Ops)
    BY <1>2, <2>1, IssueIn, OpsTyped DEF Attach, Typed
  <2> QED
    BY <1>2, <2>1, <2>2 DEF Attach, Typed
<1>3. ASSUME NEW c \in Sessions, Load(c) PROVE Typed'
  <2> DEFINE phase == session'[c].phase
             open == {r \in Replies : store[r].status \in Open}
  <2>1. PICK p \in Phases : session' = [session EXCEPT ![c] =
                [session[c] EXCEPT !.loaded = TRUE, !.view = store, !.phase = p]]
    <3>1. session' = [session EXCEPT ![c] = [session[c] EXCEPT !.loaded = TRUE, !.view = store,
              !.phase = IF open = {} THEN "ready" ELSE session[c].phase]]
      BY <1>3, Zenon DEF Load, Typed
    <3>2. (IF open = {} THEN "ready" ELSE session[c].phase) \in Phases
      BY PhaseNames, SessionFields
    <3> QED
      BY <3>1, <3>2, Zenon
  <2>2. session' \in [Sessions -> Controllers]
    BY <2>1, SessionFields, ControllerUpdates, SessionType DEF Typed
  <2>3. Tail(queue) \in Seq(Ops)
    BY <1>3, TakeIn, Zenon DEF Load, Opening, Typed
  <2>4. queue' \in Seq(Ops)
    <3>1. queue' = Tail(queue) \/ queue' = Append(Tail(queue), OpeningOp(c))
      BY <1>3, Zenon DEF Load
    <3> QED
      BY <3>1, <2>3, IssueIn, OpsTyped
  <2> QED
    BY <1>3, <2>2, <2>4, Zenon DEF Load, Typed
<1>4. ASSUME NEW c \in Sessions, Repair(c) PROVE Typed'
  <2> DEFINE Repaired(messages) ==
               [r \in Replies |-> IF session[c].view[r].status \in Open
                                  THEN [messages[r] EXCEPT !.status = "interrupted"]
                                  ELSE messages[r]]
  <2>1. ASSUME NEW m \in Messages PROVE Repaired(m) \in Messages
    BY DEF Messages
  <2>2. session' = [session EXCEPT ![c] = [session[c] EXCEPT !.view = Repaired(session[c].view),
                                                             !.phase = "ready"]]
    BY <1>4, Zenon DEF Repair, Typed
  <2>3. store' = Repaired(store)
    BY <1>4 DEF Repair
  <2>4. store' \in Messages /\ Repaired(session[c].view) \in Messages
    BY <2>1, <2>3, SessionFields DEF Typed
  <2> HIDE DEF Repaired
  <2>5. session' \in [Sessions -> Controllers]
    BY <2>2, <2>4, SessionFields, ControllerUpdates, PhaseNames, SessionType, Zenon
  <2>6. Tail(queue) \in Seq(Ops)
    BY <1>4, TakeIn, Zenon DEF Repair, Opening, Typed
  <2> QED
    BY <1>4, <2>4, <2>5, <2>6, Zenon DEF Repair, Typed
<1>5. CASE CheckpointSaved
  <2>1. Tail(queue) \in Seq(Ops) /\ Head(queue) \in Ops
    BY <1>5, TakeIn DEF CheckpointSaved, Typed
  <2>2. Head(queue).reply \in Replies
    BY <1>5, <2>1, OpsDiffer DEF CheckpointSaved, Ops
  <2>3. store' \in Messages
    BY <1>5, <2>2, MessageTypes, OpenSettled DEF CheckpointSaved, Typed
  <2> QED
    BY <1>5, <2>1, <2>3 DEF CheckpointSaved, Typed
<1>6. ASSUME NEW r \in Replies, NEW risky \in BOOLEAN, NEW outcome \in Outcomes,
             RunEnds(r, outcome, risky)
      PROVE  Typed'
  <2> DEFINE new == [run[r] EXCEPT !.state = "ended", !.outcome = outcome, !.risky = risky,
                                   !.cancelled = FALSE]
  <2>0. run' = [run EXCEPT ![r] = new]
    BY <1>6 DEF RunEnds, Typed
  <2>1. new \in Runs
    BY DEF Typed, Runs
  <2>2. run' \in [Replies -> Runs]
    BY <2>0, <2>1 DEF Typed
  <2> QED
    BY <1>6, <2>2 DEF RunEnds, Typed
<1> QED
  BY <1>1, <1>2, <1>3, <1>4, <1>5, <1>6 DEF RunEndsSomehow, Outcomes

LEMMA TypedStep == ASSUME IndInv, [Next]_vars PROVE Typed'
<1>1. CASE UNCHANGED vars
  BY <1>1 DEF vars, IndInv, Typed
<1> QED
  BY <1>1, TypedUser, TypedTurn, TypedRound, TypedTool, TypedFailure, TypedRest
     DEF Next, Coroutine

-------------------------------------------------------------------------------
(* What every step of a call has in common. *)

(* The call l has issued an operation, or the one it awaited has taken effect. *)
Awaits(l) ==
  \/ queue' = queue /\ call[l].pc \notin Saving /\ call'[l].pc \notin Saving
  \/ /\ queue' = Append(queue, CallOp(l))
     /\ call[l].pc \notin Saving /\ call'[l].pc \in Saving
  \/ /\ queue # <<>> /\ Head(queue) = CallOp(l) /\ queue' = Tail(queue)
     /\ call[l].pc \in Saving /\ call'[l].pc \notin Saving
  \/ /\ queue # <<>> /\ Head(queue) = CallOp(l) /\ queue' = Append(Tail(queue), CallOp(l))
     /\ call[l].pc \in Saving /\ call'[l].pc \in Saving

(* It has changed nothing of the other calls but a verdict, *)
LeavesCalls(l) ==
  \A k \in Calls : k # l =>
     /\ call'[k].pc = call[k].pc /\ call'[k].session = call[k].session
     /\ call'[k].retry = call[k].retry /\ call'[k].round = call[k].round
     /\ call'[k].reply = call[k].reply /\ call'[k].history = call[k].history
     /\ call'[k].part = call[k].part
     /\ \/ call'[k].verdict = call[k].verdict
        \/ call[k].verdict = "none" /\ call'[k].verdict = "no"

(* and only its own controller, which it neither opens nor closes. *)
LeavesSessions(l) ==
  /\ current' = current
  /\ \A d \in Sessions : d # call[l].session => session'[d] = session[d]
  /\ session'[call[l].session].closed = session[call[l].session].closed
  /\ session'[call[l].session].phase # "loading"

CallStep(l) ==
  /\ Active(l) /\ Awaits(l) /\ LeavesCalls(l) /\ LeavesSessions(l)
  /\ call'[l].pc # "idle"
  /\ call'[l].pc # "returned" => call'[l].session = call[l].session

(* The number r is reserved for the answer that call l now asks for. *)
Reserves(l, r, history, round, asked, stored, before) ==
  /\ run[r].state = "unused" /\ Used = 1 .. r - 1
  /\ call' = [call EXCEPT ![l] =
       [call[l] EXCEPT !.pc = "savePlaceholder", !.retry = FALSE, !.round = round,
                       !.reply = r, !.history = [history EXCEPT ![r].user = asked],
                       !.verdict = "none"]]
  /\ run' = [run EXCEPT ![r] = [run[r] EXCEPT !.state = "reserved"]]
  /\ store' = [stored EXCEPT ![r].user = asked]
  /\ queue' = Append(before, CallOp(l))

LEMMA NextReply ==
  ASSUME Typed, Numbers, Capacity, NEW l \in Owing, NEW history, NEW round, NEW asked,
         NEW stored, NEW before, NextRound(l, history, round, asked, stored, before)
  PROVE  \E r \in Replies : Reserves(l, r, history, round, asked, stored, before)
<1> DEFINE r == Cardinality(Used) + 1
<1>1. r \in Replies /\ run[r].state = "unused" /\ Used = 1 .. Cardinality(Used)
  BY NextNumber
<1>2. l \in Calls
  BY DEF Owing
<1>3. Cardinality(Used) \in Nat
  BY FiniteParts DEF Used
<1>4. Used = 1 .. r - 1
  BY <1>1, <1>3
<1>5. /\ call' = [call EXCEPT ![l].pc = "savePlaceholder", ![l].retry = FALSE,
                            ![l].round = round, ![l].reply = r,
                            ![l].history = [history EXCEPT ![r].user = asked],
                            ![l].verdict = "none"]
      /\ run' = [run EXCEPT ![r].state = "reserved"]
      /\ store' = [stored EXCEPT ![r].user = asked]
      /\ queue' = Append(before, CallOp(l))
  BY DEF NextRound
<1> HIDE DEF r
<1>6. call' = [call EXCEPT ![l] =
                [call[l] EXCEPT !.pc = "savePlaceholder", !.retry = FALSE, !.round = round,
                                !.reply = r, !.history = [history EXCEPT ![r].user = asked],
                                !.verdict = "none"]]
  BY <1>2, <1>5 DEF Typed
<1>7. Reserves(l, r, history, round, asked, stored, before)
  BY <1>1, <1>4, <1>5, <1>6 DEF Reserves, Typed
<1> QED
  BY <1>1, <1>7

(* The fields of a call whose next round begins, and what it leaves alone. *)
LEMMA NextRoundStep ==
  ASSUME IndInv, NEW l \in Owing, NEW history, NEW round, NEW asked,
         NEW stored, NEW before, NextRound(l, history, round, asked, stored, before)
  PROVE  /\ call'[l].pc = "savePlaceholder" /\ call'[l].session = call[l].session
         /\ call'[l].pc \in Saving
         /\ LeavesCalls(l)
         /\ queue' = Append(before, CallOp(l))
<1>1. PICK r \in Replies : Reserves(l, r, history, round, asked, stored, before)
  BY NextReply DEF IndInv
<1>2. l \in Calls /\ call[l] \in Coroutines
  BY CallFields DEF Owing, IndInv
<1> DEFINE new == [call[l] EXCEPT !.pc = "savePlaceholder", !.retry = FALSE, !.round = round,
                                  !.reply = r, !.history = [history EXCEPT ![r].user = asked],
                                  !.verdict = "none"]
<1>a. call'[l] = new
  BY <1>1, <1>2 DEF IndInv, Typed, Reserves
<1>b. new.pc = "savePlaceholder" /\ new.session = call[l].session
  BY <1>2 DEF Coroutines
<1>3. call'[l].pc = "savePlaceholder" /\ call'[l].session = call[l].session
  BY <1>a, <1>b
<1>4. LeavesCalls(l)
  BY <1>1 DEF LeavesCalls, IndInv, Typed, Reserves
<1>5. "savePlaceholder" \in Saving
  BY DEF Saving
<1> QED
  BY <1>3, <1>4, <1>5 DEF NextRound

(* What a call does to its own controller. *)
LEMMA OwnSession ==
  ASSUME IndInv, NEW l \in Calls, Active(l), NEW new,
         session' = [session EXCEPT ![call[l].session] = new], current' = current,
         new.closed = session[call[l].session].closed, new.phase # "loading"
  PROVE  LeavesSessions(l)
BY CallFields DEF LeavesSessions, IndInv, Typed

LEMMA OwnPhase ==
  ASSUME IndInv, NEW l \in Calls, Active(l)
  PROVE  /\ call[l].session \in Sessions
         /\ session[call[l].session] \in Controllers
         /\ session[call[l].session].phase # "loading"
         /\ UNCHANGED <<current, session>> => LeavesSessions(l)
BY CallFields, SessionFields DEF LeavesSessions, IndInv, Attached

LEMMA OwnShown ==
  ASSUME IndInv, NEW l \in Calls, Active(l), NEW m, NEW p, p # "loading", NEW q, NEW x,
         current' = current,
         LET c == call[l].session
             s == Shows(c, m, p, q)
         IN  \/ session' = [session EXCEPT ![c] = s]
             \/ session' = [session EXCEPT ![c] = [s EXCEPT !.run = x]]
             \/ session' = [session EXCEPT ![c] = [s EXCEPT !.approver = x]]
             \/ session' = [session EXCEPT ![c] = [s EXCEPT !.asker = x]]
  PROVE  LeavesSessions(l)
<1> DEFINE c == call[l].session
           s == Shows(c, m, p, q)
<1>1. /\ s.closed = session[c].closed /\ s.phase # "loading"
      /\ DOMAIN s = DOMAIN session[c]
  BY OwnPhase DEF Shows, Controllers
<1>2. /\ [s EXCEPT !.run = x].closed = s.closed /\ [s EXCEPT !.run = x].phase = s.phase
      /\ [s EXCEPT !.approver = x].closed = s.closed /\ [s EXCEPT !.approver = x].phase = s.phase
      /\ [s EXCEPT !.asker = x].closed = s.closed /\ [s EXCEPT !.asker = x].phase = s.phase
  <2>1. session[c] \in Controllers
    BY OwnPhase
  <2>2. DOMAIN s = {"phase", "loaded", "closed", "view", "request", "run", "timer",
                    "approver", "asker"}
    BY <1>1, <2>1 DEF Controllers
  <2> QED
    BY <2>2
<1> HIDE DEF s
<1>3. \/ session' = [session EXCEPT ![c] = s]
      \/ session' = [session EXCEPT ![c] = [s EXCEPT !.run = x]]
      \/ session' = [session EXCEPT ![c] = [s EXCEPT !.approver = x]]
      \/ session' = [session EXCEPT ![c] = [s EXCEPT !.asker = x]]
  BY DEF s
<1>4. CASE session' = [session EXCEPT ![c] = s]
  BY <1>1, <1>4, OwnSession
<1>5. CASE session' = [session EXCEPT ![c] = [s EXCEPT !.run = x]]
  BY <1>1, <1>2, <1>5, OwnSession
<1>6. CASE session' = [session EXCEPT ![c] = [s EXCEPT !.approver = x]]
  BY <1>1, <1>2, <1>6, OwnSession
<1>7. CASE session' = [session EXCEPT ![c] = [s EXCEPT !.asker = x]]
  BY <1>1, <1>2, <1>7, OwnSession
<1> QED
  BY <1>3, <1>4, <1>5, <1>6, <1>7

LEMMA PcSteps ==
  ASSUME IndInv, NEW l \in Calls, NEW pc
  PROVE  /\ Goes(l, pc) => call'[l].pc = pc /\ call'[l].session = call[l].session
                             /\ LeavesCalls(l)
         /\ \A before : Issues(l, pc, before) =>
               /\ call'[l].pc = pc /\ call'[l].session = call[l].session
               /\ LeavesCalls(l) /\ queue' = Append(before, CallOp(l))
         /\ Returns(l) => call'[l].pc = "returned" /\ LeavesCalls(l)
<1>1. call[l] \in Coroutines /\ call \in [Calls -> Coroutines]
  BY CallFields DEF IndInv, Typed
<1>2. [call[l] EXCEPT !.pc = pc].pc = pc /\ [call[l] EXCEPT !.pc = pc].session = call[l].session
  BY <1>1 DEF Coroutines
<1>3. ASSUME Goes(l, pc)
      PROVE  call'[l].pc = pc /\ call'[l].session = call[l].session /\ LeavesCalls(l)
  BY <1>1, <1>2, <1>3 DEF Goes, LeavesCalls
<1>4. ASSUME NEW before, Issues(l, pc, before)
      PROVE  /\ call'[l].pc = pc /\ call'[l].session = call[l].session
             /\ LeavesCalls(l) /\ queue' = Append(before, CallOp(l))
  BY <1>1, <1>2, <1>4 DEF Issues, LeavesCalls
<1>5. ASSUME Returns(l) PROVE call'[l].pc = "returned" /\ LeavesCalls(l)
  <2>1. [NewCall EXCEPT !.pc = "returned"].pc = "returned"
    BY DEF NewCall
  <2> QED
    BY <1>1, <1>5, <2>1 DEF Returns, LeavesCalls
<1> QED
  BY <1>3, <1>4, <1>5

LEMMA CallStepTurn ==
  ASSUME IndInv, NEW l \in Calls,
         \/ UserSaved(l) \/ Discarded(l) \/ SavedAgain(l) \/ ResultDiscarded(l)
         \/ MessageDeleted(l)
  PROVE  CallStep(l)
<1> DEFINE c == call[l].session
<1>0. Active(l) /\ call[l].pc \in Saving
  BY Zenon DEF UserSaved, Discarded, SavedAgain, ResultDiscarded, MessageDeleted, Done, Active, Saving
<1>a. /\ c \in Sessions /\ session[c].phase # "loading" /\ Typed
      /\ (UNCHANGED <<current, session>> => LeavesSessions(l))
  BY <1>0, OwnPhase DEF IndInv
<1>1. CASE UserSaved(l)
  <2>1. l \in Owing
    BY <1>1, OwingPcs DEF UserSaved, Done
  <2>2. /\ call'[l].pc = "savePlaceholder" /\ call'[l].session = c /\ LeavesCalls(l)
        /\ call'[l].pc \in Saving /\ queue' = Append(Tail(queue), CallOp(l))
    BY <1>1, <2>1, NextRoundStep DEF UserSaved
  <2> QED
    BY <1>0, <1>1, <1>a, <2>2 DEF UserSaved, Done, CallStep, Awaits
<1>2. CASE Discarded(l)
  <2>1. /\ call'[l].pc = "saveAgain" /\ call'[l].session = c /\ LeavesCalls(l)
        /\ queue' = Append(Tail(queue), CallOp(l))
    BY <1>2, PcSteps DEF Discarded
  <2> QED
    BY <1>0, <1>2, <1>a, <2>1 DEF Discarded, Done, CallStep, Awaits, Saving
<1>3. CASE SavedAgain(l)
  <2> DEFINE history == Without(session[c].view, From(session[c].view, call[l].reply))
  <2>1. l \in Owing
    BY <1>3, OwingPcs DEF SavedAgain, Done
  <2>2. /\ call'[l].pc = "savePlaceholder" /\ call'[l].session = c /\ LeavesCalls(l)
        /\ call'[l].pc \in Saving /\ queue' = Append(Tail(queue), CallOp(l))
    BY <1>3, <2>1, NextRoundStep DEF SavedAgain
  <2>3. /\ session' = [session EXCEPT ![c] = Shows(c, history, session[c].phase, session[c].request)]
        /\ current' = current
    BY <1>3 DEF SavedAgain
  <2> HIDE DEF history
  <2>4. LeavesSessions(l)
    BY <1>0, <1>a, <2>3, OwnShown, Zenon
  <2> QED
    BY <1>0, <1>3, <2>2, <2>4 DEF SavedAgain, Done, CallStep, Awaits
<1>4. CASE ResultDiscarded(l)
  <2> DEFINE Kept(messages, later) == [Without(messages, From(later, call[l].reply + 1))
                                         EXCEPT ![call[l].reply].result = "none"]
             history == Kept(session[c].view, session[c].view)
             round == RoundsInTurn(history)
  <2>1. /\ session' = [session EXCEPT ![c] = Shows(c, history, "requesting", session[c].request)]
        /\ current' = current
        /\ call' = [call EXCEPT ![l].pc = "tool", ![l].history = history, ![l].round = round]
        /\ queue' = Tail(queue)
    BY <1>4, Zenon DEF ResultDiscarded
  <2> HIDE DEF history, round
  <2>2. call'[l].pc = "tool" /\ call'[l].session = c /\ LeavesCalls(l)
    <3>1. call' = [call EXCEPT ![l] = [call[l] EXCEPT !.pc = "tool", !.history = history,
                                                      !.round = round]]
      BY <2>1, <1>a DEF Typed
    <3>2. [call[l] EXCEPT !.pc = "tool", !.history = history, !.round = round].pc = "tool"
      BY CallFields, <1>a DEF Coroutines
    <3>3. [call[l] EXCEPT !.pc = "tool", !.history = history, !.round = round].session = c
      BY CallFields, <1>a DEF Coroutines
    <3> QED
      BY <3>1, <3>2, <3>3, <1>a DEF Typed, LeavesCalls
  <2>3. LeavesSessions(l)
    BY <1>0, <1>a, <2>1, OwnShown
  <2> QED
    BY <1>0, <1>4, <2>1, <2>2, <2>3, Zenon DEF ResultDiscarded, Done, CallStep, Awaits, Saving
<1>5. CASE MessageDeleted(l)
  <2> DEFINE gone == [session[c].view EXCEPT
                        ![call[l].reply][call[l].part] = Nothing[call[l].part]]
  <2>1. /\ session' = [session EXCEPT ![c] = Shows(c, gone, session[c].phase, session[c].request)]
        /\ current' = current
    BY <1>5 DEF MessageDeleted
  <2> HIDE DEF gone
  <2>2. LeavesSessions(l)
    BY <1>0, <1>a, <2>1, OwnShown, Zenon
  <2>3. call'[l].pc = "returned" /\ LeavesCalls(l)
    BY <1>5, PcSteps DEF MessageDeleted
  <2> QED
    BY <1>0, <1>5, <2>2, <2>3 DEF MessageDeleted, Done, CallStep, Awaits, Saving
<1> QED
  BY <1>1, <1>2, <1>3, <1>4, <1>5

LEMMA CallStepRound ==
  ASSUME IndInv, NEW l \in Calls,
         \/ PlaceholderSaved(l) \/ EndsInQuestion(l) \/ EndsInCall(l) \/ Finishes(l)
         \/ TailAwaited(l) \/ FinalSaved(l) \/ ConversationSaved(l) \/ HandleSnapshot(l)
  PROVE  CallStep(l)
<1> DEFINE c == call[l].session
           r == call[l].reply
<1>0. Active(l)
  BY Zenon DEF PlaceholderSaved, EndsInQuestion, EndsInCall, Finishes, TailAwaited, FinalSaved,
         ConversationSaved, HandleSnapshot, Done, Ended, Active
<1>a. /\ c \in Sessions /\ session[c] \in Controllers /\ session[c].phase # "loading" /\ Typed
      /\ (UNCHANGED <<current, session>> => LeavesSessions(l))
  BY <1>0, OwnPhase DEF IndInv
<1>b. [session[c] EXCEPT !.run = 0].phase # "loading" /\ Quiet(c).phase # "loading"
  BY <1>a DEF Quiet, Controllers
<1>c. [session[c] EXCEPT !.run = 0].closed = session[c].closed /\ Quiet(c).closed = session[c].closed
  BY <1>a DEF Quiet, Controllers
<1>d. ASSUME current' = current, session' = [session EXCEPT ![c] = Quiet(c)]
      PROVE  LeavesSessions(l)
  BY <1>0, <1>b, <1>c, <1>d, OwnSession
<1>e. ASSUME current' = current, session' = [session EXCEPT ![c].run = 0]
      PROVE  LeavesSessions(l)
  BY <1>0, <1>b, <1>c, <1>e, OwnSession
<1>1. CASE PlaceholderSaved(l)
  <2> DEFINE messages == [call[l].history EXCEPT ![r].status = "queued"]
  <2>1. /\ session' = [session EXCEPT ![c] = [Shows(c, messages, "requesting", r)
                                                EXCEPT !.run = r]]
        /\ current' = current
    BY <1>1 DEF PlaceholderSaved
  <2> HIDE DEF messages
  <2>2. LeavesSessions(l)
    BY <1>0, <2>1, OwnShown
  <2>3. call'[l].pc = "running" /\ call'[l].session = c /\ LeavesCalls(l)
    BY <1>1, PcSteps DEF PlaceholderSaved
  <2> QED
    BY <1>0, <1>1, <2>2, <2>3 DEF PlaceholderSaved, Done, CallStep, Awaits, Saving
<1>2. CASE EndsInQuestion(l)
  <2>1. LeavesSessions(l)
    BY <1>2, <1>e DEF EndsInQuestion
  <2>2. /\ call'[l].pc = "saveQuestion" /\ call'[l].session = c /\ LeavesCalls(l)
        /\ queue' = Append(queue, CallOp(l))
    BY <1>2, PcSteps DEF EndsInQuestion
  <2> QED
    BY <1>0, <1>2, <2>1, <2>2 DEF EndsInQuestion, Ended, CallStep, Awaits, Saving
<1>3. CASE EndsInCall(l)
  <2>1. LeavesSessions(l)
    BY <1>3, <1>d DEF EndsInCall
  <2>2. call'[l].pc = "tailCall" /\ call'[l].session = c /\ LeavesCalls(l)
    BY <1>3, PcSteps DEF EndsInCall
  <2> QED
    BY <1>0, <1>3, <2>1, <2>2 DEF EndsInCall, Ended, CallStep, Awaits, Saving
<1>4. CASE Finishes(l)
  <2>1. LeavesSessions(l)
    BY <1>4, <1>d, <1>e DEF Finishes
  <2>2. /\ LeavesCalls(l)
        /\ \/ call'[l].pc = "tailFinal" /\ call'[l].session = c
           \/ call'[l].pc = "returned"
    BY <1>4, PcSteps DEF Finishes
  <2> QED
    BY <1>0, <1>4, <2>1, <2>2 DEF Finishes, Ended, CallStep, Awaits, Saving
<1>5. CASE TailAwaited(l)
  <2>1. /\ call'[l].pc \in {"saveCall", "saveFinal"} /\ call'[l].session = c /\ LeavesCalls(l)
        /\ queue' = Append(queue, CallOp(l)) /\ call[l].pc \in {"tailCall", "tailFinal"}
    BY <1>5, PcSteps DEF TailAwaited
  <2> QED
    BY <1>0, <1>a, <1>5, <2>1 DEF TailAwaited, CallStep, Awaits, Saving
<1>6. CASE FinalSaved(l)
  <2>1. /\ call'[l].pc = "saveConversation" /\ call'[l].session = c /\ LeavesCalls(l)
        /\ queue' = Append(Tail(queue), CallOp(l))
    BY <1>6, PcSteps DEF FinalSaved
  <2> QED
    BY <1>0, <1>a, <1>6, <2>1 DEF FinalSaved, Done, CallStep, Awaits, Saving
<1>7. CASE ConversationSaved(l)
  <2> DEFINE settled == Settle(session[c].view, r, Outcome(r))
             phase == IF Outcome(r) = "failed" THEN "failed" ELSE "ready"
  <2>1. /\ session' = [session EXCEPT ![c] = [Shows(c, settled, phase, 0) EXCEPT !.run = 0]]
        /\ current' = current
    BY <1>7 DEF ConversationSaved
  <2>2. phase # "loading"
    OBVIOUS
  <2> HIDE DEF settled, phase
  <2>3. LeavesSessions(l)
    BY <1>0, <2>1, <2>2, OwnShown
  <2>4. call'[l].pc = "returned" /\ LeavesCalls(l)
    BY <1>7, PcSteps DEF ConversationSaved
  <2> QED
    BY <1>0, <1>7, <2>3, <2>4 DEF ConversationSaved, Done, CallStep, Awaits, Saving
<1>8. CASE HandleSnapshot(l)
  <2>1. session' = [session EXCEPT ![c] = [session[c] EXCEPT !.phase = "streaming", !.timer = r]]
    BY <1>8, <1>a DEF HandleSnapshot, Typed
  <2>2. /\ [session[c] EXCEPT !.phase = "streaming", !.timer = r].phase # "loading"
        /\ [session[c] EXCEPT !.phase = "streaming", !.timer = r].closed = session[c].closed
    BY <1>a DEF Controllers
  <2>3. LeavesSessions(l)
    BY <1>0, <1>8, <2>1, <2>2, OwnSession DEF HandleSnapshot
  <2>4. UNCHANGED <<call, queue>> /\ call[l].pc = "running"
    BY <1>8 DEF HandleSnapshot
  <2> QED
    BY <1>0, <2>3, <2>4 DEF CallStep, Awaits, LeavesCalls, Saving
<1> QED
  BY <1>1, <1>2, <1>3, <1>4, <1>5, <1>6, <1>7, <1>8

LEMMA CallStepTool ==
  ASSUME IndInv, NEW l \in Calls,
         \/ CallSaved(l) \/ Approved(l) \/ Rejected(l)
         \/ \E result \in {"ok", "failed"} : ToolReturns(l, result)
         \/ ResultSaved(l) \/ QuestionSaved(l) \/ Answered(l) \/ AnswerSaved(l)
  PROVE  CallStep(l)
<1> DEFINE c == call[l].session
           r == call[l].reply
<1>0. Active(l) /\ l \in Owing
  <2>1. Active(l)
    BY Zenon DEF CallSaved, Approved, Rejected, ToolReturns, ResultSaved, QuestionSaved, Answered,
           AnswerSaved, Done, Active
  <2>2. l \in Owing
    BY OwingPcs, Zenon DEF CallSaved, Approved, Rejected, ToolReturns, ResultSaved, QuestionSaved,
           Answered, AnswerSaved, Done
  <2> QED
    BY <2>1, <2>2
<1>a. /\ c \in Sessions /\ session[c] \in Controllers /\ session[c].phase # "loading" /\ Typed
      /\ (UNCHANGED <<current, session>> => LeavesSessions(l))
  BY <1>0, OwnPhase DEF IndInv
<1>1. CASE CallSaved(l)
  <2> DEFINE history == [call[l].history EXCEPT ![r].status = "completed"]
             pc == IF run[r].risky THEN "approve" ELSE "tool"
             new == [call[l] EXCEPT !.history = history, !.verdict = "none", !.pc = pc]
  <2>1. call' = [call EXCEPT ![l] = new]
    BY <1>1, <1>a, Zenon DEF CallSaved, Typed
  <2>2. /\ current' = current
        /\ \/ session' = [session EXCEPT ![c] = [Shows(c, history, "awaitingToolApproval", 0)
                                                   EXCEPT !.approver = l]]
           \/ session' = [session EXCEPT ![c] = Shows(c, history, "requesting", 0)]
    BY <1>1, Zenon DEF CallSaved
  <2>3. pc \in {"approve", "tool"} /\ pc \notin Saving
    BY DEF Saving
  <2> HIDE DEF history, pc
  <2>4. new.pc = pc /\ new.session = c
    <3>1. call[l] \in Coroutines
      BY CallFields, <1>a
    <3> QED
      BY <3>1 DEF Coroutines
  <2>5. LeavesSessions(l)
    <3>1. CASE session' = [session EXCEPT ![c] =
                             [Shows(c, history, "awaitingToolApproval", 0) EXCEPT !.approver = l]]
      BY <1>0, <2>2, <3>1, OwnShown
    <3>2. CASE session' = [session EXCEPT ![c] = Shows(c, history, "requesting", 0)]
      BY <1>0, <2>2, <3>2, OwnShown
    <3> QED
      BY <2>2, <3>1, <3>2
  <2>6. call'[l].pc = pc /\ call'[l].session = c /\ LeavesCalls(l)
    BY <2>1, <2>4, <1>a DEF LeavesCalls, Typed
  <2> QED
    BY <1>0, <1>1, <2>3, <2>5, <2>6 DEF CallSaved, Done, CallStep, Awaits, Saving
<1>2. CASE Approved(l)
  <2>1. /\ session' = [session EXCEPT ![c] = [Shows(c, call[l].history, "requesting", 0)
                                                EXCEPT !.approver = 0]]
        /\ current' = current
    BY <1>2 DEF Approved
  <2>2. LeavesSessions(l)
    BY <1>0, <2>1, OwnShown
  <2>3. call'[l].pc = "tool" /\ call'[l].session = c /\ LeavesCalls(l)
    BY <1>2, PcSteps DEF Approved
  <2> QED
    BY <1>0, <1>2, <2>2, <2>3 DEF Approved, CallStep, Awaits, Saving
<1>3. CASE Rejected(l)
  <2> DEFINE history == [call[l].history EXCEPT ![r].result = "rejected"]
  <2>1. /\ session' = [session EXCEPT ![c] = [Shows(c, history, "requesting", 0)
                                                EXCEPT !.approver = 0]]
        /\ current' = current
        /\ NextRound(l, history, call[l].round + 1, FALSE, store, queue)
    BY <1>3 DEF Rejected
  <2> HIDE DEF history
  <2>2. LeavesSessions(l)
    BY <1>0, <2>1, OwnShown
  <2>3. /\ call'[l].pc = "savePlaceholder" /\ call'[l].session = c /\ LeavesCalls(l)
        /\ call'[l].pc \in Saving /\ queue' = Append(queue, CallOp(l))
    BY <1>0, <2>1, NextRoundStep
  <2> QED
    BY <1>0, <1>3, <2>2, <2>3 DEF Rejected, CallStep, Awaits, Saving
<1>4. ASSUME NEW result \in {"ok", "failed"}, ToolReturns(l, result) PROVE CallStep(l)
  <2> DEFINE new == [call[l] EXCEPT !.pc = "saveResult", !.verdict = result]
  <2>1. call' = [call EXCEPT ![l] = new]
    BY <1>4, <1>a, Zenon DEF ToolReturns, Typed
  <2>2. new.pc = "saveResult" /\ new.session = c
    BY CallFields, <1>a DEF Coroutines
  <2>3. call'[l].pc = "saveResult" /\ call'[l].session = c /\ LeavesCalls(l)
    BY <2>1, <2>2, <1>a DEF LeavesCalls, Typed
  <2> QED
    BY <1>0, <1>a, <1>4, <2>3 DEF ToolReturns, CallStep, Awaits, Saving
<1>5. CASE ResultSaved(l)
  <2> DEFINE history == [call[l].history EXCEPT ![r].result = call[l].verdict]
             shown == [session[c].view EXCEPT ![r].result = call[l].verdict]
             request == session[c].request
             round == call[l].round + (IF call[l].retry THEN 0 ELSE 1)
             stored == [store EXCEPT ![r].result = call[l].verdict]
  <2>1. /\ \/ session' = [session EXCEPT ![c] = Shows(c, shown, "requesting", request)]
           \/ session' = [session EXCEPT ![c] = Shows(c, history, "requesting", 0)]
        /\ current' = current
        /\ NextRound(l, history, round, FALSE, stored, Tail(queue))
    BY <1>5, Zenon DEF ResultSaved
  <2> HIDE DEF history, shown, request, round, stored
  <2>2. LeavesSessions(l)
    BY <1>0, <2>1, OwnShown
  <2>3. /\ call'[l].pc = "savePlaceholder" /\ call'[l].session = c /\ LeavesCalls(l)
        /\ call'[l].pc \in Saving /\ queue' = Append(Tail(queue), CallOp(l))
    BY <1>0, <2>1, NextRoundStep
  <2> QED
    BY <1>0, <1>5, <2>2, <2>3 DEF ResultSaved, Done, CallStep, Awaits, Saving
<1>6. CASE QuestionSaved(l)
  <2> DEFINE history == Settle(session[c].view, r, "completed")
             new == [call[l] EXCEPT !.pc = "ask", !.history = history, !.verdict = "none"]
  <2>1. call' = [call EXCEPT ![l] = new]
    BY <1>6, <1>a DEF QuestionSaved, Typed
  <2>2. /\ session' = [session EXCEPT ![c] = [Shows(c, history, "awaitingUserAnswer", 0)
                                                EXCEPT !.asker = l]]
        /\ current' = current
    BY <1>6 DEF QuestionSaved
  <2> HIDE DEF history
  <2>3. new.pc = "ask" /\ new.session = c
    BY CallFields, <1>a DEF Coroutines
  <2>4. LeavesSessions(l)
    BY <1>0, <2>2, OwnShown
  <2>5. call'[l].pc = "ask" /\ call'[l].session = c /\ LeavesCalls(l)
    BY <2>1, <2>3, <1>a DEF LeavesCalls, Typed
  <2> QED
    BY <1>0, <1>6, <2>4, <2>5 DEF QuestionSaved, Done, CallStep, Awaits, Saving
<1>7. CASE Answered(l)
  <2>1. session' = [session EXCEPT ![c] = [session[c] EXCEPT !.asker = 0]]
    BY <1>7 DEF Answered
  <2>2. /\ [session[c] EXCEPT !.asker = 0].phase # "loading"
        /\ [session[c] EXCEPT !.asker = 0].closed = session[c].closed
    BY <1>a DEF Controllers
  <2>3. LeavesSessions(l)
    BY <1>0, <1>7, <2>1, <2>2, OwnSession DEF Answered
  <2>4. call[l].pc = "ask"
    BY <1>7 DEF Answered
  <2>5. CASE Issues(l, "saveAnswer", queue)
    <3>1. /\ call'[l].pc = "saveAnswer" /\ call'[l].session = c /\ LeavesCalls(l)
          /\ queue' = Append(queue, CallOp(l))
      BY <2>5, PcSteps
    <3> QED
      BY <1>0, <2>3, <2>4, <3>1 DEF CallStep, Awaits, Saving
  <2>6. CASE Returns(l) /\ UNCHANGED queue
    <3>1. call'[l].pc = "returned" /\ LeavesCalls(l)
      BY <2>6, PcSteps
    <3> QED
      BY <1>0, <2>3, <2>4, <2>6, <3>1 DEF CallStep, Awaits, Saving
  <2> QED
    BY <1>7, <2>5, <2>6 DEF Answered
<1>8. CASE AnswerSaved(l)
  <2>1. /\ session' = [session EXCEPT ![c] = Shows(c, call[l].history, "requesting",
                                                   session[c].request)]
        /\ current' = current
        /\ NextRound(l, call[l].history, call[l].round + 1, TRUE, store, Tail(queue))
    BY <1>8 DEF AnswerSaved
  <2>2. LeavesSessions(l)
    BY <1>0, <2>1, OwnShown
  <2>3. /\ call'[l].pc = "savePlaceholder" /\ call'[l].session = c /\ LeavesCalls(l)
        /\ call'[l].pc \in Saving /\ queue' = Append(Tail(queue), CallOp(l))
    BY <1>0, <2>1, NextRoundStep
  <2> QED
    BY <1>0, <1>8, <2>2, <2>3 DEF AnswerSaved, Done, CallStep, Awaits, Saving
<1> QED
  BY <1>1, <1>2, <1>3, <1>4, <1>5, <1>6, <1>7, <1>8

LEMMA CallStepFailure ==
  ASSUME IndInv, NEW l \in Calls,
         ThrowsToCaller(l) \/ LoopFails(l) \/ Recovers(l) \/ FailureSaved(l)
  PROVE  CallStep(l)
<1> DEFINE c == call[l].session
<1>0. Active(l)
  BY Zenon DEF ThrowsToCaller, LoopFails, Throws, Recovers, FailureSaved, Done, Active, Saving
<1>a. /\ c \in Sessions /\ session[c] \in Controllers /\ session[c].phase # "loading" /\ Typed
      /\ (UNCHANGED <<current, session>> => LeavesSessions(l))
  BY <1>0, OwnPhase DEF IndInv
<1>1. CASE ThrowsToCaller(l)
  <2>1. call'[l].pc = "returned" /\ LeavesCalls(l)
    BY <1>1, PcSteps DEF ThrowsToCaller
  <2> QED
    BY <1>0, <1>a, <1>1, <2>1 DEF ThrowsToCaller, Throws, Done, CallStep, Awaits, Saving
<1>2. CASE LoopFails(l)
  <2> DEFINE new == [Quiet(c) EXCEPT !.approver = 0, !.asker = 0]
             refused == Refused(Completers(c))
  <2>1. /\ session' = [session EXCEPT ![c] = new] /\ current' = current
        /\ call' = [refused EXCEPT ![l].pc = "tailFailed"]
    BY <1>2 DEF LoopFails
  <2>2. new.phase # "loading" /\ new.closed = session[c].closed
    BY <1>a DEF Quiet, Controllers
  <2> HIDE DEF new
  <2>3. LeavesSessions(l)
    BY <1>0, <2>1, <2>2, OwnSession
  <2>4. /\ refused \in [Calls -> Coroutines]
        /\ \A k \in Calls :
             /\ refused[k].pc = call[k].pc /\ refused[k].session = call[k].session
             /\ refused[k].retry = call[k].retry /\ refused[k].round = call[k].round
             /\ refused[k].reply = call[k].reply /\ refused[k].history = call[k].history
             /\ refused[k].part = call[k].part
             /\ \/ refused[k].verdict = call[k].verdict
                \/ call[k].verdict = "none" /\ refused[k].verdict = "no"
    BY <1>a, RefusedType
  <2> HIDE DEF refused
  <2>5. [refused[l] EXCEPT !.pc = "tailFailed"].pc = "tailFailed"
        /\ [refused[l] EXCEPT !.pc = "tailFailed"].session = c
    BY <2>4 DEF Coroutines
  <2>6. call'[l].pc = "tailFailed" /\ call'[l].session = c /\ LeavesCalls(l)
    BY <2>1, <2>4, <2>5 DEF LeavesCalls
  <2> QED
    BY <1>0, <1>2, <2>3, <2>6 DEF LoopFails, Throws, Done, CallStep, Awaits, Saving
<1>3. CASE Recovers(l)
  <2> DEFINE view == session[c].view
             x == Last(Unsettled(view))
  <2>1. CASE Unsettled(view) = {}
    <3>1. /\ session' = [session EXCEPT ![c] = Shows(c, view, "failed", 0)]
          /\ current' = current /\ Returns(l) /\ UNCHANGED queue /\ call[l].pc = "tailFailed"
      BY <1>3, <2>1 DEF Recovers
    <3>2. LeavesSessions(l)
      BY <1>0, <3>1, OwnShown
    <3> QED
      BY <1>0, <3>1, <3>2, PcSteps DEF CallStep, Awaits, Saving
  <2>2. CASE Unsettled(view) # {}
    <3> DEFINE history == [view EXCEPT ![x].status = "failed"]
               new == [call[l] EXCEPT !.pc = "saveFailed", !.reply = x, !.history = history]
    <3>1. /\ call' = [call EXCEPT ![l] = new] /\ queue' = Append(queue, CallOp(l))
          /\ UNCHANGED <<current, session>> /\ call[l].pc = "tailFailed"
      BY <1>3, <1>a, <2>2 DEF Recovers, Typed
    <3> HIDE DEF history, x
    <3>2. new.pc = "saveFailed" /\ new.session = c
      BY CallFields, <1>a DEF Coroutines
    <3>3. call'[l].pc = "saveFailed" /\ call'[l].session = c /\ LeavesCalls(l)
      BY <3>1, <3>2, <1>a DEF LeavesCalls, Typed
    <3> QED
      BY <1>0, <1>a, <3>1, <3>3 DEF CallStep, Awaits, Saving
  <2> QED
    BY <2>1, <2>2
<1>4. CASE FailureSaved(l)
  <2>1. /\ session' = [session EXCEPT ![c] = Shows(c, call[l].history, "failed", 0)]
        /\ current' = current
    BY <1>4 DEF FailureSaved
  <2>2. LeavesSessions(l)
    BY <1>0, <2>1, OwnShown
  <2>3. call'[l].pc = "returned" /\ LeavesCalls(l)
    BY <1>4, PcSteps DEF FailureSaved
  <2> QED
    BY <1>0, <1>4, <2>2, <2>3 DEF FailureSaved, Done, CallStep, Awaits, Saving
<1> QED
  BY <1>1, <1>2, <1>3, <1>4

LEMMA CallSteps ==
  ASSUME IndInv, NEW l \in Calls, HandleSnapshot(l) \/ Coroutine(l)
  PROVE  CallStep(l)
BY CallStepTurn, CallStepRound, CallStepTool, CallStepFailure DEF Coroutine

(* What waits in the queue after a step of a call, *)
LEMMA CallStepQueue ==
  ASSUME IndInv, NEW l \in Calls, CallStep(l)
  PROVE  /\ Once(queue')
         /\ In(queue', CallOp(l)) <=> call'[l].pc \in Saving
         /\ \A op \in Ops : op # CallOp(l) => (In(queue', op) <=> In(queue, op))
<1>0. /\ queue \in Seq(Ops) /\ CallOp(l) \in Ops /\ CallOp(l).by # "checkpoint" /\ Once(queue)
      /\ In(queue, CallOp(l)) <=> call[l].pc \in Saving
  BY OpsTyped, OpsDiffer DEF IndInv, Typed, Queued
<1>1. CASE queue' = queue /\ call[l].pc \notin Saving /\ call'[l].pc \notin Saving
  BY <1>0, <1>1
<1>2. CASE /\ queue' = Append(queue, CallOp(l))
           /\ call[l].pc \notin Saving /\ call'[l].pc \in Saving
  BY <1>0, <1>2, IssueIn
<1>3. CASE /\ queue # <<>> /\ Head(queue) = CallOp(l) /\ queue' = Tail(queue)
           /\ call[l].pc \in Saving /\ call'[l].pc \notin Saving
  BY <1>0, <1>3, TakeIn
<1>4. CASE /\ queue # <<>> /\ Head(queue) = CallOp(l) /\ queue' = Append(Tail(queue), CallOp(l))
           /\ call[l].pc \in Saving /\ call'[l].pc \in Saving
  <2>1. /\ Tail(queue) \in Seq(Ops) /\ Once(Tail(queue)) /\ ~In(Tail(queue), CallOp(l))
        /\ \A x : In(queue, x) <=> In(Tail(queue), x) \/ x = CallOp(l)
    BY <1>0, <1>4, TakeIn
  <2>2. /\ Once(queue')
        /\ \A x : In(queue', x) <=> In(Tail(queue), x) \/ x = CallOp(l)
    BY <1>0, <1>4, <2>1, IssueIn
  <2> QED
    BY <1>4, <2>1, <2>2
<1> QED
  BY <1>1, <1>2, <1>3, <1>4 DEF CallStep, Awaits

(* and that the operations and the controllers stay in order. *)
LEMMA CallStepOrder ==
  ASSUME IndInv, NEW l \in Calls, CallStep(l)
  PROVE  Queued' /\ Opened' /\ Attached'
<1>0. /\ call[l].session \in Sessions /\ session[call[l].session].phase # "loading"
      /\ call[l].session <= current /\ current \in Sessions /\ Sessions \subseteq Nat
      /\ current' = current
  BY CallFields, RepliesTyped DEF CallStep, LeavesSessions, IndInv, Typed, Attached
<1>1. Queued'
  <2>1. ASSUME NEW k \in Calls PROVE In(queue', CallOp(k)) <=> call'[k].pc \in Saving
    <3>1. CASE k = l
      BY <3>1, CallStepQueue
    <3>2. CASE k # l
      <4>1. CallOp(k) # CallOp(l) /\ CallOp(k) \in Ops
        BY <3>2, OpsDiffer, OpsTyped
      <4>2. call'[k].pc = call[k].pc
        BY <3>2 DEF CallStep, LeavesCalls
      <4>3. In(queue', CallOp(k)) <=> In(queue, CallOp(k))
        BY <4>1, CallStepQueue
      <4> QED
        BY <4>2, <4>3 DEF IndInv, Queued
    <3> QED
      BY <3>1, <3>2
  <2> QED
    BY <2>1, CallStepQueue DEF Queued
<1>2. Opened'
  <2>1. ASSUME NEW c \in Sessions, In(queue', OpeningOp(c))
        PROVE  c = current' /\ session'[c].phase = "loading" /\ ~session'[c].closed
    <3>1. In(queue, OpeningOp(c))
      BY <2>1, CallStepQueue, OpsDiffer, OpsTyped
    <3>2. c = current /\ session[c].phase = "loading" /\ ~session[c].closed
      BY <3>1 DEF IndInv, Opened
    <3>3. c # call[l].session
      BY <1>0, <3>2
    <3> QED
      BY <1>0, <3>2, <3>3 DEF CallStep, LeavesSessions
  <2> QED
    BY <2>1 DEF Opened
<1>3. Attached'
  <2>1. \A d \in Sessions : session'[d].closed = session[d].closed
    BY DEF CallStep, LeavesSessions
  <2>2. ASSUME NEW c \in Sessions, c > current' PROVE session'[c] = NewSession
    BY <1>0, <2>2 DEF CallStep, LeavesSessions, IndInv, Attached
  <2>3. ASSUME NEW k \in Calls, Active(k)'
        PROVE  session'[call'[k].session].phase # "loading" /\ call'[k].session <= current'
    <3>1. Active(k) /\ call'[k].session = call[k].session
      BY <2>3 DEF Active, CallStep, LeavesCalls
    <3>2. /\ session[call[k].session].phase # "loading" /\ call[k].session <= current
          /\ call[k].session \in Sessions
      BY <3>1, CallFields DEF IndInv, Attached
    <3> QED
      BY <1>0, <3>1, <3>2 DEF CallStep, LeavesSessions
  <2> QED
    BY <1>0, <2>1, <2>2, <2>3 DEF IndInv, Attached
<1> QED
  BY <1>1, <1>2, <1>3

-------------------------------------------------------------------------------
(* What the steps that are no call's have in common. *)

(* No call has been changed but for a verdict that was missing, *)
SameCalls ==
  \A k \in Calls :
     /\ call'[k].pc = call[k].pc /\ call'[k].session = call[k].session
     /\ call'[k].retry = call[k].retry /\ call'[k].round = call[k].round
     /\ call'[k].reply = call[k].reply /\ call'[k].history = call[k].history
     /\ call'[k].part = call[k].part
     /\ call[k].verdict # "none" => call'[k].verdict = call[k].verdict

(* and no request but for a mark that it is cancelled. *)
SameRuns ==
  \A r \in Replies : /\ run'[r].state = run[r].state
                     /\ run'[r].outcome = run[r].outcome
                     /\ run'[r].risky = run[r].risky

(* A call has started. *)
Started(l, pc, r, part) ==
  /\ call[l].pc = "idle" /\ call'[l].pc = pc /\ call'[l].session = current
  /\ call'[l].retry = (pc = "discardResult") /\ call'[l].round = 0
  /\ call'[l].reply = r /\ call'[l].history = session[current].view
  /\ call'[l].part = part /\ call'[l].verdict = "none"
  /\ LeavesCalls(l) /\ CanStart(current)
  /\ queue' = Append(queue, CallOp(l))
  /\ UNCHANGED <<current, session, run, store>>

Starting ==
  \E l \in Calls :
     \/ Spare /\ Started(l, "saveUser", 0, "none")
     \/ Spare /\ \E r \in Replies : Started(l, "discard", r, "none")
     \/ /\ Spare
        /\ \E r \in Replies : /\ Started(l, "discardResult", r, "none")
                              /\ Calling(session[current].view, r)
                              /\ r \in consented'
     \/ \E r \in Replies, part \in Parts : Started(l, "deleteMessage", r, part)

LEMMA StartedStep ==
  ASSUME Typed, NEW l \in Calls, NEW pc, NEW r, NEW part,
         Starts(l, current, pc, r, session[current].view, part),
         UNCHANGED <<current, session, run, store>>
  PROVE  Started(l, pc, r, part)
<1> DEFINE new == [NewCall EXCEPT !.pc = pc, !.session = current, !.reply = r,
                                  !.history = session[current].view, !.part = part,
                                  !.retry = (pc = "discardResult")]
<1>1. call' = [call EXCEPT ![l] = new] /\ call \in [Calls -> Coroutines]
  BY DEF Starts, Typed
<1>2. /\ new.pc = pc /\ new.session = current /\ new.reply = r
      /\ new.history = session[current].view /\ new.part = part
      /\ new.retry = (pc = "discardResult") /\ new.round = 0 /\ new.verdict = "none"
  BY DEF NewCall
<1> HIDE DEF new
<1>3. call'[l] = new /\ LeavesCalls(l)
  BY <1>1 DEF LeavesCalls
<1> QED
  BY <1>2, <1>3 DEF Started, Starts, Idle

LEMMA DecidesStep ==
  ASSUME Typed, NEW l, l \in 0 .. MaxCalls, NEW verdict, Decides(l, verdict)
  PROVE  SameCalls /\ l \in Calls
<1>1. l \in Calls
  BY Bounds DEF Decides, Calls
<1>2. call' = [call EXCEPT ![l] = [call[l] EXCEPT !.verdict = verdict]]
  BY <1>1 DEF Decides, Typed
<1>3. call[l] \in Coroutines /\ call \in [Calls -> Coroutines]
  BY <1>1 DEF Typed
<1>4. /\ [call[l] EXCEPT !.verdict = verdict].pc = call[l].pc
      /\ [call[l] EXCEPT !.verdict = verdict].session = call[l].session
      /\ [call[l] EXCEPT !.verdict = verdict].retry = call[l].retry
      /\ [call[l] EXCEPT !.verdict = verdict].round = call[l].round
      /\ [call[l] EXCEPT !.verdict = verdict].reply = call[l].reply
      /\ [call[l] EXCEPT !.verdict = verdict].history = call[l].history
      /\ [call[l] EXCEPT !.verdict = verdict].part = call[l].part
  BY <1>3 DEF Coroutines
<1> QED
  BY <1>1, <1>2, <1>3, <1>4 DEF SameCalls, Decides

(* The steps of the user that only give a verdict, stop, or replace. *)
Interferes == \/ Approve(current) \/ Reject(current)
           \/ \E verdict \in {"yes", "no"} : SubmitAnswer(current, verdict)
           \/ Cancel(current) \/ Close(current)

LEMMA UserSteps ==
  ASSUME Typed, User
  PROVE  Starting \/ Interferes \/ Restart(current)
<1>1. ASSUME NEW l \in Calls, SendText(l, current) PROVE Starting
  BY <1>1, StartedStep DEF SendText, Starting
<1>2. ASSUME NEW l \in Calls, NEW r \in Replies, Regenerate(l, current, r) PROVE Starting
  BY <1>2, StartedStep DEF Regenerate, Starting
<1>3. ASSUME NEW l \in Calls, NEW r \in Replies, RetryTool(l, current, r) PROVE Starting
  <2>1. Started(l, "discardResult", r, "none")
    BY <1>3, StartedStep DEF RetryTool
  <2> QED
    BY <1>3, <2>1 DEF RetryTool, Starting
<1>4. ASSUME NEW l \in Calls, NEW r \in Replies, NEW part \in Parts,
             DeleteMessage(l, current, r, part)
      PROVE  Starting
  BY <1>4, StartedStep DEF DeleteMessage, Starting
<1> QED
  BY <1>1, <1>2, <1>3, <1>4 DEF User, Interferes, Parts

LEMMA VerdictStep ==
  ASSUME Typed, Interferes
  PROVE  /\ SameCalls /\ SameRuns
         /\ UNCHANGED <<current, store, queue>>
         /\ ~session[current].closed /\ session[current].phase # "loading"
         /\ \A c \in Sessions : /\ session'[c].view = session[c].view
                                /\ c # current => session'[c] = session[c]
         /\ session'[current].phase # "loading"
         /\ session'[current].closed => current < MaxSessions
<1>0. /\ current \in Sessions /\ session[current] \in Controllers
      /\ session \in [Sessions -> Controllers]
      /\ session[current].approver \in 0 .. MaxCalls /\ session[current].asker \in 0 .. MaxCalls
  BY SessionFields DEF Typed
<1>1. ASSUME NEW completers, call' = Refused(completers) PROVE SameCalls
  BY <1>1, RefusedType DEF SameCalls
<1>2. ASSUME NEW r, run' = CancelRun(r) PROVE SameRuns
  BY <1>2, CancelRunType DEF SameRuns
<1>3. UNCHANGED run => SameRuns
  BY DEF SameRuns
<1>4. CASE \/ Approve(current) \/ Reject(current)
           \/ \E verdict \in {"yes", "no"} : SubmitAnswer(current, verdict)
  <2>1. SameCalls
    BY <1>0, <1>4, DecidesStep DEF Approve, Reject, SubmitAnswer
  <2>2. /\ UNCHANGED <<current, session, run, store, queue>>
        /\ ~session[current].closed
        /\ session[current].phase \in {"awaitingToolApproval", "awaitingUserAnswer"}
    BY <1>4 DEF Approve, Reject, SubmitAnswer
  <2> QED
    BY <2>1, <2>2, <1>3
<1>5. CASE Cancel(current)
  <2> DEFINE phase == IF session[current].run = 0 THEN session[current].phase ELSE "cancelling"
             new == [session[current] EXCEPT !.phase = phase]
  <2>1. session' = [session EXCEPT ![current] = new]
    BY <1>0, <1>5 DEF Cancel
  <2>2. /\ UNCHANGED <<current, store, queue>>
        /\ ~session[current].closed /\ session[current].phase # "loading"
        /\ SameCalls /\ SameRuns
    BY <1>1, <1>2, <1>5 DEF Cancel
  <2>3. new.phase # "loading" /\ new.closed = session[current].closed
        /\ new.view = session[current].view
    BY <1>0, <2>2 DEF Controllers
  <2> HIDE DEF new
  <2> QED
    BY <1>0, <2>1, <2>2, <2>3
<1>6. CASE Close(current)
  <2> DEFINE new == [session[current] EXCEPT !.closed = TRUE, !.timer = 0,
                                             !.approver = 0, !.asker = 0]
  <2>1. session' = [session EXCEPT ![current] = new]
    BY <1>0, <1>6 DEF Close
  <2>2. /\ UNCHANGED <<current, store, queue>> /\ current < MaxSessions
        /\ ~session[current].closed /\ session[current].phase # "loading"
        /\ SameCalls /\ SameRuns
    BY <1>1, <1>2, <1>6 DEF Close
  <2>3. new.phase = session[current].phase /\ new.view = session[current].view
    BY <1>0, <2>2 DEF Controllers
  <2> HIDE DEF new
  <2> QED
    BY <1>0, <2>1, <2>2, <2>3
<1> QED
  BY <1>4, <1>5, <1>6 DEF Interferes

-------------------------------------------------------------------------------
(* The operations and the controllers stay in order. *)

LEMMA SameQueued ==
  ASSUME IndInv, SameCalls, Once(queue'),
         \A op \in Ops : op.by # "checkpoint" /\ op.by # "opening"
                            => (In(queue', op) <=> In(queue, op))
  PROVE  Queued'
<1>1. ASSUME NEW k \in Calls PROVE In(queue', CallOp(k)) <=> call'[k].pc \in Saving
  <2>1. CallOp(k) \in Ops /\ CallOp(k).by = "call"
    BY OpsTyped, OpsDiffer
  <2>2. call'[k].pc = call[k].pc
    BY DEF SameCalls
  <2> QED
    BY <2>1, <2>2 DEF IndInv, Queued
<1> QED
  BY <1>1 DEF Queued

LEMMA OrderStarting == ASSUME IndInv, Starting PROVE Queued' /\ Opened' /\ Attached'
<1>1. PICK l \in Calls, pc \in Saving, r \in Replies \cup {0}, part \in Parts \cup {"none"} :
          Started(l, pc, r, part)
  BY DEF Starting, Saving
<1>2. /\ call[l].pc = "idle" /\ call'[l].pc = pc /\ call'[l].session = current /\ LeavesCalls(l)
      /\ queue' = Append(queue, CallOp(l)) /\ UNCHANGED <<current, session>>
      /\ session[current].phase # "loading" /\ ~session[current].closed
      /\ current \in Sessions /\ Sessions \subseteq Nat
  BY <1>1, RepliesTyped DEF Started, CanStart, IndInv, Typed
<1>3. /\ queue \in Seq(Ops) /\ CallOp(l) \in Ops /\ CallOp(l).by # "checkpoint" /\ Once(queue)
      /\ ~In(queue, CallOp(l))
  <2>1. call[l].pc \notin Saving
    BY <1>2 DEF Saving
  <2> QED
    BY <2>1, OpsTyped, OpsDiffer DEF IndInv, Typed, Queued
<1>4. Once(queue') /\ \A x : In(queue', x) <=> In(queue, x) \/ x = CallOp(l)
  BY <1>2, <1>3, IssueIn
<1>5. Queued'
  <2>1. ASSUME NEW k \in Calls PROVE In(queue', CallOp(k)) <=> call'[k].pc \in Saving
    <3>1. CASE k = l
      BY <1>2, <1>4, <3>1
    <3>2. CASE k # l
      BY <1>2, <1>4, <3>2, OpsDiffer DEF LeavesCalls, IndInv, Queued
    <3> QED
      BY <3>1, <3>2
  <2> QED
    BY <1>4, <2>1 DEF Queued
<1>6. Opened'
  BY <1>2, <1>4, OpsDiffer DEF IndInv, Opened
<1>7. Attached'
  <2>1. ASSUME NEW k \in Calls, Active(k)'
        PROVE  session'[call'[k].session].phase # "loading" /\ call'[k].session <= current'
    <3>1. CASE k = l
      BY <1>2, <3>1
    <3>2. CASE k # l
      BY <1>2, <2>1, <3>2 DEF Active, LeavesCalls, IndInv, Attached
    <3> QED
      BY <3>1, <3>2
  <2> QED
    BY <1>2, <2>1 DEF IndInv, Attached
<1> QED
  BY <1>5, <1>6, <1>7

LEMMA OrderInterferes == ASSUME IndInv, Interferes PROVE Queued' /\ Opened' /\ Attached'
<1>1. /\ SameCalls /\ UNCHANGED <<current, queue>>
      /\ ~session[current].closed /\ session[current].phase # "loading"
      /\ \A c \in Sessions : c # current => session'[c] = session[c]
      /\ session'[current].phase # "loading"
      /\ session'[current].closed => current < MaxSessions
      /\ current \in Sessions /\ Sessions \subseteq Nat
  BY VerdictStep, RepliesTyped DEF IndInv, Typed
<1>2. Queued'
  BY <1>1, SameQueued DEF IndInv, Queued
<1>3. Opened'
  BY <1>1 DEF IndInv, Opened
<1>4. Attached'
  <2>1. ASSUME NEW k \in Calls, Active(k)'
        PROVE  session'[call'[k].session].phase # "loading" /\ call'[k].session <= current'
    <3>1. Active(k) /\ call'[k].session = call[k].session /\ call[k].session \in Sessions
      BY <1>1, <2>1, CallFields DEF SameCalls, Active, IndInv
    <3> QED
      BY <1>1, <3>1 DEF IndInv, Attached
  <2>2. \A c \in Sessions : c < current => c # current
    BY <1>1
  <2>3. \A c \in Sessions : c > current => c # current
    BY <1>1
  <2> QED
    BY <1>1, <2>1, <2>2, <2>3 DEF IndInv, Attached
<1> QED
  BY <1>2, <1>3, <1>4

LEMMA OrderRestart == ASSUME IndInv, Restart(current) PROVE Queued' /\ Opened' /\ Attached'
<1>1. /\ current \in Sessions /\ Sessions \subseteq Nat /\ current + 1 \in Sessions
      /\ current' = current + 1 /\ queue' = <<OpeningOp(current + 1)>>
      /\ session' = [session EXCEPT ![current] = [NewSession EXCEPT !.closed = TRUE]]
  BY RepliesTyped, Bounds DEF Restart, IndInv, Typed, Sessions
<1>2. \A k \in Calls : call'[k].pc \in {"idle", "returned"}
  BY DEF Restart, NewCall
<1>3. \A x : In(queue', x) <=> x = OpeningOp(current + 1)
  BY <1>1 DEF In
<1>4. Once(queue')
  BY <1>1 DEF Once
<1>5. Queued'
  BY <1>1, <1>2, <1>3, <1>4, OpsDiffer DEF Queued, Saving
<1>6. session'[current + 1] = NewSession
  <2>1. current + 1 > current /\ current + 1 # current
    BY <1>1
  <2>2. session[current + 1] = NewSession
    BY <1>1, <2>1 DEF IndInv, Attached
  <2> QED
    BY <1>1, <2>1, <2>2 DEF IndInv, Typed
<1>7. Opened'
  <2>1. ASSUME NEW c \in Sessions, In(queue', OpeningOp(c)) PROVE c = current + 1
    BY <1>1, <1>3, <2>1, OpsDiffer
  <2>2. session'[current + 1].phase = "loading" /\ ~session'[current + 1].closed
    BY <1>6 DEF NewSession
  <2> QED
    BY <1>1, <2>1, <2>2 DEF Opened
<1>8. Attached'
  <2>1. [NewSession EXCEPT !.closed = TRUE].closed = TRUE
    BY DEF NewSession
  <2>2. ASSUME NEW c \in Sessions, c < current' PROVE session'[c].closed
    <3>1. c = current \/ c < current
      BY <1>1, <2>2
    <3> QED
      BY <1>1, <2>1, <3>1 DEF IndInv, Attached, Typed
  <2>3. ASSUME NEW c \in Sessions, c > current' PROVE session'[c] = NewSession
    BY <1>1, <2>3 DEF IndInv, Attached, Typed
  <2>4. ~session'[current'].closed
    BY <1>1, <1>6 DEF NewSession
  <2> QED
    BY <1>2, <2>2, <2>3, <2>4 DEF Attached, Active
<1> QED
  BY <1>5, <1>7, <1>8

LEMMA OrderRest ==
  ASSUME IndInv,
         \/ \E c \in Sessions : Checkpoint(c) \/ Attach(c) \/ Load(c) \/ Repair(c)
         \/ CheckpointSaved \/ RunEndsSomehow
  PROVE  Queued' /\ Opened' /\ Attached'
<1>0. /\ queue \in Seq(Ops) /\ Once(queue) /\ current \in Sessions /\ Sessions \subseteq Nat
      /\ session \in [Sessions -> Controllers]
  BY RepliesTyped DEF IndInv, Typed, Queued
<1>a. UNCHANGED call => SameCalls
  BY DEF SameCalls
<1>1. CASE RunEndsSomehow
  <2>1. UNCHANGED <<current, session, call, queue>>
    BY <1>1, Zenon DEF RunEndsSomehow, RunEnds
  <2> QED
    BY <2>1 DEF IndInv, Queued, Opened, Attached, Active
<1>2. CASE CheckpointSaved
  <2>1. UNCHANGED <<current, session, call>> /\ queue' = Tail(queue) /\ queue # <<>>
        /\ Head(queue).by = "checkpoint"
    BY <1>2 DEF CheckpointSaved
  <2>2. /\ Once(queue')
        /\ \A op \in Ops : op.by # "checkpoint" => (In(queue', op) <=> In(queue, op))
    BY <1>0, <2>1, TakeIn
  <2>3. \A c \in Sessions : In(queue', OpeningOp(c)) <=> In(queue, OpeningOp(c))
    BY <2>2, OpsTyped, OpsDiffer
  <2> QED
    BY <1>a, <2>1, <2>2, <2>3, SameQueued DEF IndInv, Opened, Attached, Active
<1>3. ASSUME NEW c \in Sessions, Checkpoint(c) PROVE Queued' /\ Opened' /\ Attached'
  <2> DEFINE new == [session[c] EXCEPT !.timer = 0]
  <2>1. /\ UNCHANGED <<current, call>> /\ session' = [session EXCEPT ![c] = new]
        /\ session[c].timer # 0
        /\ queue' \in {queue, Append(queue, CheckpointOp(c, session[c].timer))}
    BY <1>0, <1>3 DEF Checkpoint
  <2>2. session[c].timer \in Replies
    BY <2>1, SessionFields, Bounds DEF IndInv, Replies
  <2>3. CheckpointOp(c, session[c].timer) \in Ops
        /\ CheckpointOp(c, session[c].timer).by = "checkpoint"
    BY <2>2, OpsTyped, OpsDiffer
  <2>4. /\ Once(queue')
        /\ \A op \in Ops : op.by # "checkpoint" => (In(queue', op) <=> In(queue, op))
    <3>1. CASE queue' = queue
      BY <1>0, <3>1
    <3>2. CASE queue' = Append(queue, CheckpointOp(c, session[c].timer))
      BY <1>0, <2>3, <3>2, IssueIn
    <3> QED
      BY <2>1, <3>1, <3>2
  <2>5. \A d \in Sessions : In(queue', OpeningOp(d)) <=> In(queue, OpeningOp(d))
    BY <2>4, OpsTyped, OpsDiffer
  <2>6. new.closed = session[c].closed /\ new.phase = session[c].phase
    BY <1>0 DEF Controllers
  <2>7. c > current => new = session[c]
    <3>1. NewSession.timer = 0
      BY DEF NewSession
    <3> QED
      BY <2>1, <3>1 DEF IndInv, Attached
  <2> HIDE DEF new
  <2>8. \A d \in Sessions : /\ session'[d].closed = session[d].closed
                            /\ session'[d].phase = session[d].phase
                            /\ d > current => session'[d] = session[d]
    BY <1>0, <2>1, <2>6, <2>7
  <2>9. Opened'
    BY <2>1, <2>5, <2>8 DEF IndInv, Opened
  <2>10. Attached'
    <3>1. \A k \in Calls : call[k].session \in Sessions
      BY CallFields DEF IndInv
    <3> QED
      BY <1>0, <2>1, <2>8, <3>1 DEF IndInv, Attached, Active
  <2> QED
    BY <1>a, <2>1, <2>4, <2>9, <2>10, SameQueued
<1>4. ASSUME NEW c \in Sessions, Attach(c) PROVE Queued' /\ Opened' /\ Attached'
  <2>1. /\ UNCHANGED <<session, call>> /\ session[current].closed /\ current' = current + 1
        /\ queue' = Append(queue, OpeningOp(current + 1))
    BY <1>4 DEF Attach
  <2>2. current + 1 \in Sessions /\ current + 1 > current
    BY <1>0, <2>1, Bounds DEF IndInv, Attached, Sessions
  <2>3. session[current + 1] = NewSession
    BY <2>2 DEF IndInv, Attached
  <2>4. \A d \in Sessions : ~In(queue, OpeningOp(d))
    BY <2>1 DEF IndInv, Opened
  <2>5. OpeningOp(current + 1) \in Ops /\ OpeningOp(current + 1).by = "opening"
    BY <2>2, OpsTyped, OpsDiffer
  <2>6. Once(queue') /\ \A x : In(queue', x) <=> In(queue, x) \/ x = OpeningOp(current + 1)
    BY <1>0, <2>1, <2>2, <2>4, <2>5, IssueIn
  <2>7. Queued'
    BY <1>a, <2>1, <2>5, <2>6, SameQueued
  <2>8. Opened'
    <3>1. NewSession.phase = "loading" /\ ~NewSession.closed
      BY DEF NewSession
    <3> QED
      BY <2>1, <2>2, <2>3, <2>4, <2>6, <3>1, OpsDiffer DEF Opened
  <2>9. Attached'
    <3>1. ~session[current + 1].closed
      BY <2>3 DEF NewSession
    <3>2. ASSUME NEW d \in Sessions, d < current + 1 PROVE session[d].closed
      <4>1. d = current \/ d < current
        BY <1>0, <3>2
      <4> QED
        BY <2>1, <4>1 DEF IndInv, Attached
    <3>3. ASSUME NEW d \in Sessions, d > current + 1 PROVE session[d] = NewSession
      <4>1. d > current
        BY <1>0, <3>3
      <4> QED
        BY <4>1 DEF IndInv, Attached
    <3>4. ASSUME NEW k \in Calls, Active(k)
          PROVE  session[call[k].session].phase # "loading" /\ call[k].session <= current + 1
      <4>1. /\ session[call[k].session].phase # "loading" /\ call[k].session <= current
            /\ call[k].session \in Sessions
        BY <3>4, CallFields DEF IndInv, Attached
      <4> QED
        BY <1>0, <4>1
    <3> QED
      BY <2>1, <3>1, <3>2, <3>3, <3>4 DEF Attached, Active
  <2> QED
    BY <2>7, <2>8, <2>9
<1>5. ASSUME NEW c \in Sessions, Load(c) \/ Repair(c) PROVE Queued' /\ Opened' /\ Attached'
  <2>1. /\ UNCHANGED <<current, call>> /\ Opening(c)
        /\ \A d \in Sessions : d # c => session'[d] = session[d]
    BY <1>0, <1>5, Zenon DEF Load, Repair
  <2>2. queue # <<>> /\ Head(queue) = OpeningOp(c) /\ In(queue, OpeningOp(c))
        /\ OpeningOp(c) \in Ops /\ OpeningOp(c).by = "opening"
    BY <1>0, <2>1, TakeIn, OpsTyped, OpsDiffer DEF Opening
  <2>3. c = current /\ session[c].phase = "loading" /\ ~session[c].closed
    BY <2>2 DEF IndInv, Opened
  <2>4. /\ Tail(queue) \in Seq(Ops) /\ Once(Tail(queue)) /\ ~In(Tail(queue), OpeningOp(c))
        /\ \A x : In(queue, x) <=> In(Tail(queue), x) \/ x = OpeningOp(c)
    BY <1>0, <2>2, TakeIn
  <2>5. ASSUME NEW k \in Calls, Active(k) PROVE call[k].session # c
    BY <2>3, <2>5 DEF IndInv, Attached
  <2>6. ~session'[c].closed
        /\ (queue' = Append(Tail(queue), OpeningOp(c)) => session'[c].phase = "loading")
        /\ queue' \in {Tail(queue), Append(Tail(queue), OpeningOp(c))}
    <3>1. CASE Repair(c)
      <4>1. queue' = Tail(queue) /\ Tail(queue) # Append(Tail(queue), OpeningOp(c))
        <5>1. Len(Append(Tail(queue), OpeningOp(c))) = Len(Tail(queue)) + 1
          BY <2>2, <2>4
        <5> QED
          BY <2>4, <3>1, <5>1 DEF Repair
      <4>2. session'[c].closed = session[c].closed
        BY <1>0, <3>1, Zenon DEF Repair, Controllers
      <4> QED
        BY <2>3, <4>1, <4>2
    <3>2. CASE Load(c)
      <4> DEFINE open == {r \in Replies : store[r].status \in Open}
      <4>1. session'[c].closed = session[c].closed
        BY <1>0, <3>2, Zenon DEF Load, Controllers
      <4>2. CASE open = {}
        <5>1. queue' = Tail(queue)
          BY <3>2, <4>2, Zenon DEF Load
        <5>2. Len(Append(Tail(queue), OpeningOp(c))) = Len(Tail(queue)) + 1
          BY <2>2, <2>4
        <5> QED
          BY <2>3, <2>4, <4>1, <5>1, <5>2
      <4>3. CASE open # {}
        <5>1. queue' = Append(Tail(queue), OpeningOp(c))
          BY <3>2, <4>3, Zenon DEF Load
        <5>2. session'[c].phase = session[c].phase
          BY <1>0, <3>2, <4>3, Zenon DEF Load, Controllers
        <5> QED
          BY <2>3, <4>1, <5>1, <5>2
      <4> QED
        BY <4>2, <4>3
    <3> QED
      BY <1>5, <3>1, <3>2
  <2>7. /\ Once(queue')
        /\ \A x : x # OpeningOp(c) => (In(queue', x) <=> In(queue, x))
        /\ In(queue', OpeningOp(c)) => session'[c].phase = "loading"
    <3>1. CASE queue' = Tail(queue)
      BY <2>4, <3>1
    <3>2. CASE queue' = Append(Tail(queue), OpeningOp(c))
      BY <2>2, <2>4, <2>6, <3>2, IssueIn
    <3> QED
      BY <2>6, <3>1, <3>2
  <2>8. Queued'
    BY <1>a, <2>1, <2>2, <2>7, SameQueued
  <2>9. Opened'
    <3>1. ASSUME NEW d \in Sessions, In(queue', OpeningOp(d))
          PROVE  d = current /\ session'[d].phase = "loading" /\ ~session'[d].closed
      <4>1. CASE d = c
        BY <2>3, <2>6, <2>7, <3>1, <4>1
      <4>2. CASE d # c
        <5>1. In(queue, OpeningOp(d))
          BY <2>7, <3>1, <4>2, OpsDiffer
        <5> QED
          BY <2>3, <4>2, <5>1 DEF IndInv, Opened
      <4> QED
        BY <4>1, <4>2
    <3> QED
      BY <2>1, <3>1 DEF Opened
  <2>10. Attached'
    <3>1. \A d \in Sessions : d # current => session'[d] = session[d]
      BY <2>1, <2>3
    <3>2. \A d \in Sessions : d > current \/ d < current => d # current
      BY <1>0
    <3> QED
      BY <2>1, <2>3, <2>5, <2>6, <3>1, <3>2, CallFields DEF IndInv, Attached, Active
  <2> QED
    BY <2>8, <2>9, <2>10
<1> QED
  BY <1>1, <1>2, <1>3, <1>4, <1>5

LEMMA OrderStep == ASSUME IndInv, [Next]_vars PROVE Queued' /\ Opened' /\ Attached'
<1>1. CASE UNCHANGED vars
  BY <1>1 DEF vars, IndInv, Queued, Opened, Attached, Active
<1>2. CASE User
  BY <1>2, UserSteps, OrderStarting, OrderInterferes, OrderRestart DEF IndInv
<1> QED
  BY <1>1, <1>2, CallSteps, CallStepOrder, OrderRest DEF Next

-------------------------------------------------------------------------------
(* Messages and the requests behind them. *)

(* Parts of messages that are accounted for stay so when something is taken   *)
(* away, and when something is added to an answer whose request has ended.   *)
LEMMA BackedUpdates ==
  ASSUME NEW m \in Messages, Backed(m), NEW r \in Replies
  PROVE  /\ \A S : Backed(Without(m, S))
         /\ Backed([m EXCEPT ![r].user = FALSE])
         /\ \A S : Backed([Without(m, S) EXCEPT ![r].user = m[r].user])
         /\ \A S : Backed([Without(m, S) EXCEPT ![r].result = "none"])
         /\ \A s : s # "completed" \/ run[r].state = "ended"
               => Backed([m EXCEPT ![r].status = s]) /\ Backed(Settle(m, r, s))
         /\ \A v : run[r].state = "ended" => Backed([m EXCEPT ![r].result = v])
         /\ \A part \in Parts : Backed([m EXCEPT ![r][part] = Nothing[part]])
<1>0. /\ \A x \in Replies : DOMAIN m[x] = {"user", "status", "result"}
      /\ DOMAIN m = Replies
  BY DEF Messages
<1>a. /\ Nothing.user = FALSE /\ Nothing.status = "none" /\ Nothing.result = "none"
      /\ DOMAIN Nothing = {"user", "status", "result"}
  BY DEF Nothing
<1>1. ASSUME NEW S PROVE Backed(Without(m, S))
  BY <1>a DEF Without, Backed
<1>2. Backed([m EXCEPT ![r].user = FALSE])
  BY <1>0 DEF Backed
<1>3. ASSUME NEW S PROVE Backed([Without(m, S) EXCEPT ![r].user = m[r].user])
  <2>1. /\ DOMAIN Without(m, S) = Replies
        /\ \A x \in Replies : DOMAIN Without(m, S)[x] = {"user", "status", "result"}
    BY <1>0, <1>a DEF Without
  <2> QED
    BY <1>1, <2>1 DEF Backed
<1>4. ASSUME NEW S PROVE Backed([Without(m, S) EXCEPT ![r].result = "none"])
  <2>1. /\ DOMAIN Without(m, S) = Replies
        /\ \A x \in Replies : DOMAIN Without(m, S)[x] = {"user", "status", "result"}
    BY <1>0, <1>a DEF Without
  <2> QED
    BY <1>1, <2>1 DEF Backed
<1>5. ASSUME NEW s, s # "completed" \/ run[r].state = "ended"
      PROVE  Backed([m EXCEPT ![r].status = s]) /\ Backed(Settle(m, r, s))
  BY <1>0, <1>5 DEF Backed, Settle
<1>6. ASSUME NEW v, run[r].state = "ended" PROVE Backed([m EXCEPT ![r].result = v])
  BY <1>0, <1>6 DEF Backed
<1>7. ASSUME NEW part \in Parts PROVE Backed([m EXCEPT ![r][part] = Nothing[part]])
  BY <1>0, <1>a DEF Backed, Parts
<1> QED
  BY <1>1, <1>2, <1>3, <1>4, <1>5, <1>6, <1>7

TurnRounds(m) == {r \in Replies : Calling(m, r) /\ \A x \in Replies : x > r => ~m[x].user}

LEMMA RoundsMonotone ==
  ASSUME NEW m, NEW n, TurnRounds(m) \subseteq TurnRounds(n)
  PROVE  RoundsInTurn(m) <= RoundsInTurn(n)
<1>1. RoundsInTurn(m) = Cardinality(TurnRounds(m)) /\ RoundsInTurn(n) = Cardinality(TurnRounds(n))
  BY DEF RoundsInTurn, TurnRounds
<1>2. TurnRounds(n) \subseteq Replies
  BY DEF TurnRounds
<1> QED
  BY <1>1, <1>2, FiniteParts, FS_Subset

(* The results of tools are not counted, *)
LEMMA RoundsOfResult ==
  ASSUME NEW m \in Messages, NEW r \in Replies, NEW v
  PROVE  RoundsInTurn([m EXCEPT ![r].result = v]) <= RoundsInTurn(m)
<1>1. \A x \in Replies : /\ [m EXCEPT ![r].result = v][x].status = m[x].status
                         /\ [m EXCEPT ![r].result = v][x].user = m[x].user
  BY DEF Messages
<1>2. TurnRounds([m EXCEPT ![r].result = v]) \subseteq TurnRounds(m)
  BY <1>1 DEF TurnRounds, Calling
<1> QED
  BY <1>2, RoundsMonotone

(* an answer that is completed counts once, *)
LEMMA RoundsOfCompleted ==
  ASSUME NEW m \in Messages, NEW r \in Replies
  PROVE  RoundsInTurn([m EXCEPT ![r].status = "completed"]) <= RoundsInTurn(m) + 1
<1> DEFINE n == [m EXCEPT ![r].status = "completed"]
<1>1. \A x \in Replies : /\ n[x].user = m[x].user
                         /\ x # r => n[x].status = m[x].status
  BY DEF Messages
<1> HIDE DEF n
<1>2. TurnRounds(n) \subseteq TurnRounds(m) \cup {r}
  BY <1>1 DEF TurnRounds, Calling
<1>3. /\ RoundsInTurn(m) = Cardinality(TurnRounds(m))
      /\ RoundsInTurn(n) = Cardinality(TurnRounds(n))
      /\ TurnRounds(m) \subseteq Replies
  BY DEF RoundsInTurn, TurnRounds
<1>4. /\ IsFiniteSet(TurnRounds(m) \cup {r})
      /\ Cardinality(TurnRounds(m) \cup {r}) <= Cardinality(TurnRounds(m)) + 1
  BY <1>3, FiniteParts, FS_AddElement
<1>5. Cardinality(TurnRounds(n)) <= Cardinality(TurnRounds(m) \cup {r})
  BY <1>2, <1>4, FS_Subset
<1>6. /\ Cardinality(TurnRounds(n)) \in Nat /\ Cardinality(TurnRounds(m)) \in Nat
      /\ Cardinality(TurnRounds(m) \cup {r}) \in Nat
  BY <1>3, <1>4, FiniteParts, FS_CardinalityType DEF TurnRounds
<1> DEFINE i == Cardinality(TurnRounds(n))
           j == Cardinality(TurnRounds(m))
           k == Cardinality(TurnRounds(m) \cup {r})
<1>7. i \in Nat /\ j \in Nat /\ k \in Nat /\ i <= k /\ k <= j + 1
  BY <1>4, <1>5, <1>6
<1> HIDE DEF i, j, k
<1>8. i <= j + 1
  BY <1>7
<1> QED
  BY <1>3, <1>8 DEF i, j, n

(* and the answers up to number r are at most r rounds. *)
LEMMA RoundsUpTo ==
  ASSUME NEW m, NEW r \in Replies, \A x \in Replies : x > r => m[x].status # "completed"
  PROVE  RoundsInTurn(m) \in Nat /\ RoundsInTurn(m) <= r
<1>1. TurnRounds(m) \subseteq 1 .. r
  BY Bounds DEF TurnRounds, Calling, Replies
<1>2. RoundsInTurn(m) = Cardinality(TurnRounds(m))
  BY DEF RoundsInTurn, TurnRounds
<1>3. r \in Nat /\ IsFiniteSet(1 .. r) /\ Cardinality(1 .. r) = r
  BY FS_Interval, Bounds DEF Replies
<1> QED
  BY <1>1, <1>2, <1>3, FS_Subset, FS_CardinalityType

-------------------------------------------------------------------------------
(* What a step of a call does to its own record and to the requests. *)

(* It asks the model for the answer with the next number, *)
Asks(l) ==
  /\ l \in Owing
  /\ \E r \in Replies, history \in Messages, round \in Nat, asked \in BOOLEAN,
        stored \in Messages :
       /\ \E before : Reserves(l, r, history, round, asked, stored, before)
       /\ round < r
       /\ asked \/ RoundsInTurn(history) <= round
       /\ Backed(history) /\ Backed(stored)

(* sends the request that goes with it, *)
Sends(l) ==
  /\ call[l].pc = "savePlaceholder"
  /\ call' = [call EXCEPT ![l].pc = "running"]
  /\ run' = [run EXCEPT ![call[l].reply].state = "open"]

(* goes on with an answer whose request has ended, *)
Completes(l) ==
  /\ call[l].pc = "saveCall" /\ call'[l].pc \in {"approve", "tool"}
  /\ call'[l].history = [call[l].history EXCEPT ![call[l].reply].status = "completed"]

Asking(l) ==
  /\ call[l].pc = "saveQuestion" /\ call'[l].pc = "ask"
  /\ call'[l].history = Settle(session[call[l].session].view, call[l].reply, "completed")

GoesOn(l) ==
  /\ call'[l].history = call[l].history
  /\ \/ call[l].pc = "discard" /\ call'[l].pc = "saveAgain"
     \/ /\ call[l].pc = "running" /\ run[call[l].reply].state = "ended"
        /\ \/ /\ call'[l].pc = "saveQuestion"
              /\ run[call[l].reply].outcome = "question"
           \/ call'[l].pc = "tailCall" /\ CallsTool(l)
           \/ call'[l].pc = "tailFinal"
     \/ call[l].pc = "tailCall" /\ call'[l].pc = "saveCall"
     \/ call[l].pc = "tailFinal" /\ call'[l].pc = "saveFinal"
     \/ call[l].pc = "saveFinal" /\ call'[l].pc = "saveConversation"
     \/ call[l].pc = "approve" /\ call'[l].pc = "tool"
     \/ /\ call[l].pc = "tool" /\ call'[l].pc = "saveResult"
        /\ call'[l].verdict \in {"ok", "failed"}
     \/ call[l].pc = "ask" /\ call'[l].pc = "saveAnswer"

Moves(l) ==
  /\ UNCHANGED run
  /\ call'[l].reply = call[l].reply /\ call'[l].round = call[l].round
  /\ call'[l].retry = call[l].retry
  /\ Completes(l) \/ Asking(l) \/ GoesOn(l)

(* calls a tool again, *)
Retries(l) ==
  /\ UNCHANGED run
  /\ call[l].pc = "discardResult" /\ call'[l].pc = "tool"
  /\ call'[l].reply = call[l].reply /\ call'[l].retry = call[l].retry
  /\ \E S : call'[l].history = [Without(session[call[l].session].view, S)
                                  EXCEPT ![call[l].reply].result = "none"]
  /\ call'[l].round = RoundsInTurn(call'[l].history)
  /\ call'[l].round <= call[l].reply

(* fails, and may give back the number of its answer, *)
GivesBack(l) ==
  /\ call[l].pc = "savePlaceholder"
  /\ ~call[l].history[call[l].reply].user
  /\ \A x \in Used : x <= call[l].reply
  /\ run' = [run EXCEPT ![call[l].reply] = NewRun]

Fails(l) ==
  /\ call'[l].pc = "tailFailed" /\ call'[l].history = call[l].history
  /\ UNCHANGED run \/ GivesBack(l)

(* finds the answer that failed, *)
Finds(l) ==
  /\ UNCHANGED run
  /\ call'[l].pc = "saveFailed" /\ call'[l].reply \in Replies
  /\ call'[l].history = [session[call[l].session].view
                           EXCEPT ![call'[l].reply].status = "failed"]

(* or comes back. *)
ComesBack(l) ==
  /\ UNCHANGED run
  /\ call'[l] = [NewCall EXCEPT !.pc = "returned"]

Effect(l) ==
  \/ Asks(l) \/ Sends(l) \/ Moves(l) \/ Retries(l) \/ Fails(l) \/ Finds(l) \/ ComesBack(l)
  \/ call[l].pc = "running" /\ UNCHANGED <<call, run>>

LEMMA AsksStep ==
  ASSUME IndInv, NEW l \in Owing, NEW history \in Messages, NEW round \in Nat,
         NEW asked \in BOOLEAN, NEW stored \in Messages, NEW before,
         NextRound(l, history, round, asked, stored, before),
         Backed(history), Backed(stored), asked \/ RoundsInTurn(history) <= round,
         round = 0 \/ (call[l].reply \in Used /\ round <= call[l].reply)
  PROVE  Asks(l)
<1>1. PICK r \in Replies : Reserves(l, r, history, round, asked, stored, before)
  BY NextReply DEF IndInv
<1>2. round < r
  <2>1. r \in Nat /\ r > 0
    BY Bounds DEF Replies
  <2>2. CASE round = 0
    BY <2>1, <2>2
  <2>3. CASE call[l].reply \in Used /\ round <= call[l].reply
    <3>1. call[l].reply \in 1 .. r - 1
      BY <1>1, <2>3 DEF Reserves
    <3> QED
      BY <2>1, <2>3, <3>1
  <2> QED
    BY <2>2, <2>3
<1> QED
  BY <1>1, <1>2 DEF Asks

LEMMA MoveFields ==
  ASSUME Typed, NEW l \in Calls, NEW pc
  PROVE  /\ Goes(l, pc) \/ (\E before : Issues(l, pc, before)) =>
               /\ call'[l].pc = pc /\ call'[l].history = call[l].history
               /\ call'[l].reply = call[l].reply /\ call'[l].round = call[l].round
               /\ call'[l].retry = call[l].retry /\ call'[l].verdict = call[l].verdict
         /\ Returns(l) => call'[l] = [NewCall EXCEPT !.pc = "returned"]
<1> DEFINE new == [call[l] EXCEPT !.pc = pc]
<1>0. call[l] \in Coroutines /\ call \in [Calls -> Coroutines]
  BY CallFields DEF Typed
<1>1. /\ new.pc = pc /\ new.history = call[l].history
      /\ new.reply = call[l].reply /\ new.round = call[l].round
      /\ new.retry = call[l].retry /\ new.verdict = call[l].verdict
  BY <1>0 DEF Coroutines
<1>2. Goes(l, pc) => call' = [call EXCEPT ![l] = new]
  BY <1>0 DEF Goes
<1>3. (\E before : Issues(l, pc, before)) => call' = [call EXCEPT ![l] = new]
  BY <1>0 DEF Issues
<1> HIDE DEF new
<1> QED
  BY <1>0, <1>1, <1>2, <1>3 DEF Returns

(* An answer whose request has ended is in use. *)
LEMMA EndedUsed ==
  ASSUME IndInv, NEW l \in Calls, call[l].pc \in After
  PROVE  /\ call[l].reply \in Replies /\ run[call[l].reply].state = "ended"
         /\ call[l].reply \in Used
<1>1. call[l].pc \in Numbered
  BY DEF After, Numbered
<1> QED
  BY <1>1 DEF IndInv, Requests, Used

LEMMA EffectTurn ==
  ASSUME IndInv, NEW l \in Calls,
         \/ UserSaved(l) \/ Discarded(l) \/ SavedAgain(l) \/ ResultDiscarded(l)
         \/ MessageDeleted(l)
  PROVE  Effect(l)
<1> DEFINE c == call[l].session
           r == call[l].reply
<1>0. /\ c \in Sessions /\ session[c].view \in Messages /\ Typed
      /\ call[l].history \in Messages /\ store \in Messages
      /\ Backed(session[c].view) /\ Backed(call[l].history) /\ Backed(store)
  BY CallFields, SessionFields DEF IndInv, Typed, MessagesBacked
<1>1. CASE UserSaved(l)
  <2>1. l \in Owing
    BY <1>1, OwingPcs DEF UserSaved, Done
  <2> QED
    BY <1>0, <1>1, <2>1, AsksStep DEF UserSaved, Effect
<1>2. CASE Discarded(l)
  BY <1>0, <1>2, MoveFields DEF Discarded, Done, Effect, Moves, GoesOn
<1>3. CASE SavedAgain(l)
  <2> DEFINE history == Without(session[c].view, From(session[c].view, r))
             stored == [store EXCEPT ![r].user = FALSE]
  <2>1. l \in Owing /\ r \in Replies
    BY <1>3, OwingPcs, NumberedPcs DEF SavedAgain, Done, Numbered, IndInv
  <2>2. history \in Messages /\ stored \in Messages /\ Backed(history) /\ Backed(stored)
    BY <1>0, <2>1, WithoutType, MessageTypes, BackedUpdates
  <2>3. NextRound(l, history, 0, TRUE, stored, Tail(queue))
    BY <1>3, Zenon DEF SavedAgain
  <2> HIDE DEF history, stored
  <2> QED
    BY <2>1, <2>2, <2>3, AsksStep DEF Effect
<1>4. CASE ResultDiscarded(l)
  <2> DEFINE later == From(session[c].view, r + 1)
             history == [Without(session[c].view, later) EXCEPT ![r].result = "none"]
             round == RoundsInTurn(history)
             new == [call[l] EXCEPT !.pc = "tool", !.history = history, !.round = round]
  <2>0. r \in Replies /\ call[l].pc = "discardResult" /\ UNCHANGED run
    BY <1>4, NumberedPcs, Zenon DEF ResultDiscarded, Done, Numbered, IndInv
  <2>1. call' = [call EXCEPT ![l].pc = "tool", ![l].history = history, ![l].round = round]
    BY <1>4, Zenon DEF ResultDiscarded
  <2>2. \A x \in Replies : x > r => history[x].status # "completed"
    <3>1. ASSUME NEW x \in Replies, x > r, history[x].status = "completed" PROVE FALSE
      <4>1. x # r /\ x >= r + 1
        BY <2>0, <3>1, Bounds DEF Replies
      <4>2. history[x] = Without(session[c].view, later)[x]
        BY <2>0, <4>1 DEF Without
      <4>3. Without(session[c].view, later)[x] = Nothing
        BY <4>1 DEF Without, From
      <4> QED
        BY <3>1, <4>2, <4>3, NothingMessage, Zenon
    <3> QED
      BY <3>1
  <2>3. round <= r
    BY <2>0, <2>2, RoundsUpTo, Zenon
  <2> HIDE DEF round
  <2>4. call' = [call EXCEPT ![l] = new] /\ call[l] \in Coroutines
    BY <1>0, <2>1, CallFields, Zenon DEF Typed
  <2> HIDE DEF history
  <2>5. /\ new.pc = "tool" /\ new.history = history /\ new.round = round
        /\ new.reply = r /\ new.retry = call[l].retry
    BY <2>4 DEF Coroutines
  <2> HIDE DEF new
  <2>6. call'[l] = new
    BY <1>0, <2>4 DEF Typed
  <2>7. Retries(l)
    BY <2>0, <2>3, <2>5, <2>6, Zenon DEF Retries, history, round
  <2> QED
    BY <2>7 DEF Effect
<1>5. CASE MessageDeleted(l)
  BY <1>0, <1>5, MoveFields DEF MessageDeleted, Effect, ComesBack
<1> QED
  BY <1>1, <1>2, <1>3, <1>4, <1>5

LEMMA EffectRound ==
  ASSUME IndInv, NEW l \in Calls,
         \/ PlaceholderSaved(l) \/ EndsInQuestion(l) \/ EndsInCall(l) \/ Finishes(l)
         \/ TailAwaited(l) \/ FinalSaved(l) \/ ConversationSaved(l) \/ HandleSnapshot(l)
  PROVE  Effect(l)
<1>0. Typed
  BY DEF IndInv
<1>1. CASE PlaceholderSaved(l)
  BY <1>1 DEF PlaceholderSaved, Done, Goes, Effect, Sends
<1>2. CASE EndsInQuestion(l)
  BY <1>0, <1>2, MoveFields DEF EndsInQuestion, Ended, Effect, Moves, GoesOn
<1>3. CASE EndsInCall(l)
  BY <1>0, <1>3, MoveFields DEF EndsInCall, Ended, Effect, Moves, GoesOn
<1>4. CASE Finishes(l)
  <2>1. /\ UNCHANGED run /\ call[l].pc = "running" /\ run[call[l].reply].state = "ended"
        /\ Goes(l, "tailFinal") \/ Returns(l)
    BY <1>4 DEF Finishes, Ended
  <2>2. CASE Goes(l, "tailFinal")
    BY <1>0, <2>1, <2>2, MoveFields DEF Effect, Moves, GoesOn
  <2>3. CASE Returns(l)
    BY <1>0, <2>1, <2>3, MoveFields DEF Effect, ComesBack
  <2> QED
    BY <2>1, <2>2, <2>3
<1>5. CASE TailAwaited(l)
  <2>1. CASE call[l].pc = "tailCall" /\ Issues(l, "saveCall", queue)
    BY <1>0, <1>5, <2>1, MoveFields DEF TailAwaited, Effect, Moves, GoesOn
  <2>2. CASE call[l].pc = "tailFinal" /\ Issues(l, "saveFinal", queue)
    BY <1>0, <1>5, <2>2, MoveFields DEF TailAwaited, Effect, Moves, GoesOn
  <2> QED
    BY <1>5, <2>1, <2>2 DEF TailAwaited
<1>6. CASE FinalSaved(l)
  BY <1>0, <1>6, MoveFields DEF FinalSaved, Done, Effect, Moves, GoesOn
<1>7. CASE ConversationSaved(l)
  BY <1>0, <1>7, MoveFields DEF ConversationSaved, Effect, ComesBack
<1>8. CASE HandleSnapshot(l)
  BY <1>8 DEF HandleSnapshot, Effect
<1> QED
  BY <1>1, <1>2, <1>3, <1>4, <1>5, <1>6, <1>7, <1>8

LEMMA EffectTool ==
  ASSUME IndInv, NEW l \in Calls,
         \/ CallSaved(l) \/ Approved(l) \/ Rejected(l)
         \/ \E result \in {"ok", "failed"} : ToolReturns(l, result)
         \/ ResultSaved(l) \/ QuestionSaved(l) \/ Answered(l) \/ AnswerSaved(l)
  PROVE  Effect(l)
<1> DEFINE c == call[l].session
           r == call[l].reply
<1>0. /\ c \in Sessions /\ session[c].view \in Messages /\ Typed
      /\ call[l].history \in Messages /\ store \in Messages /\ call[l] \in Coroutines
      /\ call[l].retry \in BOOLEAN /\ call[l].verdict \in Verdicts
      /\ Backed(session[c].view) /\ Backed(call[l].history) /\ Backed(store)
  BY CallFields, SessionFields DEF IndInv, Typed, MessagesBacked
<1>a. call[l].pc \in After
  BY Zenon DEF CallSaved, Approved, Rejected, ToolReturns, ResultSaved, QuestionSaved, Answered,
         AnswerSaved, Done, After, Loop
<1>b. r \in Replies /\ run[r].state = "ended" /\ r \in Used
  BY <1>a, EndedUsed
<1>c. call[l].round \in Nat /\ call[l].round < r + (IF call[l].retry THEN 1 ELSE 0)
  <2>1. call[l].pc \in Loop
    BY Zenon DEF CallSaved, Approved, Rejected, ToolReturns, ResultSaved, QuestionSaved, Answered,
           AnswerSaved, Done, Loop
  <2>2. call[l].round \in Nat
    BY CallFields, Bounds DEF IndInv
  <2> QED
    BY <2>1, <2>2 DEF IndInv, RoundsCounted
<1>1. CASE CallSaved(l)
  <2> DEFINE history == [call[l].history EXCEPT ![r].status = "completed"]
             pc == IF run[r].risky THEN "approve" ELSE "tool"
             new == [call[l] EXCEPT !.history = history, !.verdict = "none", !.pc = pc]
  <2>1. call' = [call EXCEPT ![l] = new] /\ UNCHANGED run /\ call[l].pc = "saveCall"
    BY <1>0, <1>1 DEF CallSaved, Done, Typed
  <2>2. pc \in {"approve", "tool"}
    OBVIOUS
  <2> HIDE DEF history, pc
  <2>3. /\ new.pc = pc /\ new.history = history /\ new.round = call[l].round
        /\ new.reply = r /\ new.retry = call[l].retry
    BY <1>0 DEF Coroutines
  <2> HIDE DEF new
  <2>4. call'[l] = new
    BY <1>0, <2>1 DEF Typed
  <2> QED
    BY <2>1, <2>2, <2>3, <2>4 DEF Effect, Moves, Completes, history
<1>2. CASE Approved(l)
  BY <1>0, <1>2, MoveFields DEF Approved, Effect, Moves, GoesOn
<1>3. CASE Rejected(l)
  <2> DEFINE history == [call[l].history EXCEPT ![r].result = "rejected"]
  <2>1. call[l].pc = "approve" /\ l \in Owing
    BY <1>3, OwingPcs DEF Rejected
  <2>2. ~call[l].retry /\ RoundsInTurn(call[l].history) <= call[l].round + 1
    BY <2>1 DEF IndInv, RoundsCounted, Loop
  <2>3. /\ history \in Messages /\ Backed(history)
        /\ RoundsInTurn(history) <= RoundsInTurn(call[l].history)
    BY <1>0, <1>b, MessageTypes, BackedUpdates, RoundsOfResult
  <2>4. NextRound(l, history, call[l].round + 1, FALSE, store, queue)
    BY <1>3 DEF Rejected
  <2>5. RoundsInTurn(history) \in Nat /\ RoundsInTurn(call[l].history) \in Nat
    BY RoundsInTurnType, Bounds
  <2> HIDE DEF history
  <2>6. RoundsInTurn(history) <= call[l].round + 1
    BY <1>c, <2>2, <2>3, <2>5
  <2>7. call[l].round + 1 \in Nat /\ call[l].round + 1 <= r
    BY <1>b, <1>c, <2>2, Bounds DEF Replies
  <2> QED
    BY <1>0, <1>b, <2>1, <2>3, <2>4, <2>6, <2>7, AsksStep DEF Effect
<1>4. ASSUME NEW result \in {"ok", "failed"}, ToolReturns(l, result) PROVE Effect(l)
  <2> DEFINE new == [call[l] EXCEPT !.pc = "saveResult", !.verdict = result]
  <2>1. call' = [call EXCEPT ![l] = new] /\ UNCHANGED run /\ call[l].pc = "tool"
    BY <1>0, <1>4 DEF ToolReturns, Typed
  <2>2. /\ new.pc = "saveResult" /\ new.history = call[l].history /\ new.round = call[l].round
        /\ new.reply = r /\ new.retry = call[l].retry /\ new.verdict = result
    BY <1>0 DEF Coroutines
  <2> HIDE DEF new
  <2>3. call'[l] = new
    BY <1>0, <2>1 DEF Typed
  <2> QED
    BY <2>1, <2>2, <2>3 DEF Effect, Moves, GoesOn
<1>5. CASE ResultSaved(l)
  <2> DEFINE history == [call[l].history EXCEPT ![r].result = call[l].verdict]
             stored == [store EXCEPT ![r].result = call[l].verdict]
             round == call[l].round + (IF call[l].retry THEN 0 ELSE 1)
  <2>1. call[l].pc = "saveResult" /\ l \in Owing
    BY <1>5, OwingPcs DEF ResultSaved, Done
  <2>2. /\ RoundsInTurn(call[l].history) <= round
        /\ call[l].verdict \in {"ok", "failed"}
    BY <2>1 DEF IndInv, RoundsCounted, Requests
  <2>3. /\ history \in Messages /\ stored \in Messages /\ Backed(history) /\ Backed(stored)
        /\ RoundsInTurn(history) <= RoundsInTurn(call[l].history)
    BY <1>0, <1>b, <2>2, MessageTypes, BackedUpdates, RoundsOfResult, Zenon
  <2>4. NextRound(l, history, round, FALSE, stored, Tail(queue))
    BY <1>5 DEF ResultSaved
  <2>5. RoundsInTurn(history) \in Nat /\ RoundsInTurn(call[l].history) \in Nat
    BY RoundsInTurnType, Bounds
  <2> HIDE DEF history, stored
  <2>6. round \in Nat /\ round <= r
    BY <1>0, <1>b, <1>c, Bounds DEF Replies
  <2> HIDE DEF round
  <2>7. RoundsInTurn(history) <= round
    BY <2>2, <2>3, <2>5, <2>6
  <2> QED
    BY <1>0, <1>b, <2>1, <2>3, <2>4, <2>6, <2>7, AsksStep DEF Effect
<1>6. CASE QuestionSaved(l)
  <2> DEFINE history == Settle(session[c].view, r, "completed")
             new == [call[l] EXCEPT !.pc = "ask", !.history = history, !.verdict = "none"]
  <2>1. call' = [call EXCEPT ![l] = new] /\ UNCHANGED run /\ call[l].pc = "saveQuestion"
    BY <1>0, <1>6 DEF QuestionSaved, Done, Typed
  <2> HIDE DEF history
  <2>2. /\ new.pc = "ask" /\ new.history = history /\ new.round = call[l].round
        /\ new.reply = r /\ new.retry = call[l].retry
    BY <1>0 DEF Coroutines
  <2> HIDE DEF new
  <2>3. call'[l] = new
    BY <1>0, <2>1 DEF Typed
  <2> QED
    BY <2>1, <2>2, <2>3 DEF Effect, Moves, Asking, history
<1>7. CASE Answered(l)
  <2>1. /\ UNCHANGED run /\ call[l].pc = "ask"
        /\ Issues(l, "saveAnswer", queue) \/ Returns(l)
    BY <1>7 DEF Answered
  <2>2. CASE Issues(l, "saveAnswer", queue)
    BY <1>0, <2>1, <2>2, MoveFields DEF Effect, Moves, GoesOn
  <2>3. CASE Returns(l)
    BY <1>0, <2>1, <2>3, MoveFields DEF Effect, ComesBack
  <2> QED
    BY <2>1, <2>2, <2>3
<1>8. CASE AnswerSaved(l)
  <2>1. call[l].pc = "saveAnswer" /\ l \in Owing
    BY <1>8, OwingPcs DEF AnswerSaved, Done
  <2>2. ~call[l].retry
    BY <2>1 DEF IndInv, RoundsCounted, Loop
  <2>3. call[l].round + 1 \in Nat /\ call[l].round + 1 <= r
    BY <1>b, <1>c, <2>2, Bounds DEF Replies
  <2>4. NextRound(l, call[l].history, call[l].round + 1, TRUE, store, Tail(queue))
    BY <1>8 DEF AnswerSaved
  <2> QED
    BY <1>0, <1>b, <2>1, <2>3, <2>4, AsksStep DEF Effect
<1> QED
  BY <1>1, <1>2, <1>3, <1>4, <1>5, <1>6, <1>7, <1>8

LEMMA EffectFailure ==
  ASSUME IndInv, NEW l \in Calls,
         ThrowsToCaller(l) \/ LoopFails(l) \/ Recovers(l) \/ FailureSaved(l)
  PROVE  Effect(l)
<1> DEFINE c == call[l].session
<1>0. /\ Typed /\ call[l] \in Coroutines /\ c \in Sessions
      /\ session[c].view \in Messages
  BY CallFields, SessionFields DEF IndInv
<1>1. CASE ThrowsToCaller(l)
  BY <1>0, <1>1, MoveFields DEF ThrowsToCaller, Effect, ComesBack
<1>2. CASE LoopFails(l)
  <2> DEFINE refused == Refused(Completers(c))
             new == [refused[l] EXCEPT !.pc = "tailFailed"]
  <2>1. refused \in [Calls -> Coroutines] /\ refused[l].history = call[l].history
    BY <1>0, RefusedType
  <2>2. call' = [refused EXCEPT ![l] = new]
    BY <1>2, <2>1 DEF LoopFails
  <2>3. new.pc = "tailFailed" /\ new.history = refused[l].history
    BY <2>1 DEF Coroutines
  <2> HIDE DEF new, refused
  <2>4. call'[l] = new
    BY <2>1, <2>2
  <2>5. UNCHANGED run \/ GivesBack(l)
    BY <1>2 DEF LoopFails, GivesBack
  <2> QED
    BY <2>1, <2>3, <2>4, <2>5 DEF Effect, Fails
<1>3. CASE Recovers(l)
  <2> DEFINE view == session[c].view
             x == Last(Unsettled(view))
  <2>1. CASE Unsettled(view) = {}
    BY <1>0, <1>3, <2>1, MoveFields DEF Recovers, Effect, ComesBack
  <2>2. CASE Unsettled(view) # {}
    <3> DEFINE history == [view EXCEPT ![x].status = "failed"]
               new == [call[l] EXCEPT !.pc = "saveFailed", !.reply = x, !.history = history]
    <3>1. call' = [call EXCEPT ![l] = new] /\ UNCHANGED run
      BY <1>0, <1>3, <2>2 DEF Recovers, Typed
    <3>2. x \in Replies
      <4>1. Unsettled(view) \subseteq Replies
        BY DEF Unsettled
      <4> QED
        BY <2>2, <4>1, LastOf
    <3> HIDE DEF history, x
    <3>3. new.pc = "saveFailed" /\ new.reply = x /\ new.history = history
      BY <1>0 DEF Coroutines
    <3> HIDE DEF new
    <3>4. call'[l] = new
      BY <1>0, <3>1 DEF Typed
    <3> QED
      BY <3>1, <3>2, <3>3, <3>4 DEF Effect, Finds, history
  <2> QED
    BY <2>1, <2>2
<1>4. CASE FailureSaved(l)
  BY <1>0, <1>4, MoveFields DEF FailureSaved, Effect, ComesBack
<1> QED
  BY <1>1, <1>2, <1>3, <1>4

LEMMA Effects ==
  ASSUME IndInv, NEW l \in Calls, HandleSnapshot(l) \/ Coroutine(l)
  PROVE  Effect(l)
BY EffectTurn, EffectRound, EffectTool, EffectFailure DEF Coroutine

-------------------------------------------------------------------------------
(* The numbers of the answers, and the state of the requests. *)

(* A request that has ended stays as it is. *)
EndedKept ==
  \A r \in Replies : run[r].state = "ended" =>
     run'[r].state = "ended" /\ run'[r].outcome = run[r].outcome /\ run'[r].risky = run[r].risky

(* The request of another call that is at savePlaceholder or running. *)
OthersKept(l) ==
  \A k \in Calls : k # l /\ call[k].pc \in {"savePlaceholder", "running"} =>
     run'[call[k].reply] = run[call[k].reply]

LEMMA EffectRuns ==
  ASSUME IndInv, NEW l \in Calls, Effect(l), CallStep(l)
  PROVE  EndedKept /\ OthersKept(l)
<1>0. /\ run \in [Replies -> Runs] /\ Requests /\ OwnReplies
      /\ \A x \in Replies : run[x] \in Runs
      /\ \A k \in Calls : call[k].pc \in {"savePlaceholder", "running"} =>
            call[k].reply \in Replies /\ run[call[k].reply].state \in {"reserved", "open", "ended"}
  BY DEF IndInv, Typed, Requests, Numbered, Loop
<1>1. CASE UNCHANGED run
  BY <1>1 DEF EndedKept, OthersKept
<1>2. CASE Asks(l)
  <2>1. PICK r \in Replies : /\ run[r].state = "unused"
                             /\ run' = [run EXCEPT ![r] = [run[r] EXCEPT !.state = "reserved"]]
    BY <1>2, Zenon DEF Asks, Reserves
  <2> QED
    BY <1>0, <2>1 DEF EndedKept, OthersKept
<1>3. ASSUME NEW x \in Replies, call[l].pc = "savePlaceholder", call[l].reply = x,
             NEW new, run' = [run EXCEPT ![x] = new]
      PROVE  EndedKept /\ OthersKept(l)
  <2>1. run[x].state = "reserved"
    BY <1>0, <1>3 DEF Requests
  <2>2. \A k \in Calls : k # l /\ call[k].pc \in {"savePlaceholder", "running"}
                            => call[k].reply # x
    BY <1>0, <1>3 DEF OwnReplies
  <2> QED
    BY <1>0, <1>3, <2>1, <2>2 DEF EndedKept, OthersKept
<1>4. CASE Sends(l)
  <2>1. call[l].pc = "savePlaceholder" /\ call[l].reply \in Replies
    BY <1>0, <1>4 DEF Sends
  <2>2. run' = [run EXCEPT ![call[l].reply] = [run[call[l].reply] EXCEPT !.state = "open"]]
    BY <1>0, <1>4, <2>1 DEF Sends
  <2> QED
    BY <2>1, <2>2, <1>3
<1>5. CASE GivesBack(l)
  <2>1. call[l].pc = "savePlaceholder" /\ call[l].reply \in Replies
    BY <1>0, <1>5 DEF GivesBack
  <2> QED
    BY <1>5, <2>1, <1>3 DEF GivesBack
<1> QED
  BY <1>1, <1>2, <1>4, <1>5, Zenon DEF Effect, Moves, Retries, Fails, Finds, ComesBack

LEMMA OwingOthers ==
  ASSUME NEW l \in Calls, LeavesCalls(l), OthersKept(l), NEW k \in Calls, k # l, k \in Owing'
  PROVE  k \in Owing
<1>1. /\ call'[k].pc = call[k].pc /\ call'[k].reply = call[k].reply
      /\ call'[k].round = call[k].round
  BY DEF LeavesCalls
<1>2. call[k].pc = "running" => run'[call[k].reply] = run[call[k].reply]
  BY DEF OthersKept
<1> QED
  BY <1>1, <1>2 DEF Owing, CallsTool, OffersTools

(* The bound holds on when no answer more is in use and no call more is owing, *)
LEMMA CapacityKept ==
  ASSUME Numbers, Capacity, Used' = Used, Owing' \subseteq Owing
  PROVE  Numbers' /\ Capacity'
<1>1. Numbers'
  BY DEF Numbers
<1>2. Cardinality(Owing') <= Cardinality(Owing) /\ Cardinality(Owing') \in Nat
      /\ Cardinality(Owing) \in Nat /\ Cardinality(Used) \in Nat
  <2>1. Owing \subseteq Calls /\ Used \subseteq Replies
    BY DEF Owing, Used
  <2> QED
    BY <2>1, FiniteParts, FS_Subset
<1> DEFINE u == Cardinality(Used)
           v == Cardinality(Used')
           i == Cardinality(Owing)
           j == Cardinality(Owing')
<1>3. u + i <= MaxReplies /\ j <= i /\ u \in Nat /\ i \in Nat /\ j \in Nat /\ v = u
  BY <1>2 DEF Capacity
<1> HIDE DEF u, i, j, v
<1>4. v + j <= MaxReplies
  BY <1>3, Bounds
<1> QED
  BY <1>1, <1>4 DEF Capacity, v, j

(* and when a call that was owing has an answer more. *)
LEMMA CapacityUsed ==
  ASSUME Numbers, Capacity, NEW l \in Owing, NEW r \in Replies, Used = 1 .. r - 1,
         Used' = 1 .. r, Owing' \subseteq Owing \ {l}
  PROVE  Numbers' /\ Capacity'
<1>1. r \in Nat /\ r - 1 \in Nat /\ r \in 0 .. MaxReplies
  BY Bounds DEF Replies
<1>2. Numbers'
  BY <1>1 DEF Numbers
<1>3. Cardinality(Used) = r - 1 /\ Cardinality(Used') = r
  BY <1>1, FS_Interval
<1>4. Owing \subseteq Calls /\ IsFiniteSet(Owing) /\ Cardinality(Owing) \in Nat
  BY FiniteParts DEF Owing
<1>5. Cardinality(Owing \ {l}) = Cardinality(Owing) - 1 /\ IsFiniteSet(Owing \ {l})
  BY <1>4, FS_RemoveElement
<1>6. Cardinality(Owing') <= Cardinality(Owing \ {l}) /\ Cardinality(Owing') \in Nat
  BY <1>4, <1>5, FiniteParts, FS_Subset
<1> DEFINE u == Cardinality(Used')
           i == Cardinality(Owing)
           j == Cardinality(Owing')
<1>7. r - 1 + i <= MaxReplies /\ j <= i - 1 /\ i \in Nat /\ j \in Nat /\ u = r
  BY <1>3, <1>4, <1>5, <1>6 DEF Capacity
<1> HIDE DEF u, i, j
<1>8. u + j <= MaxReplies
  BY <1>1, <1>7, Bounds
<1> QED
  BY <1>2, <1>8 DEF Capacity, u, j

LEMMA CapacityStep ==
  ASSUME IndInv, NEW l \in Calls, Effect(l), CallStep(l)
  PROVE  Numbers' /\ Capacity'
<1>0. /\ run \in [Replies -> Runs] /\ Numbers /\ Capacity /\ LeavesCalls(l) /\ OthersKept(l)
      /\ Requests
  BY EffectRuns DEF IndInv, Typed, CallStep
<1>1. ASSUME l \notin Owing' \/ l \in Owing PROVE Owing' \subseteq Owing
  <2>1. \A k \in Owing' : k \in Calls
    BY DEF Owing
  <2> QED
    BY <1>0, <1>1, <2>1, OwingOthers
<1>2. UNCHANGED run => Used' = Used
  BY DEF Used
<1>3. CASE Asks(l)
  <2>0. PICK r \in Replies : \E history, round, asked, stored, before :
               Reserves(l, r, history, round, asked, stored, before)
    BY <1>3 DEF Asks
  <2>1. PICK history, round, asked, stored, before :
               Reserves(l, r, history, round, asked, stored, before)
    BY <2>0
  <2>2. Used = 1 .. r - 1 /\ run' = [run EXCEPT ![r] = [run[r] EXCEPT !.state = "reserved"]]
    BY <2>1 DEF Reserves
  <2>3. Used' = Used \cup {r}
    BY <1>0, <2>2 DEF Used, Runs
  <2>4. Used' = 1 .. r
    BY <2>2, <2>3, Bounds DEF Replies
  <2>5. call'[l].pc = "savePlaceholder"
    <3> DEFINE new == [call[l] EXCEPT !.pc = "savePlaceholder", !.retry = FALSE, !.round = round,
                         !.reply = r, !.history = [history EXCEPT ![r].user = asked],
                         !.verdict = "none"]
    <3>1. call[l] \in Coroutines /\ call \in [Calls -> Coroutines] /\ call' = [call EXCEPT ![l] = new]
      BY <2>1, CallFields DEF IndInv, Typed, Reserves
    <3>2. new.pc = "savePlaceholder"
      BY <3>1 DEF Coroutines
    <3> QED
      BY <3>1, <3>2
  <2>6. l \notin Owing' /\ l \in Owing
    BY <1>3, <2>5 DEF Asks, Owing
  <2> QED
    BY <1>0, <1>1, <2>2, <2>4, <2>6, CapacityUsed
<1>4. CASE Sends(l)
  <2>1. call[l].reply \in Replies /\ run[call[l].reply].state = "reserved"
    BY <1>0, <1>4 DEF Sends, Requests, Numbered, Loop
  <2>2. Used' = Used
    BY <1>0, <1>4, <2>1 DEF Sends, Used, Runs
  <2>3. call'[l].pc = "running" /\ call'[l].reply = call[l].reply
    BY <1>4, MoveFields DEF Sends, Goes, IndInv
  <2>4. run'[call[l].reply].state = "open"
    BY <1>0, <1>4, <2>1 DEF Sends, Runs
  <2>5. l \notin Owing'
    BY <2>3, <2>4 DEF Owing
  <2> QED
    BY <1>0, <1>1, <2>2, <2>5, CapacityKept
<1>5. CASE Moves(l)
  <2>1. l \in Owing' => l \in Owing
    BY <1>5 DEF Moves, Completes, Asking, GoesOn, Owing
  <2> QED
    BY <1>0, <1>1, <1>2, <1>5, <2>1, CapacityKept DEF Moves
<1>6. CASE Retries(l)
  BY <1>0, <1>1, <1>2, <1>6, CapacityKept, OwingPcs DEF Retries
<1>7. CASE Fails(l)
  <2>1. l \notin Owing'
    BY <1>7 DEF Fails, Owing
  <2>2. CASE UNCHANGED run
    BY <1>0, <1>1, <1>2, <2>1, <2>2, CapacityKept
  <2>3. CASE GivesBack(l)
    <3> DEFINE r == call[l].reply
    <3>1. r \in Replies /\ run[r].state = "reserved" /\ r \in Used /\ \A x \in Used : x <= r
      BY <1>0, <2>3 DEF GivesBack, Requests, Numbered, Loop, Used
    <3>2. PICK n \in 0 .. MaxReplies : Used = 1 .. n
      BY <1>0 DEF Numbers
    <3>3. n = r
      <4>1. r <= n /\ n >= 1
        BY <3>1, <3>2, Bounds DEF Replies
      <4>2. n \in Used
        BY <3>2, <4>1, Bounds
      <4> QED
        BY <3>1, <3>2, <4>1, <4>2, Bounds DEF Replies
    <3>4. Used' = Used \ {r}
      BY <1>0, <2>3, <3>1 DEF GivesBack, Used, NewRun
    <3>5. Used' = 1 .. r - 1 /\ r - 1 \in 0 .. MaxReplies /\ r \in Nat
      BY <3>1, <3>2, <3>3, <3>4, Bounds DEF Replies
    <3>6. Numbers'
      BY <3>5 DEF Numbers
    <3>7. Cardinality(Used) = r /\ Cardinality(Used') = r - 1
      <4>1. r \in Int /\ r - 1 \in Int /\ 1 \in Int /\ r >= 1
        BY <3>1, Bounds DEF Replies
      <4>2. Cardinality(1 .. r) = r
        <5>1. Cardinality(1 .. r) = IF 1 > r THEN 0 ELSE r - 1 + 1
          BY <4>1, FS_Interval
        <5> QED
          BY <4>1, <5>1
      <4>3. Cardinality(1 .. r - 1) = r - 1
        <5>1. Cardinality(1 .. r - 1) = IF 1 > r - 1 THEN 0 ELSE r - 1 - 1 + 1
          BY <4>1, FS_Interval
        <5> QED
          BY <4>1, <5>1
      <4> QED
        BY <3>2, <3>3, <3>5, <4>2, <4>3
    <3>8. Cardinality(Owing') <= Cardinality(Owing) /\ Cardinality(Owing') \in Nat
          /\ Cardinality(Owing) \in Nat
      <4>1. Owing \subseteq Calls /\ Owing' \subseteq Owing
        BY <1>1, <2>1 DEF Owing
      <4> QED
        BY <4>1, FiniteParts, FS_Subset
    <3> DEFINE u == Cardinality(Used')
               i == Cardinality(Owing)
               j == Cardinality(Owing')
    <3>9. r + i <= MaxReplies /\ j <= i /\ i \in Nat /\ j \in Nat /\ u = r - 1
      BY <1>0, <3>7, <3>8 DEF Capacity
    <3> HIDE DEF u, i, j
    <3>10. u + j <= MaxReplies
      BY <3>5, <3>9, Bounds
    <3> QED
      BY <3>6, <3>10 DEF Capacity, u, j
  <2> QED
    BY <1>7, <2>2, <2>3 DEF Fails
<1>8. CASE Finds(l)
  <2>1. l \notin Owing'
    BY <1>8 DEF Finds, Owing
  <2> QED
    BY <1>0, <1>1, <1>2, <1>8, <2>1, CapacityKept DEF Finds
<1>9. CASE ComesBack(l)
  <2>1. call'[l].pc = "returned"
    BY <1>9 DEF ComesBack, NewCall
  <2>2. l \notin Owing'
    BY <2>1 DEF Owing
  <2> QED
    BY <1>0, <1>1, <1>2, <1>9, <2>2, CapacityKept DEF ComesBack
<1>10. CASE UNCHANGED <<call, run>>
  <2>1. Owing' = Owing
    BY <1>10 DEF Owing, CallsTool, OffersTools
  <2> QED
    BY <1>0, <1>2, <1>10, <2>1, CapacityKept
<1> QED
  BY <1>3, <1>4, <1>5, <1>6, <1>7, <1>8, <1>9, <1>10 DEF Effect

(* A call that asks for the answer with number r. *)
AskingFor(l, r, history, round, asked, stored) ==
  /\ run[r].state = "unused" /\ Used = 1 .. r - 1
  /\ call'[l].pc = "savePlaceholder" /\ call'[l].reply = r /\ call'[l].round = round
  /\ call'[l].retry = FALSE /\ call'[l].history = [history EXCEPT ![r].user = asked]
  /\ run'[r].state = "reserved" /\ run'[r].outcome = run[r].outcome
  /\ \A x \in Replies : x # r => run'[x] = run[x]
  /\ store' = [stored EXCEPT ![r].user = asked]
  /\ round < r
  /\ asked \/ RoundsInTurn(history) <= round
  /\ Backed(history) /\ Backed(stored)

LEMMA AsksFields ==
  ASSUME Typed, NEW l \in Calls, Asks(l)
  PROVE  \E r \in Replies, history \in Messages, round \in Nat, asked \in BOOLEAN,
             stored \in Messages : AskingFor(l, r, history, round, asked, stored)
<1>1. PICK r \in Replies, history \in Messages, round \in Nat, asked \in BOOLEAN,
           stored \in Messages :
       /\ \E before : Reserves(l, r, history, round, asked, stored, before)
       /\ round < r
       /\ asked \/ RoundsInTurn(history) <= round
       /\ Backed(history) /\ Backed(stored)
  BY DEF Asks
<1> DEFINE messages == [history EXCEPT ![r].user = asked]
           new == [call[l] EXCEPT !.pc = "savePlaceholder", !.retry = FALSE, !.round = round,
                                  !.reply = r, !.history = messages, !.verdict = "none"]
           next == [run[r] EXCEPT !.state = "reserved"]
<1>2. /\ call[l] \in Coroutines /\ call \in [Calls -> Coroutines]
      /\ run[r] \in Runs /\ run \in [Replies -> Runs]
  BY DEF Typed
<1>3. call' = [call EXCEPT ![l] = new] /\ run' = [run EXCEPT ![r] = next]
  BY <1>1 DEF Reserves
<1> HIDE DEF messages
<1>4. /\ new.pc = "savePlaceholder" /\ new.reply = r /\ new.round = round
      /\ new.retry = FALSE /\ new.history = messages
  BY <1>2 DEF Coroutines
<1>5. next.state = "reserved" /\ next.outcome = run[r].outcome
  BY <1>2 DEF Runs
<1> HIDE DEF new, next
<1>6. call'[l] = new /\ run'[r] = next /\ \A x \in Replies : x # r => run'[x] = run[x]
  BY <1>2, <1>3
<1>7. AskingFor(l, r, history, round, asked, stored)
  BY <1>1, <1>4, <1>5, <1>6 DEF AskingFor, Reserves, messages
<1> QED
  BY <1>7

LEMMA RequestsStep ==
  ASSUME IndInv, NEW l \in Calls, Effect(l), CallStep(l)
  PROVE  Requests' /\ OwnReplies'
<1>0. /\ run \in [Replies -> Runs] /\ LeavesCalls(l) /\ OthersKept(l) /\ EndedKept
      /\ Requests /\ OwnReplies /\ Typed
  BY EffectRuns DEF IndInv, Typed, CallStep
<1>a. ASSUME NEW k \in Calls, k # l
      PROVE  /\ call'[k].pc \in Numbered => call'[k].reply \in Replies
             /\ call'[k].pc = "savePlaceholder" => run'[call'[k].reply].state = "reserved"
             /\ call'[k].pc = "running" => run'[call'[k].reply].state \in {"open", "ended"}
             /\ call'[k].pc \in After => run'[call'[k].reply].state = "ended"
             /\ call'[k].pc = "saveResult" => call'[k].verdict \in {"ok", "failed"}
             /\ call'[k].pc = "deleteMessage" => call'[k].part \in Parts
  <2>1. /\ call'[k].pc = call[k].pc /\ call'[k].reply = call[k].reply
        /\ call'[k].part = call[k].part
        /\ call[k].verdict # "none" => call'[k].verdict = call[k].verdict
    BY <1>0, <1>a DEF LeavesCalls
  <2>2. call[k].pc \in {"savePlaceholder", "running"} => run'[call[k].reply] = run[call[k].reply]
    BY <1>0, <1>a DEF OthersKept
  <2>3. call[k].pc \in After => run'[call[k].reply].state = "ended"
    BY <1>0, EndedUsed DEF EndedKept
  <2> QED
    BY <1>0, <2>1, <2>2, <2>3 DEF Requests
<1>b. ASSUME \A r \in Replies : run'[r].outcome # "none" => run'[r].state = "ended",
             /\ call'[l].pc \in Numbered => call'[l].reply \in Replies
             /\ call'[l].pc = "savePlaceholder" => run'[call'[l].reply].state = "reserved"
             /\ call'[l].pc = "running" => run'[call'[l].reply].state \in {"open", "ended"}
             /\ call'[l].pc \in After => run'[call'[l].reply].state = "ended"
             /\ call'[l].pc = "saveResult" => call'[l].verdict \in {"ok", "failed"}
             /\ call'[l].pc = "deleteMessage" => call'[l].part \in Parts
      PROVE  Requests'
  BY <1>a, <1>b DEF Requests
<1>c. ASSUME \A k \in Calls : /\ k # l /\ call[k].pc \in {"savePlaceholder", "running"}
                              /\ call'[l].pc \in {"savePlaceholder", "running"}
                              => call[k].reply # call'[l].reply
      PROVE  OwnReplies'
  <2>1. ASSUME NEW i \in Calls, NEW j \in Calls, i # j, call'[i].reply = call'[j].reply,
               {call'[i].pc, call'[j].pc} \subseteq {"savePlaceholder", "running"}
        PROVE  FALSE
    <3>1. CASE i # l /\ j # l
      BY <1>0, <2>1, <3>1 DEF LeavesCalls, OwnReplies
    <3>2. CASE i = l
      BY <1>0, <1>c, <2>1, <3>2 DEF LeavesCalls
    <3>3. CASE j = l
      BY <1>0, <1>c, <2>1, <3>3 DEF LeavesCalls
    <3> QED
      BY <3>1, <3>2, <3>3
  <2> QED
    BY <2>1 DEF OwnReplies
<1>d. UNCHANGED run => \A r \in Replies : run'[r].outcome # "none" => run'[r].state = "ended"
  BY <1>0 DEF Requests
<1>1. CASE Asks(l)
  <2>1. PICK r \in Replies, history \in Messages, round \in Nat, asked \in BOOLEAN,
             stored \in Messages : AskingFor(l, r, history, round, asked, stored)
    BY <1>0, <1>1, AsksFields
  <2>2. /\ call'[l].pc = "savePlaceholder" /\ call'[l].reply = r
        /\ run'[r].state = "reserved" /\ run'[r].outcome = run[r].outcome
        /\ \A x \in Replies : x # r => run'[x] = run[x]
    BY <2>1 DEF AskingFor
  <2>3. run[r].state = "unused"
    BY <2>1 DEF AskingFor
  <2>4. \A x \in Replies : run'[x].outcome # "none" => run'[x].state = "ended"
    BY <1>0, <2>2, <2>3 DEF Requests
  <2>5. Requests'
    BY <1>b, <2>2, <2>4 DEF After, Loop
  <2>6. \A k \in Calls : call[k].pc \in {"savePlaceholder", "running"} => call[k].reply # r
    BY <1>0, <2>3 DEF Requests
  <2> QED
    BY <1>c, <2>2, <2>5, <2>6
<1>2. CASE Sends(l)
  <2> DEFINE r == call[l].reply
             new == [run[r] EXCEPT !.state = "open"]
  <2>1. call[l].pc = "savePlaceholder" /\ r \in Replies /\ run[r].state = "reserved"
    BY <1>0, <1>2 DEF Sends, Requests, Numbered, Loop
  <2>2. call'[l].pc = "running" /\ call'[l].reply = r
    BY <1>0, <1>2, MoveFields DEF Sends, Goes
  <2>3. run' = [run EXCEPT ![r] = new] /\ run[r] \in Runs
    BY <1>0, <1>2, <2>1 DEF Sends
  <2>4. new.state = "open" /\ new.outcome = run[r].outcome
    BY <2>3 DEF Runs
  <2>5. /\ run'[r].state = "open" /\ run'[r].outcome = run[r].outcome
        /\ \A x \in Replies : x # r => run'[x] = run[x]
    BY <1>0, <2>1, <2>3, <2>4
  <2>6. \A x \in Replies : run'[x].outcome # "none" => run'[x].state = "ended"
    BY <1>0, <2>1, <2>5 DEF Requests
  <2>7. Requests'
    BY <1>b, <2>1, <2>2, <2>5, <2>6 DEF After, Loop
  <2>8. OwnReplies'
    BY <1>0, <1>c, <2>1, <2>2 DEF OwnReplies
  <2> QED
    BY <2>7, <2>8
<1>3. CASE Moves(l)
  <2>1. /\ UNCHANGED run /\ call'[l].reply = call[l].reply
        /\ call'[l].pc \in After \cup {"saveAgain"}
        /\ call[l].pc = "discard" \/ call'[l].pc \in After
        /\ call'[l].pc = "saveResult" => call'[l].verdict \in {"ok", "failed"}
    BY <1>3 DEF Moves, Completes, Asking, GoesOn, After, Loop
  <2>2. call'[l].pc \in After => run[call[l].reply].state = "ended" /\ call[l].reply \in Replies
    <3>1. CASE call[l].pc \in After
      BY <3>1, EndedUsed
    <3>2. CASE call[l].pc = "running" /\ run[call[l].reply].state = "ended"
      BY <1>0, <3>2 DEF Requests, Numbered, Loop
    <3>3. CASE call'[l].pc = "saveAgain"
      BY <3>3 DEF After, Loop
    <3> QED
      BY <1>3, <3>1, <3>2, <3>3 DEF Moves, Completes, Asking, GoesOn, After, Loop
  <2>3. call[l].pc = "discard" => call[l].reply \in Replies
    BY <1>0 DEF Requests, Numbered
  <2>4. call'[l].pc \notin {"savePlaceholder", "running", "deleteMessage"}
    BY <2>1 DEF After, Loop
  <2> QED
    BY <1>b, <1>c, <1>d, <2>1, <2>2, <2>3, <2>4
<1>4. CASE Retries(l)
  <2>1. call[l].pc \in After /\ call'[l].pc = "tool" /\ call'[l].reply = call[l].reply
        /\ UNCHANGED run
    BY <1>4 DEF Retries, After
  <2> QED
    BY <1>b, <1>c, <1>d, <2>1, EndedUsed
<1>5. CASE Fails(l)
  <2>1. call'[l].pc = "tailFailed"
    BY <1>5 DEF Fails
  <2>2. \A x \in Replies : run'[x].outcome # "none" => run'[x].state = "ended"
    <3>1. CASE GivesBack(l)
      BY <1>0, <3>1 DEF GivesBack, Requests, NewRun
    <3> QED
      BY <1>5, <1>d, <3>1 DEF Fails
  <2> QED
    BY <1>b, <1>c, <2>1, <2>2 DEF Numbered, After, Loop
<1>6. CASE Finds(l)
  <2>1. call'[l].pc = "saveFailed" /\ call'[l].reply \in Replies /\ UNCHANGED run
    BY <1>6 DEF Finds
  <2> QED
    BY <1>b, <1>c, <1>d, <2>1 DEF After, Loop
<1>7. CASE ComesBack(l)
  <2>1. call'[l].pc = "returned" /\ UNCHANGED run
    BY <1>7 DEF ComesBack, NewCall
  <2> QED
    BY <1>b, <1>c, <1>d, <2>1 DEF Numbered, After, Loop
<1>8. CASE UNCHANGED <<call, run>>
  BY <1>0, <1>8 DEF Requests, OwnReplies
<1> QED
  BY <1>1, <1>2, <1>3, <1>4, <1>5, <1>6, <1>7, <1>8 DEF Effect

-------------------------------------------------------------------------------
(* The messages stay accounted for. *)

AskedKept == \A r \in Replies : Asked(r) => Asked(r)'

(* Messages that the requests will account for after the step. *)
BackedNext(messages) ==
  \A r \in Replies :
    /\ messages[r].status = "completed" \/ messages[r].result # "none"
         => run'[r].state = "ended"
    /\ messages[r].user => Asked(r)'

LEMMA BackedKept ==
  ASSUME EndedKept, AskedKept, NEW m, Backed(m)
  PROVE  BackedNext(m)
BY DEF EndedKept, AskedKept, Backed, BackedNext

LEMMA NothingBacked == Backed([r \in Replies |-> Nothing])
BY NothingMessage DEF Backed

LEMMA AskedStep ==
  ASSUME IndInv, NEW l \in Calls, Effect(l), CallStep(l)
  PROVE  AskedKept
<1>0. /\ run \in [Replies -> Runs] /\ LeavesCalls(l) /\ Typed /\ Requests
  BY DEF IndInv, Typed, CallStep
<1>1. ASSUME NEW x \in Replies, Asked(x), run'[x].state # "unused",
             call'[l].pc = "savePlaceholder" /\ call'[l].reply = x => call'[l].history[x].user
      PROVE  Asked(x)'
  <2>1. ASSUME NEW k \in Calls, call'[k].pc = "savePlaceholder", call'[k].reply = x
        PROVE  call'[k].history[x].user
    <3>1. CASE k = l
      BY <1>1, <2>1, <3>1
    <3>2. CASE k # l
      BY <1>0, <1>1, <2>1, <3>2 DEF LeavesCalls, Asked
    <3> QED
      BY <3>1, <3>2
  <2> QED
    BY <1>1, <2>1 DEF Asked
<1>2. ASSUME NEW x \in Replies, Asked(x)
      PROVE  /\ run'[x].state # "unused"
             /\ call'[l].pc = "savePlaceholder" /\ call'[l].reply = x => call'[l].history[x].user
  <2>0. run[x].state # "unused"
    BY <1>2 DEF Asked
  <2>1. CASE Asks(l)
    <3>1. PICK r \in Replies, history \in Messages, round \in Nat, asked \in BOOLEAN,
               stored \in Messages : AskingFor(l, r, history, round, asked, stored)
      BY <1>0, <2>1, AsksFields
    <3>2. x # r /\ run'[x] = run[x] /\ call'[l].reply = r
      BY <2>0, <3>1 DEF AskingFor
    <3> QED
      BY <2>0, <3>2
  <2>2. CASE Sends(l)
    <3>1. call'[l].pc = "running"
      BY <1>0, <2>2, MoveFields, Zenon DEF Sends, Goes
    <3>2. run'[x].state # "unused"
      BY <1>0, <2>0, <2>2 DEF Sends, Runs
    <3> QED
      BY <3>1, <3>2
  <2>3. CASE Moves(l) \/ Retries(l) \/ Finds(l) \/ ComesBack(l)
    <3>1. call'[l].pc # "savePlaceholder" /\ UNCHANGED run
      BY <2>3, Zenon DEF Moves, Completes, Asking, GoesOn, Retries, Finds, ComesBack, NewCall
    <3> QED
      BY <2>0, <3>1
  <2>4. CASE Fails(l)
    <3>1. call'[l].pc # "savePlaceholder"
      BY <2>4 DEF Fails
    <3>2. CASE GivesBack(l)
      <4>1. x # call[l].reply
        BY <1>2, <3>2 DEF GivesBack, Asked
      <4> QED
        BY <1>0, <2>0, <3>1, <3>2, <4>1 DEF GivesBack
    <3> QED
      BY <2>0, <2>4, <3>1, <3>2 DEF Fails
  <2>5. CASE UNCHANGED <<call, run>>
    BY <1>2, <2>0, <2>5 DEF Asked
  <2> QED
    BY <2>1, <2>2, <2>3, <2>4, <2>5 DEF Effect
<1> QED
  BY <1>1, <1>2 DEF AskedKept

(* A message of the user goes before the answer that is asked for. *)
LEMMA AskingBacked ==
  ASSUME IndInv, NEW l \in Calls, CallStep(l), EndedKept, AskedKept,
         NEW r \in Replies, NEW history \in Messages, NEW round \in Nat, NEW asked \in BOOLEAN,
         NEW stored \in Messages, AskingFor(l, r, history, round, asked, stored)
  PROVE  \A m \in Messages : Backed(m) => BackedNext([m EXCEPT ![r].user = asked])
<1> SUFFICES ASSUME NEW m \in Messages, Backed(m)
             PROVE  BackedNext([m EXCEPT ![r].user = asked])
  OBVIOUS
<1> DEFINE n == [m EXCEPT ![r].user = asked]
<1>1. BackedNext(m)
  BY BackedKept
<1>2. \A x \in Replies : /\ n[x].status = m[x].status /\ n[x].result = m[x].result
                         /\ x # r => n[x].user = m[x].user
                         /\ n[r].user = asked
  BY DEF Messages
<1> HIDE DEF n
<1>3. ASSUME asked PROVE Asked(r)'
  <2>1. run'[r].state # "unused" /\ call'[l].history = [history EXCEPT ![r].user = TRUE]
    BY <1>3 DEF AskingFor
  <2>2. call'[l].history[r].user
    BY <2>1 DEF Messages
  <2>3. ASSUME NEW k \in Calls, call'[k].pc = "savePlaceholder", call'[k].reply = r, k # l
        PROVE  FALSE
    <3>1. call[k].pc = "savePlaceholder" /\ call[k].reply = r
      BY <2>3 DEF CallStep, LeavesCalls
    <3> QED
      BY <3>1 DEF AskingFor, IndInv, Requests
  <2> QED
    BY <2>1, <2>2, <2>3 DEF Asked
<1>4. BackedNext(n)
  BY <1>1, <1>2, <1>3 DEF BackedNext
<1> QED
  BY <1>4 DEF n

LEMMA HistoriesStep ==
  ASSUME IndInv, NEW l \in Calls, Effect(l), CallStep(l)
  PROVE  \A k \in Calls : BackedNext(call'[k].history)
<1>0. /\ LeavesCalls(l) /\ Typed /\ EndedKept /\ AskedKept
      /\ call[l].session \in Sessions
      /\ session[call[l].session].view \in Messages /\ Backed(session[call[l].session].view)
      /\ \A k \in Calls : call[k].history \in Messages /\ Backed(call[k].history)
  BY EffectRuns, AskedStep, CallFields, SessionFields DEF IndInv, CallStep, MessagesBacked
<1>1. ASSUME NEW k \in Calls, k # l PROVE BackedNext(call'[k].history)
  BY <1>0, <1>1, BackedKept DEF LeavesCalls
<1>2. BackedNext(call'[l].history)
  <2>1. CASE Asks(l)
    <3>1. PICK r \in Replies, history \in Messages, round \in Nat, asked \in BOOLEAN,
               stored \in Messages : AskingFor(l, r, history, round, asked, stored)
      BY <1>0, <2>1, AsksFields
    <3>2. /\ call'[l].history = [history EXCEPT ![r].user = asked]
          /\ Backed(history)
      BY <3>1 DEF AskingFor
    <3>3. BackedNext([history EXCEPT ![r].user = asked])
      BY <1>0, <3>1, <3>2, AskingBacked
    <3> QED
      BY <3>2, <3>3
  <2>2. CASE Sends(l)
    <3>1. call'[l].history = call[l].history
      BY <1>0, <2>2, MoveFields DEF Sends, Goes
    <3> QED
      BY <1>0, <3>1, BackedKept
  <2>3. CASE Moves(l)
    <3>1. CASE Completes(l) \/ Asking(l)
      <4>1. call[l].pc \in After
        BY <3>1 DEF Completes, Asking, After, Loop
      <4>2. call[l].reply \in Replies /\ run[call[l].reply].state = "ended"
        BY <4>1, EndedUsed
      <4>3. /\ Backed([call[l].history EXCEPT ![call[l].reply].status = "completed"])
            /\ Backed(Settle(session[call[l].session].view, call[l].reply, "completed"))
        BY <1>0, <4>2, BackedUpdates
      <4>4. /\ BackedNext([call[l].history EXCEPT ![call[l].reply].status = "completed"])
            /\ BackedNext(Settle(session[call[l].session].view, call[l].reply, "completed"))
        BY <1>0, <4>3, BackedKept
      <4> QED
        BY <3>1, <4>4 DEF Completes, Asking
    <3>2. CASE GoesOn(l)
      BY <1>0, <3>2, BackedKept DEF GoesOn
    <3> QED
      BY <2>3, <3>1, <3>2 DEF Moves
  <2>4. CASE Retries(l)
    <3>1. call[l].reply \in Replies
      BY <2>4, NumberedPcs DEF Retries, Numbered, IndInv
    <3>2. PICK S : call'[l].history = [Without(session[call[l].session].view, S)
                                         EXCEPT ![call[l].reply].result = "none"]
      BY <2>4, Zenon DEF Retries
    <3>3. Backed([Without(session[call[l].session].view, S)
                    EXCEPT ![call[l].reply].result = "none"])
      BY <1>0, <3>1, BackedUpdates
    <3>4. BackedNext([Without(session[call[l].session].view, S)
                        EXCEPT ![call[l].reply].result = "none"])
      BY <1>0, <3>3, BackedKept
    <3> QED
      BY <3>2, <3>4
  <2>5. CASE Fails(l)
    BY <1>0, <2>5, BackedKept DEF Fails
  <2>6. CASE Finds(l)
    <3> DEFINE m == [session[call[l].session].view EXCEPT ![call'[l].reply].status = "failed"]
    <3>1. call'[l].reply \in Replies /\ call'[l].history = m
      BY <2>6 DEF Finds
    <3>2. Backed(m)
      BY <1>0, <3>1, BackedUpdates
    <3>3. BackedNext(m)
      BY <1>0, <3>2, BackedKept
    <3> QED
      BY <3>1, <3>3, Zenon
  <2>7. CASE ComesBack(l)
    <3>1. call'[l].history = [r \in Replies |-> Nothing]
      BY <2>7 DEF ComesBack, NewCall
    <3> QED
      BY <1>0, <3>1, BackedKept, NothingBacked
  <2>8. CASE UNCHANGED <<call, run>>
    BY <1>0, <2>8, BackedKept
  <2> QED
    BY <2>1, <2>2, <2>3, <2>4, <2>5, <2>6, <2>7, <2>8 DEF Effect
<1> QED
  BY <1>1, <1>2

(* What a step of a call shows and stores is accounted for before the step,   *)
(* but for the message of the user before the answer it asks for.             *)
Accounted(l) ==
  /\ \A d \in Sessions : Backed(session'[d].view)
  /\ Asks(l) \/ Backed(store')

LEMMA ShownBacked ==
  ASSUME IndInv, NEW c \in Sessions, NEW m, Backed(m), NEW p, NEW q, NEW x,
         LET s == Shows(c, m, p, q)
         IN  \/ session' = [session EXCEPT ![c] = s]
             \/ session' = [session EXCEPT ![c] = [s EXCEPT !.run = x]]
             \/ session' = [session EXCEPT ![c] = [s EXCEPT !.approver = x]]
             \/ session' = [session EXCEPT ![c] = [s EXCEPT !.asker = x]]
  PROVE  \A d \in Sessions : Backed(session'[d].view)
<1> DEFINE s == Shows(c, m, p, q)
<1>0. /\ session \in [Sessions -> Controllers] /\ session[c] \in Controllers
      /\ \A d \in Sessions : Backed(session[d].view)
  BY DEF IndInv, Typed, MessagesBacked
<1>1. /\ s.view \in {m, session[c].view}
      /\ DOMAIN s = {"phase", "loaded", "closed", "view", "request", "run", "timer",
                     "approver", "asker"}
  BY <1>0 DEF Shows, Controllers
<1>2. /\ session' = [session EXCEPT ![c] = s]
         \/ session' = [session EXCEPT ![c] = [s EXCEPT !.run = x]]
         \/ session' = [session EXCEPT ![c] = [s EXCEPT !.approver = x]]
         \/ session' = [session EXCEPT ![c] = [s EXCEPT !.asker = x]]
  OBVIOUS
<1> HIDE DEF s
<1>3. /\ [s EXCEPT !.run = x].view = s.view /\ [s EXCEPT !.approver = x].view = s.view
      /\ [s EXCEPT !.asker = x].view = s.view
  BY <1>1
<1>4. session'[c].view = s.view /\ \A d \in Sessions : d # c => session'[d] = session[d]
  BY <1>0, <1>2, <1>3
<1> QED
  BY <1>0, <1>1, <1>4

LEMMA SameViews ==
  ASSUME IndInv, NEW c \in Sessions, NEW new, session' = [session EXCEPT ![c] = new],
         new.view = session[c].view
  PROVE  \A d \in Sessions : Backed(session'[d].view)
<1>1. session \in [Sessions -> Controllers] /\ \A d \in Sessions : Backed(session[d].view)
  BY DEF IndInv, Typed, MessagesBacked
<1> QED
  BY <1>1

LEMMA AccountedTurn ==
  ASSUME IndInv, NEW l \in Calls, Effect(l),
         \/ UserSaved(l) \/ Discarded(l) \/ SavedAgain(l) \/ ResultDiscarded(l)
         \/ MessageDeleted(l)
  PROVE  Accounted(l)
<1> DEFINE c == call[l].session
           r == call[l].reply
<1>0. /\ c \in Sessions /\ session[c].view \in Messages /\ Typed
      /\ call[l].history \in Messages /\ store \in Messages
      /\ Backed(session[c].view) /\ Backed(call[l].history) /\ Backed(store)
      /\ \A d \in Sessions : Backed(session[d].view)
  BY CallFields, SessionFields DEF IndInv, Typed, MessagesBacked
<1>1. CASE UserSaved(l)
  <2>1. l \in Owing
    BY <1>1, OwingPcs DEF UserSaved, Done
  <2>2. Asks(l)
    BY <1>0, <1>1, <2>1, AsksStep DEF UserSaved
  <2> QED
    BY <1>0, <1>1, <2>2 DEF UserSaved, Accounted
<1>2. CASE Discarded(l)
  <2>1. r \in Replies
    BY <1>2, NumberedPcs DEF Discarded, Done, Numbered, IndInv
  <2>2. store' = [Without(store, From(call[l].history, r)) EXCEPT ![r].user = store[r].user]
        /\ UNCHANGED session
    BY <1>2 DEF Discarded
  <2>3. Backed(store')
    BY <1>0, <2>1, <2>2, BackedUpdates
  <2> QED
    BY <1>0, <2>2, <2>3 DEF Accounted
<1>3. CASE SavedAgain(l)
  <2> DEFINE history == Without(session[c].view, From(session[c].view, r))
             stored == [store EXCEPT ![r].user = FALSE]
  <2>1. l \in Owing /\ r \in Replies
    BY <1>3, OwingPcs, NumberedPcs DEF SavedAgain, Done, Numbered, IndInv
  <2>2. history \in Messages /\ stored \in Messages /\ Backed(history) /\ Backed(stored)
    BY <1>0, <2>1, WithoutType, MessageTypes, BackedUpdates
  <2>3. /\ NextRound(l, history, 0, TRUE, stored, Tail(queue))
        /\ session' = [session EXCEPT ![c] = Shows(c, history, session[c].phase, session[c].request)]
    BY <1>3 DEF SavedAgain
  <2> HIDE DEF history, stored
  <2>4. Asks(l)
    BY <2>1, <2>2, <2>3, AsksStep
  <2>5. \A d \in Sessions : Backed(session'[d].view)
    BY <1>0, <2>2, <2>3, ShownBacked, Zenon
  <2> QED
    BY <2>4, <2>5 DEF Accounted
<1>4. CASE ResultDiscarded(l)
  <2> DEFINE Kept(messages, later) == [Without(messages, From(later, r + 1))
                                         EXCEPT ![r].result = "none"]
             history == Kept(session[c].view, session[c].view)
  <2>1. r \in Replies
    BY <1>4, NumberedPcs, Zenon DEF ResultDiscarded, Done, Numbered, IndInv
  <2>2. store' = Kept(store, call[l].history)
        /\ session' = [session EXCEPT ![c] = Shows(c, history, "requesting", session[c].request)]
    BY <1>4, Zenon DEF ResultDiscarded
  <2>3. Backed(Kept(store, call[l].history)) /\ Backed(history)
    BY <1>0, <2>1, BackedUpdates, Zenon
  <2>4. Backed(store')
    BY <2>2, <2>3, Zenon
  <2> HIDE DEF history
  <2>5. \A d \in Sessions : Backed(session'[d].view)
    BY <1>0, <2>2, <2>3, ShownBacked
  <2> QED
    BY <2>4, <2>5 DEF Accounted
<1>5. CASE MessageDeleted(l)
  <2> DEFINE Gone(messages) == [messages EXCEPT ![r][call[l].part] = Nothing[call[l].part]]
             gone == Gone(session[c].view)
  <2>1. r \in Replies /\ call[l].part \in Parts
    BY <1>5, NumberedPcs DEF MessageDeleted, Done, Numbered, IndInv, Requests
  <2>2. /\ store' = Gone(store)
        /\ session' = [session EXCEPT ![c] = Shows(c, gone, session[c].phase, session[c].request)]
    BY <1>5 DEF MessageDeleted
  <2>3. Backed(Gone(store)) /\ Backed(gone)
    BY <1>0, <2>1, BackedUpdates
  <2>4. Backed(store')
    BY <2>2, <2>3
  <2> HIDE DEF gone
  <2>5. \A d \in Sessions : Backed(session'[d].view)
    BY <1>0, <2>2, <2>3, ShownBacked
  <2> QED
    BY <2>4, <2>5 DEF Accounted
<1> QED
  BY <1>1, <1>2, <1>3, <1>4, <1>5

LEMMA AccountedRound ==
  ASSUME IndInv, NEW l \in Calls, Effect(l),
         \/ PlaceholderSaved(l) \/ EndsInQuestion(l) \/ EndsInCall(l) \/ Finishes(l)
         \/ TailAwaited(l) \/ FinalSaved(l) \/ ConversationSaved(l) \/ HandleSnapshot(l)
  PROVE  Accounted(l)
<1> DEFINE c == call[l].session
           r == call[l].reply
<1>0. /\ c \in Sessions /\ session[c] \in Controllers /\ session[c].view \in Messages /\ Typed
      /\ call[l].history \in Messages /\ store \in Messages
      /\ Backed(session[c].view) /\ Backed(call[l].history) /\ Backed(store)
      /\ \A d \in Sessions : Backed(session[d].view)
  BY CallFields, SessionFields DEF IndInv, Typed, MessagesBacked
<1>a. /\ [session[c] EXCEPT !.run = 0].view = session[c].view
      /\ Quiet(c).view = session[c].view
      /\ [session[c] EXCEPT !.phase = "streaming", !.timer = r].view = session[c].view
  BY <1>0 DEF Quiet, Controllers
<1>1. CASE PlaceholderSaved(l)
  <2> DEFINE messages == [call[l].history EXCEPT ![r].status = "queued"]
  <2>1. r \in Replies
    BY <1>1, NumberedPcs DEF PlaceholderSaved, Done, Numbered, Loop, IndInv
  <2>2. /\ session' = [session EXCEPT ![c] = [Shows(c, messages, "requesting", r)
                                                EXCEPT !.run = r]]
        /\ store' = [store EXCEPT ![r].status = "queued"]
    BY <1>1 DEF PlaceholderSaved
  <2>3. Backed(messages) /\ Backed([store EXCEPT ![r].status = "queued"])
    BY <1>0, <2>1, BackedUpdates
  <2> HIDE DEF messages
  <2>4. \A d \in Sessions : Backed(session'[d].view)
    BY <1>0, <2>2, <2>3, ShownBacked
  <2> QED
    BY <2>2, <2>3, <2>4 DEF Accounted
<1>2. CASE EndsInQuestion(l) \/ EndsInCall(l) \/ Finishes(l)
  <2>1. /\ \/ session' = [session EXCEPT ![c] = [session[c] EXCEPT !.run = 0]]
           \/ session' = [session EXCEPT ![c] = Quiet(c)]
        /\ UNCHANGED store
    BY <1>0, <1>2 DEF EndsInQuestion, EndsInCall, Finishes, Typed
  <2>2. \A d \in Sessions : Backed(session'[d].view)
    BY <1>0, <1>a, <2>1, SameViews
  <2> QED
    BY <1>0, <2>1, <2>2 DEF Accounted
<1>3. CASE TailAwaited(l)
  BY <1>0, <1>3 DEF TailAwaited, Accounted
<1>4. CASE FinalSaved(l)
  <2>1. call[l].pc = "saveFinal" /\ call[l].pc \in After
    BY <1>4 DEF FinalSaved, Done, After, Loop
  <2>2. r \in Replies /\ run[r].state = "ended"
    BY <2>1, EndedUsed
  <2>3. Backed([store EXCEPT ![r].status = Outcome(r)])
    BY <1>0, <2>2, BackedUpdates
  <2> QED
    BY <1>0, <1>4, <2>3 DEF FinalSaved, Accounted
<1>5. CASE ConversationSaved(l)
  <2> DEFINE settled == Settle(session[c].view, r, Outcome(r))
             phase == IF Outcome(r) = "failed" THEN "failed" ELSE "ready"
  <2>1. call[l].pc = "saveConversation" /\ call[l].pc \in After
    BY <1>5 DEF ConversationSaved, Done, After, Loop
  <2>2. r \in Replies /\ run[r].state = "ended"
    BY <2>1, EndedUsed
  <2>3. Backed(settled)
    BY <1>0, <2>2, BackedUpdates
  <2>4. /\ session' = [session EXCEPT ![c] = [Shows(c, settled, phase, 0) EXCEPT !.run = 0]]
        /\ UNCHANGED store
    BY <1>5 DEF ConversationSaved
  <2> HIDE DEF settled, phase
  <2>5. \A d \in Sessions : Backed(session'[d].view)
    BY <1>0, <2>3, <2>4, ShownBacked
  <2> QED
    BY <1>0, <2>4, <2>5 DEF Accounted
<1>6. CASE HandleSnapshot(l)
  <2>1. /\ session' = [session EXCEPT ![c] = [session[c] EXCEPT !.phase = "streaming", !.timer = r]]
        /\ UNCHANGED store
    BY <1>0, <1>6 DEF HandleSnapshot, Typed
  <2>2. \A d \in Sessions : Backed(session'[d].view)
    BY <1>0, <1>a, <2>1, SameViews
  <2> QED
    BY <1>0, <2>1, <2>2 DEF Accounted
<1> QED
  BY <1>1, <1>2, <1>3, <1>4, <1>5, <1>6

LEMMA AsksOnly ==
  ASSUME Typed, NEW l \in Calls, Effect(l), call'[l].pc = "savePlaceholder",
         call[l].pc # "savePlaceholder"
  PROVE  Asks(l)
<1>1. ~Moves(l) /\ ~Retries(l) /\ ~Fails(l) /\ ~Finds(l) /\ ~ComesBack(l) /\ ~Sends(l)
  BY DEF Sends, Moves, Completes, Asking, GoesOn, Retries, Fails, Finds, ComesBack, NewCall
<1> QED
  BY <1>1 DEF Effect

LEMMA AccountedTool ==
  ASSUME IndInv, NEW l \in Calls, Effect(l),
         \/ CallSaved(l) \/ Approved(l) \/ Rejected(l)
         \/ \E result \in {"ok", "failed"} : ToolReturns(l, result)
         \/ ResultSaved(l) \/ QuestionSaved(l) \/ Answered(l) \/ AnswerSaved(l)
  PROVE  Accounted(l)
<1> DEFINE c == call[l].session
           r == call[l].reply
<1>0. /\ c \in Sessions /\ session[c] \in Controllers /\ session[c].view \in Messages /\ Typed
      /\ call[l].history \in Messages /\ store \in Messages
      /\ Backed(session[c].view) /\ Backed(call[l].history) /\ Backed(store)
      /\ \A d \in Sessions : Backed(session[d].view)
  BY CallFields, SessionFields DEF IndInv, Typed, MessagesBacked
<1>a. call[l].pc \in After
  BY Zenon DEF CallSaved, Approved, Rejected, ToolReturns, ResultSaved, QuestionSaved, Answered,
         AnswerSaved, Done, After, Loop
<1>b. r \in Replies /\ run[r].state = "ended" /\ r \in Used
  BY <1>a, EndedUsed
<1>1. CASE CallSaved(l)
  <2> DEFINE history == [call[l].history EXCEPT ![r].status = "completed"]
  <2>1. /\ \/ session' = [session EXCEPT ![c] = [Shows(c, history, "awaitingToolApproval", 0)
                                                   EXCEPT !.approver = l]]
           \/ session' = [session EXCEPT ![c] = Shows(c, history, "requesting", 0)]
        /\ store' = [store EXCEPT ![r].status = "completed"]
    BY <1>1, Zenon DEF CallSaved
  <2>2. Backed(history) /\ Backed([store EXCEPT ![r].status = "completed"])
    BY <1>0, <1>b, BackedUpdates
  <2> HIDE DEF history
  <2>3. \A d \in Sessions : Backed(session'[d].view)
    <3>1. CASE session' = [session EXCEPT ![c] =
                             [Shows(c, history, "awaitingToolApproval", 0) EXCEPT !.approver = l]]
      BY <1>0, <2>2, <3>1, ShownBacked
    <3>2. CASE session' = [session EXCEPT ![c] = Shows(c, history, "requesting", 0)]
      BY <1>0, <2>2, <3>2, ShownBacked
    <3> QED
      BY <2>1, <3>1, <3>2
  <2> QED
    BY <2>1, <2>2, <2>3 DEF Accounted
<1>2. CASE Approved(l)
  <2>1. /\ session' = [session EXCEPT ![c] = [Shows(c, call[l].history, "requesting", 0)
                                                EXCEPT !.approver = 0]]
        /\ UNCHANGED store
    BY <1>2 DEF Approved
  <2>2. \A d \in Sessions : Backed(session'[d].view)
    BY <1>0, <2>1, ShownBacked
  <2> QED
    BY <1>0, <2>1, <2>2 DEF Accounted
<1>3. CASE Rejected(l)
  <2> DEFINE history == [call[l].history EXCEPT ![r].result = "rejected"]
  <2>1. /\ session' = [session EXCEPT ![c] = [Shows(c, history, "requesting", 0)
                                                EXCEPT !.approver = 0]]
        /\ NextRound(l, history, call[l].round + 1, FALSE, store, queue)
        /\ call[l].pc = "approve" /\ l \in Owing
    BY <1>3, OwingPcs DEF Rejected
  <2>2. Backed(history)
    BY <1>0, <1>b, BackedUpdates
  <2> HIDE DEF history
  <2>3. \A d \in Sessions : Backed(session'[d].view)
    BY <1>0, <2>1, <2>2, ShownBacked
  <2>4. call'[l].pc = "savePlaceholder"
    BY <2>1, NextRoundStep
  <2> QED
    BY <1>0, <2>1, <2>3, <2>4, AsksOnly DEF Accounted
<1>4. CASE \E result \in {"ok", "failed"} : ToolReturns(l, result)
  BY <1>0, <1>4 DEF ToolReturns, Accounted
<1>5. CASE ResultSaved(l)
  <2> DEFINE history == [call[l].history EXCEPT ![r].result = call[l].verdict]
             shown == [session[c].view EXCEPT ![r].result = call[l].verdict]
             round == call[l].round + (IF call[l].retry THEN 0 ELSE 1)
             stored == [store EXCEPT ![r].result = call[l].verdict]
  <2>1. /\ \/ session' = [session EXCEPT ![c] = Shows(c, shown, "requesting", session[c].request)]
           \/ session' = [session EXCEPT ![c] = Shows(c, history, "requesting", 0)]
        /\ NextRound(l, history, round, FALSE, stored, Tail(queue))
        /\ call[l].pc = "saveResult" /\ l \in Owing
    BY <1>5, OwingPcs, Zenon DEF ResultSaved, Done
  <2>2. Backed(history) /\ Backed(shown)
    BY <1>0, <1>b, BackedUpdates
  <2> HIDE DEF history, shown, stored, round
  <2>3. \A d \in Sessions : Backed(session'[d].view)
    <3>1. CASE session' = [session EXCEPT ![c] = Shows(c, shown, "requesting", session[c].request)]
      BY <1>0, <2>2, <3>1, ShownBacked
    <3>2. CASE session' = [session EXCEPT ![c] = Shows(c, history, "requesting", 0)]
      BY <1>0, <2>2, <3>2, ShownBacked
    <3> QED
      BY <2>1, <3>1, <3>2
  <2>4. call'[l].pc = "savePlaceholder"
    BY <2>1, NextRoundStep
  <2> QED
    BY <1>0, <2>1, <2>3, <2>4, AsksOnly DEF Accounted
<1>6. CASE QuestionSaved(l)
  <2> DEFINE history == Settle(session[c].view, r, "completed")
  <2>1. /\ session' = [session EXCEPT ![c] = [Shows(c, history, "awaitingUserAnswer", 0)
                                                EXCEPT !.asker = l]]
        /\ store' = [store EXCEPT ![r].status = "completed"]
    BY <1>6 DEF QuestionSaved
  <2>2. Backed(history) /\ Backed([store EXCEPT ![r].status = "completed"])
    BY <1>0, <1>b, BackedUpdates
  <2> HIDE DEF history
  <2>3. \A d \in Sessions : Backed(session'[d].view)
    BY <1>0, <2>1, <2>2, ShownBacked
  <2> QED
    BY <2>1, <2>2, <2>3 DEF Accounted
<1>7. CASE Answered(l)
  <2>1. session' = [session EXCEPT ![c] = [session[c] EXCEPT !.asker = 0]] /\ UNCHANGED store
    BY <1>0, <1>7 DEF Answered, Typed
  <2>2. [session[c] EXCEPT !.asker = 0].view = session[c].view
    BY <1>0 DEF Controllers
  <2>3. \A d \in Sessions : Backed(session'[d].view)
    BY <1>0, <2>1, <2>2, SameViews
  <2> QED
    BY <1>0, <2>1, <2>3 DEF Accounted
<1>8. CASE AnswerSaved(l)
  <2>1. /\ session' = [session EXCEPT ![c] = Shows(c, call[l].history, "requesting",
                                                   session[c].request)]
        /\ NextRound(l, call[l].history, call[l].round + 1, TRUE, store, Tail(queue))
        /\ call[l].pc = "saveAnswer" /\ l \in Owing
    BY <1>8, OwingPcs DEF AnswerSaved, Done
  <2>2. \A d \in Sessions : Backed(session'[d].view)
    BY <1>0, <2>1, ShownBacked
  <2>3. call'[l].pc = "savePlaceholder"
    BY <2>1, NextRoundStep
  <2> QED
    BY <1>0, <2>1, <2>2, <2>3, AsksOnly DEF Accounted
<1> QED
  BY <1>1, <1>2, <1>3, <1>4, <1>5, <1>6, <1>7, <1>8

LEMMA AccountedFailure ==
  ASSUME IndInv, NEW l \in Calls, Effect(l),
         ThrowsToCaller(l) \/ LoopFails(l) \/ Recovers(l) \/ FailureSaved(l)
  PROVE  Accounted(l)
<1> DEFINE c == call[l].session
<1>0. /\ c \in Sessions /\ session[c] \in Controllers /\ session[c].view \in Messages /\ Typed
      /\ call[l].history \in Messages /\ store \in Messages
      /\ Backed(session[c].view) /\ Backed(call[l].history) /\ Backed(store)
      /\ \A d \in Sessions : Backed(session[d].view)
  BY CallFields, SessionFields DEF IndInv, Typed, MessagesBacked
<1>1. CASE ThrowsToCaller(l)
  BY <1>0, <1>1 DEF ThrowsToCaller, Accounted
<1>2. CASE LoopFails(l)
  <2> DEFINE new == [Quiet(c) EXCEPT !.approver = 0, !.asker = 0]
  <2>1. session' = [session EXCEPT ![c] = new] /\ UNCHANGED store
    BY <1>2 DEF LoopFails
  <2>2. new.view = session[c].view
    BY <1>0 DEF Quiet, Controllers
  <2> HIDE DEF new
  <2>3. \A d \in Sessions : Backed(session'[d].view)
    BY <1>0, <2>1, <2>2, SameViews
  <2> QED
    BY <1>0, <2>1, <2>3 DEF Accounted
<1>3. CASE Recovers(l)
  <2>1. /\ UNCHANGED store
        /\ \/ session' = [session EXCEPT ![c] = Shows(c, session[c].view, "failed", 0)]
           \/ UNCHANGED session
    BY <1>3, Zenon DEF Recovers
  <2>2. CASE session' = [session EXCEPT ![c] = Shows(c, session[c].view, "failed", 0)]
    <3>1. \A d \in Sessions : Backed(session'[d].view)
      BY <1>0, <2>2, ShownBacked
    <3> QED
      BY <1>0, <2>1, <3>1 DEF Accounted
  <2>3. CASE UNCHANGED session
    BY <1>0, <2>1, <2>3 DEF Accounted
  <2> QED
    BY <2>1, <2>2, <2>3
<1>4. CASE FailureSaved(l)
  <2>1. /\ session' = [session EXCEPT ![c] = Shows(c, call[l].history, "failed", 0)]
        /\ store' \in {store, [store EXCEPT ![call[l].reply].status = "failed"]}
        /\ call[l].pc \in Numbered
    BY <1>4 DEF FailureSaved, Done, Numbered
  <2>2. call[l].reply \in Replies
    BY <2>1, NumberedPcs DEF IndInv
  <2>3. Backed([store EXCEPT ![call[l].reply].status = "failed"])
    BY <1>0, <2>2, BackedUpdates
  <2>4. \A d \in Sessions : Backed(session'[d].view)
    BY <1>0, <2>1, ShownBacked
  <2> QED
    BY <1>0, <2>1, <2>3, <2>4 DEF Accounted
<1> QED
  BY <1>1, <1>2, <1>3, <1>4

LEMMA MessagesStep ==
  ASSUME IndInv, NEW l \in Calls, HandleSnapshot(l) \/ Coroutine(l)
  PROVE  MessagesBacked'
<1>1. Effect(l) /\ CallStep(l)
  BY Effects, CallSteps
<1>2. Accounted(l)
  BY <1>1, AccountedTurn, AccountedRound, AccountedTool, AccountedFailure DEF Coroutine
<1>3. EndedKept /\ AskedKept
  BY <1>1, EffectRuns, AskedStep
<1>4. \A d \in Sessions : BackedNext(session'[d].view)
  BY <1>2, <1>3, BackedKept DEF Accounted
<1>5. BackedNext(store')
  <2>1. CASE Backed(store')
    BY <1>3, <2>1, BackedKept
  <2>2. CASE Asks(l)
    <3>1. PICK r \in Replies, history \in Messages, round \in Nat, asked \in BOOLEAN,
               stored \in Messages : AskingFor(l, r, history, round, asked, stored)
      BY <2>2, AsksFields DEF IndInv
    <3>2. store' = [stored EXCEPT ![r].user = asked] /\ Backed(stored)
      BY <3>1 DEF AskingFor
    <3>3. \A m \in Messages : Backed(m) => BackedNext([m EXCEPT ![r].user = asked])
      BY <1>1, <1>3, <3>1, AskingBacked
    <3>4. BackedNext([stored EXCEPT ![r].user = asked])
      BY <3>2, <3>3
    <3> QED
      BY <3>2, <3>4
  <2> QED
    BY <1>2, <2>1, <2>2 DEF Accounted
<1>6. \A k \in Calls : BackedNext(call'[k].history)
  BY <1>1, HistoriesStep
<1> QED
  BY <1>4, <1>5, <1>6 DEF MessagesBacked, Backed, BackedNext

-------------------------------------------------------------------------------
(* The rounds of a turn stay counted. *)

(* The rounds of tools that messages show after the step. *)
RoundsNext(m) ==
  Cardinality({r \in Replies :
      /\ m[r].status = "completed" /\ run'[r].outcome = "tools"
      /\ \A x \in Replies : x > r => ~m[x].user})

LEMMA RoundsNextOf ==
  ASSUME EndedKept, NEW m, Backed(m)
  PROVE  RoundsNext(m) = RoundsInTurn(m)
<1>1. \A r \in Replies : m[r].status = "completed" =>
        (run'[r].outcome = "tools" <=> run[r].outcome = "tools")
  BY DEF EndedKept, Backed
<1>2. {r \in Replies : /\ m[r].status = "completed" /\ run'[r].outcome = "tools"
                       /\ \A x \in Replies : x > r => ~m[x].user}
      = {r \in Replies : Calling(m, r) /\ \A x \in Replies : x > r => ~m[x].user}
  BY <1>1 DEF Calling
<1> QED
  BY <1>2 DEF RoundsNext, RoundsInTurn

LEMMA RoundsNextSame ==
  ASSUME UNCHANGED run, NEW m
  PROVE  RoundsNext(m) = RoundsInTurn(m)
BY DEF RoundsNext, RoundsInTurn, Calling

(* A new round after a message of the user is the first of its turn, and      *)
(* another one does not add to the count.                                    *)
LEMMA RoundsOfAsking ==
  ASSUME IndInv, NEW l \in Calls, EndedKept,
         NEW r \in Replies, NEW history \in Messages, NEW round \in Nat, NEW asked \in BOOLEAN,
         NEW stored \in Messages, AskingFor(l, r, history, round, asked, stored)
  PROVE  RoundsNext(call'[l].history) <= round
<1> DEFINE n == [history EXCEPT ![r].user = asked]
           S == {q \in Replies : /\ n[q].status = "completed" /\ run'[q].outcome = "tools"
                                 /\ \A x \in Replies : x > q => ~n[x].user}
<1>1. /\ \A x \in Replies : /\ n[x].status = history[x].status
                            /\ x # r => n[x].user = history[x].user
                            /\ n[r].user = asked
      /\ call'[l].history = n
  BY DEF Messages, AskingFor
<1>2. RoundsNext(call'[l].history) = Cardinality(S)
  BY <1>1 DEF RoundsNext
<1> HIDE DEF n
<1>3. \A q \in Replies : n[q].status = "completed" =>
        run[q].state = "ended" /\ q < r /\ run'[q].outcome = run[q].outcome
  <2>1. ASSUME NEW q \in Replies, n[q].status = "completed"
        PROVE  run[q].state = "ended" /\ q < r /\ run'[q].outcome = run[q].outcome
    <3>1. run[q].state = "ended"
      BY <1>1, <2>1 DEF AskingFor, Backed
    <3>2. q \in 1 .. r - 1
      BY <3>1 DEF AskingFor, Used
    <3> QED
      BY <3>1, <3>2, Bounds DEF EndedKept, Replies
  <2> QED
    BY <2>1
<1>4. CASE asked
  <2>1. S = {}
    BY <1>1, <1>3, <1>4, Bounds DEF Replies
  <2> QED
    BY <1>2, <2>1, FS_EmptySet
<1>5. CASE ~asked
  <2>1. ~history[r].user
    BY DEF AskingFor, Backed, Asked
  <2>2. \A x \in Replies : n[x].user = history[x].user
    BY <1>1, <1>5, <2>1 DEF Messages
  <2>3. S \subseteq TurnRounds(history)
    BY <1>1, <1>3, <2>2 DEF TurnRounds, Calling
  <2>4. TurnRounds(history) \subseteq Replies /\ RoundsInTurn(history) = Cardinality(TurnRounds(history))
    BY DEF TurnRounds, RoundsInTurn
  <2>5. /\ Cardinality(S) <= RoundsInTurn(history) /\ Cardinality(S) \in Nat
        /\ RoundsInTurn(history) \in Nat
    BY <2>3, <2>4, FiniteParts, FS_Subset
  <2>6. RoundsInTurn(history) <= round
    BY <1>5 DEF AskingFor
  <2> HIDE DEF S
  <2> QED
    BY <1>2, <2>5, <2>6
<1> QED
  BY <1>4, <1>5

Counted(k) ==
  /\ call'[k].pc \in Loop \ {"tool", "saveResult"} => ~call'[k].retry
  /\ call'[k].pc = "discardResult" => call'[k].retry
  /\ call'[k].pc \in Loop =>
       call'[k].round < call'[k].reply + (IF call'[k].retry THEN 1 ELSE 0)
  /\ call'[k].pc \in {"savePlaceholder", "running", "tailCall", "saveCall"}
       => RoundsNext(call'[k].history) <= call'[k].round
  /\ call'[k].pc \in {"tool", "approve", "saveResult"}
       => RoundsNext(call'[k].history) <= call'[k].round + (IF call'[k].retry THEN 0 ELSE 1)

LEMMA CountedAll == (\A k \in Calls : Counted(k)) => RoundsCounted'
BY DEF Counted, RoundsCounted, RoundsNext, RoundsInTurn, Calling

LEMMA CountedSame ==
  ASSUME IndInv, EndedKept, NEW k \in Calls,
         call'[k].pc = call[k].pc \/ (call[k].pc = "savePlaceholder" /\ call'[k].pc = "running"),
         call'[k].retry = call[k].retry, call'[k].round = call[k].round,
         call'[k].reply = call[k].reply, call'[k].history = call[k].history
  PROVE  Counted(k)
<1>1. RoundsNext(call[k].history) = RoundsInTurn(call[k].history)
  BY RoundsNextOf DEF IndInv, MessagesBacked
<1> QED
  BY <1>1 DEF Counted, IndInv, RoundsCounted, Loop

LEMMA RoundsStep ==
  ASSUME IndInv, NEW l \in Calls, Effect(l), CallStep(l)
  PROVE  RoundsCounted'
<1>0. LeavesCalls(l) /\ Typed /\ EndedKept
  BY EffectRuns DEF IndInv, CallStep
<1>1. ASSUME NEW k \in Calls, k # l PROVE Counted(k)
  BY <1>0, <1>1, CountedSame DEF LeavesCalls
<1>2. Counted(l)
  <2>0. /\ RoundsNext(call[l].history) = RoundsInTurn(call[l].history)
        /\ call[l].round \in Nat /\ call[l].reply \in Nat /\ call[l].retry \in BOOLEAN
        /\ call[l].history \in Messages
        /\ RoundsInTurn(call[l].history) \in Nat
    BY <1>0, RoundsNextOf, CallFields, RoundsInTurnType, Bounds DEF IndInv, MessagesBacked
  <2>1. CASE Asks(l)
    <3>1. PICK r \in Replies, history \in Messages, round \in Nat, asked \in BOOLEAN,
               stored \in Messages : AskingFor(l, r, history, round, asked, stored)
      BY <1>0, <2>1, AsksFields
    <3>2. RoundsNext(call'[l].history) <= round
      BY <1>0, <3>1, RoundsOfAsking
    <3>3. /\ call'[l].pc = "savePlaceholder" /\ call'[l].reply = r /\ call'[l].round = round
          /\ call'[l].retry = FALSE /\ round < r
      BY <3>1 DEF AskingFor
    <3>4. r \in Nat
      BY Bounds DEF Replies
    <3> QED
      BY <3>2, <3>3, <3>4 DEF Counted
  <2>2. CASE Sends(l)
    <3>1. call[l].pc = "savePlaceholder" /\ Goes(l, "running")
      BY <2>2 DEF Sends, Goes
    <3>2. /\ call'[l].pc = "running" /\ call'[l].history = call[l].history
          /\ call'[l].reply = call[l].reply /\ call'[l].round = call[l].round
          /\ call'[l].retry = call[l].retry
      BY <1>0, <3>1, MoveFields
    <3> QED
      BY <1>0, <3>1, <3>2, CountedSame
  <2>3. CASE Moves(l)
    <3>0. /\ UNCHANGED run /\ call'[l].reply = call[l].reply
          /\ call'[l].round = call[l].round /\ call'[l].retry = call[l].retry
      BY <2>3 DEF Moves
    <3>1. CASE Completes(l)
      <4>1. /\ call[l].pc = "saveCall" /\ call'[l].pc \in {"approve", "tool"}
            /\ call'[l].history = [call[l].history EXCEPT ![call[l].reply].status = "completed"]
        BY <3>1 DEF Completes
      <4>2. call[l].reply \in Replies
        BY <4>1, NumberedPcs DEF Numbered, Loop, IndInv
      <4>3. /\ ~call[l].retry /\ call[l].round < call[l].reply
            /\ RoundsInTurn(call[l].history) <= call[l].round
        BY <2>0, <4>1 DEF IndInv, RoundsCounted, Loop
      <4>4. RoundsInTurn(call'[l].history) <= RoundsInTurn(call[l].history) + 1
        BY <2>0, <4>1, <4>2, RoundsOfCompleted
      <4>5. RoundsNext(call'[l].history) = RoundsInTurn(call'[l].history)
            /\ RoundsInTurn(call'[l].history) \in Nat
        BY <3>0, RoundsNextSame, RoundsInTurnType, Bounds
      <4>6. RoundsNext(call'[l].history) <= call[l].round + 1
        BY <2>0, <4>3, <4>4, <4>5
      <4> QED
        BY <2>0, <3>0, <4>1, <4>3, <4>6 DEF Counted, Loop
    <3>2. CASE Asking(l)
      <4>1. call[l].pc = "saveQuestion" /\ call'[l].pc = "ask"
        BY <3>2 DEF Asking
      <4>2. ~call[l].retry /\ call[l].round < call[l].reply
        BY <2>0, <4>1 DEF IndInv, RoundsCounted, Loop
      <4> QED
        BY <2>0, <3>0, <4>1, <4>2 DEF Counted, Loop
    <3>3. CASE GoesOn(l)
      <4>1. /\ RoundsNext(call'[l].history) = RoundsInTurn(call[l].history)
        BY <2>0, <3>3 DEF GoesOn
      <4>2. CASE call[l].pc = "discard"
        <5>1. call'[l].pc = "saveAgain"
          BY <3>3, <4>2 DEF GoesOn
        <5> QED
          BY <5>1 DEF Counted, Loop
      <4>3. CASE call[l].pc # "discard"
        <5>1. /\ call[l].pc \in Loop /\ call'[l].pc \in Loop /\ call'[l].pc # "savePlaceholder"
              /\ call'[l].pc = "saveResult" => call[l].pc = "tool"
              /\ call[l].pc = "tool" => call'[l].pc = "saveResult"
              /\ call'[l].pc = "tool" => call[l].pc = "approve"
              /\ call[l].pc # "saveResult"
              /\ call'[l].pc \in {"running", "tailCall", "saveCall"}
                   => call[l].pc \in {"running", "tailCall", "saveCall"}
              /\ call'[l].pc \notin {"approve", "discardResult"}
          BY <3>3, <4>3 DEF GoesOn, Loop
        <5>2. /\ call[l].pc # "tool" => ~call[l].retry
              /\ call[l].round < call[l].reply + (IF call[l].retry THEN 1 ELSE 0)
              /\ call[l].pc \in {"running", "tailCall", "saveCall"}
                   => RoundsInTurn(call[l].history) <= call[l].round
              /\ call[l].pc \in {"tool", "approve"}
                   => RoundsInTurn(call[l].history)
                        <= call[l].round + (IF call[l].retry THEN 0 ELSE 1)
          BY <5>1 DEF IndInv, RoundsCounted
        <5> QED
          BY <2>0, <3>0, <4>1, <5>1, <5>2 DEF Counted
      <4> QED
        BY <4>2, <4>3
    <3> QED
      BY <2>3, <3>1, <3>2, <3>3 DEF Moves
  <2>4. CASE Retries(l)
    <3>1. /\ UNCHANGED run /\ call[l].pc = "discardResult" /\ call'[l].pc = "tool"
          /\ call'[l].reply = call[l].reply /\ call'[l].retry = call[l].retry
          /\ call'[l].round = RoundsInTurn(call'[l].history) /\ call'[l].round <= call[l].reply
      BY <2>4 DEF Retries
    <3>2. call[l].retry = TRUE
      BY <2>0, <3>1 DEF IndInv, RoundsCounted
    <3>3. RoundsNext(call'[l].history) = RoundsInTurn(call'[l].history)
          /\ RoundsInTurn(call'[l].history) \in Nat
      BY <3>1, RoundsNextSame, RoundsInTurnType, Bounds
    <3> QED
      BY <2>0, <3>1, <3>2, <3>3 DEF Counted
  <2>5. CASE Fails(l) \/ Finds(l) \/ ComesBack(l)
    <3>1. call'[l].pc \in {"tailFailed", "saveFailed", "returned"}
      BY <2>5 DEF Fails, Finds, ComesBack, NewCall
    <3> QED
      BY <3>1 DEF Counted, Loop
  <2>6. CASE UNCHANGED <<call, run>>
    BY <1>0, <2>6, CountedSame
  <2> QED
    BY <2>1, <2>2, <2>3, <2>4, <2>5, <2>6 DEF Effect
<1> QED
  BY <1>1, <1>2, CountedAll

-------------------------------------------------------------------------------
(* The inductive invariant. *)

LEMMA InvCallStep ==
  ASSUME IndInv, NEW l \in Calls, HandleSnapshot(l) \/ Coroutine(l)
  PROVE  IndInv'
<1>1. Effect(l) /\ CallStep(l)
  BY Effects, CallSteps
<1>2. Typed'
  <2>1. Next
    BY DEF Next
  <2> QED
    BY <2>1, TypedStep
<1> QED
  BY <1>1, <1>2, CallStepOrder, CapacityStep, RequestsStep, MessagesStep, RoundsStep
     DEF IndInv

(* What is true of the requests and the messages. *)
Answers ==
  Numbers /\ Capacity /\ Requests /\ OwnReplies /\ MessagesBacked /\ RoundsCounted

LEMMA BackedAll ==
  ASSUME \A c \in Sessions : BackedNext(session'[c].view), BackedNext(store'),
         \A k \in Calls : BackedNext(call'[k].history)
  PROVE  MessagesBacked'
BY DEF MessagesBacked, Backed, BackedNext

(* Where nothing happens to the calls and the requests, *)
LEMMA AnswersCalm ==
  ASSUME IndInv, SameCalls, SameRuns, Backed(store'),
         \A c \in Sessions : Backed(session'[c].view)
  PROVE  Answers'
<1>1. EndedKept
  BY DEF SameRuns, EndedKept
<1>2. AskedKept
  BY DEF SameRuns, SameCalls, AskedKept, Asked
<1>3. Used' = Used
  BY DEF SameRuns, Used
<1>4. Owing' \subseteq Owing
  <2>1. ASSUME NEW k \in Owing' PROVE k \in Owing
    <3>1. k \in Calls
      BY DEF Owing
    <3>2. /\ call'[k].pc = call[k].pc /\ call'[k].reply = call[k].reply
          /\ call'[k].round = call[k].round
      BY <3>1 DEF SameCalls
    <3>3. call[k].pc = "running" => call[k].reply \in Replies
      BY <3>1, NumberedPcs DEF Numbered, Loop, IndInv
    <3>4. call[k].pc = "running" => /\ run'[call[k].reply].state = run[call[k].reply].state
                                    /\ run'[call[k].reply].outcome = run[call[k].reply].outcome
      BY <3>3 DEF SameRuns
    <3> QED
      BY <3>1, <3>2, <3>4 DEF Owing, CallsTool, OffersTools
  <2> QED
    BY <2>1
<1>5. Numbers' /\ Capacity'
  BY <1>3, <1>4, CapacityKept DEF IndInv
<1>6. Requests'
  <2>1. \A r \in Replies : run'[r].outcome # "none" => run'[r].state = "ended"
    BY DEF SameRuns, IndInv, Requests
  <2>2. ASSUME NEW k \in Calls
        PROVE  /\ call'[k].pc \in Numbered => call'[k].reply \in Replies
               /\ call'[k].pc = "savePlaceholder" => run'[call'[k].reply].state = "reserved"
               /\ call'[k].pc = "running" => run'[call'[k].reply].state \in {"open", "ended"}
               /\ call'[k].pc \in After => run'[call'[k].reply].state = "ended"
               /\ call'[k].pc = "saveResult" => call'[k].verdict \in {"ok", "failed"}
               /\ call'[k].pc = "deleteMessage" => call'[k].part \in Parts
    <3>1. /\ call'[k].pc = call[k].pc /\ call'[k].reply = call[k].reply
          /\ call'[k].part = call[k].part
          /\ call[k].verdict # "none" => call'[k].verdict = call[k].verdict
      BY DEF SameCalls
    <3>2. call[k].pc \in Numbered => call[k].reply \in Replies
      BY NumberedPcs DEF IndInv
    <3>3. call[k].pc \in Numbered => run'[call[k].reply].state = run[call[k].reply].state
      BY <3>2 DEF SameRuns
    <3>4. {"savePlaceholder", "running"} \subseteq Numbered /\ After \subseteq Numbered
      BY DEF Numbered, Loop, After
    <3> QED
      BY <3>1, <3>2, <3>3, <3>4 DEF IndInv, Requests
  <2> QED
    BY <2>1, <2>2 DEF Requests
<1>7. OwnReplies'
  BY DEF SameCalls, IndInv, OwnReplies
<1>8. MessagesBacked'
  <2>1. \A k \in Calls : BackedNext(call'[k].history)
    BY <1>1, <1>2, BackedKept DEF SameCalls, IndInv, MessagesBacked
  <2>2. BackedNext(store') /\ \A c \in Sessions : BackedNext(session'[c].view)
    BY <1>1, <1>2, BackedKept
  <2> QED
    BY <2>1, <2>2, BackedAll
<1>9. RoundsCounted'
  <2>1. \A k \in Calls : Counted(k)
    BY <1>1, CountedSame DEF SameCalls
  <2> QED
    BY <2>1, CountedAll
<1> QED
  BY <1>5, <1>6, <1>7, <1>8, <1>9 DEF Answers

LEMMA CapacitySpare ==
  ASSUME Numbers, Used' = Used, NEW l \in Calls, Owing' \subseteq Owing \cup {l}, Spare
  PROVE  Numbers' /\ Capacity'
<1>1. Owing \subseteq Calls /\ Used \subseteq Replies
  BY DEF Owing, Used
<1>2. /\ IsFiniteSet(Owing) /\ Cardinality(Owing) \in Nat /\ Cardinality(Used) \in Nat
      /\ IsFiniteSet(Owing \cup {l}) /\ Cardinality(Owing \cup {l}) <= Cardinality(Owing) + 1
      /\ Cardinality(Owing \cup {l}) \in Nat
  <2>1. IsFiniteSet(Owing) /\ IsFiniteSet(Used)
    BY <1>1, FiniteParts
  <2>2. Cardinality(Owing) \in Nat /\ Cardinality(Used) \in Nat
    BY <2>1, FS_CardinalityType
  <2>3. /\ IsFiniteSet(Owing \cup {l})
        /\ \/ Cardinality(Owing \cup {l}) = Cardinality(Owing)
           \/ Cardinality(Owing \cup {l}) = Cardinality(Owing) + 1
    BY <2>1, FS_AddElement
  <2> QED
    BY <2>1, <2>2, <2>3
<1>3. Cardinality(Owing') <= Cardinality(Owing \cup {l}) /\ Cardinality(Owing') \in Nat
  BY <1>2, FS_Subset, FS_CardinalityType
<1> DEFINE u == Cardinality(Used)
           v == Cardinality(Used')
           i == Cardinality(Owing)
           h == Cardinality(Owing \cup {l})
           j == Cardinality(Owing')
<1>4. u + i < MaxReplies /\ h <= i + 1 /\ j <= h /\ v = u
      /\ u \in Nat /\ i \in Nat /\ h \in Nat /\ j \in Nat
  BY <1>2, <1>3 DEF Spare
<1> HIDE DEF u, i, j, v, h
<1>5. v + j <= MaxReplies
  BY <1>4, Bounds
<1> QED
  BY <1>5 DEF Capacity, Numbers, v, j

(* when a call starts, *)
LEMMA AnswersStarting == ASSUME IndInv, Starting PROVE Answers'
<1>1. PICK l \in Calls, pc \in {"saveUser", "discard", "discardResult", "deleteMessage"},
          r \in Replies \cup {0}, part \in Parts \cup {"none"} :
          /\ Started(l, pc, r, part)
          /\ pc # "saveUser" => r \in Replies
          /\ pc = "deleteMessage" \/ Spare
          /\ pc = "deleteMessage" => part \in Parts
          /\ pc = "discardResult" => Calling(session[current].view, r)
  BY DEF Starting
<1>2. /\ call[l].pc = "idle" /\ call'[l].pc = pc /\ call'[l].retry = (pc = "discardResult")
      /\ call'[l].reply = r /\ call'[l].history = session[current].view
      /\ call'[l].part = part /\ LeavesCalls(l)
      /\ UNCHANGED <<current, session, run, store>>
      /\ current \in Sessions /\ Backed(session[current].view) /\ Backed(store)
      /\ \A c \in Sessions : Backed(session[c].view)
  BY <1>1 DEF Started, IndInv, Typed, MessagesBacked
<1>3. EndedKept /\ OthersKept(l)
  BY <1>2 DEF EndedKept, OthersKept
<1>4. AskedKept
  <2>1. ASSUME NEW x \in Replies, Asked(x), NEW k \in Calls, call'[k].pc = "savePlaceholder",
               call'[k].reply = x
        PROVE  call'[k].history[x].user
    <3>1. k # l
      BY <1>1, <1>2, <2>1
    <3> QED
      BY <1>2, <2>1, <3>1 DEF LeavesCalls, Asked
  <2> QED
    BY <1>2, <2>1 DEF AskedKept, Asked
<1>5. Used' = Used
  BY <1>2 DEF Used
<1>6. \A k \in Owing' : k # l => k \in Owing
  <2>1. \A k \in Owing' : k \in Calls
    BY DEF Owing
  <2> QED
    BY <1>2, <1>3, <2>1, OwingOthers
<1>7. Numbers' /\ Capacity'
  <2>1. CASE pc = "deleteMessage"
    <3>1. l \notin Owing'
      BY <1>2, <2>1 DEF Owing
    <3> QED
      BY <1>5, <1>6, <3>1, CapacityKept DEF IndInv
  <2>2. CASE pc # "deleteMessage"
    BY <1>1, <1>5, <1>6, <2>2, CapacitySpare DEF IndInv
  <2> QED
    BY <2>1, <2>2
<1>8. Requests'
  <2>1. \A x \in Replies : run'[x].outcome # "none" => run'[x].state = "ended"
    BY <1>2 DEF IndInv, Requests
  <2>2. ASSUME NEW k \in Calls
        PROVE  /\ call'[k].pc \in Numbered => call'[k].reply \in Replies
               /\ call'[k].pc = "savePlaceholder" => run'[call'[k].reply].state = "reserved"
               /\ call'[k].pc = "running" => run'[call'[k].reply].state \in {"open", "ended"}
               /\ call'[k].pc \in After => run'[call'[k].reply].state = "ended"
               /\ call'[k].pc = "saveResult" => call'[k].verdict \in {"ok", "failed"}
               /\ call'[k].pc = "deleteMessage" => call'[k].part \in Parts
    <3>1. CASE k # l
      BY <1>2, <3>1 DEF LeavesCalls, IndInv, Requests
    <3>2. CASE k = l
      <4>1. pc = "discardResult" => run[r].state = "ended"
        BY <1>1, <1>2 DEF Calling, Backed
      <4>2. "saveUser" \notin Numbered /\ {"saveUser", "discard", "deleteMessage"} \cap After = {}
        BY DEF Numbered, After, Loop
      <4> QED
        BY <1>1, <1>2, <3>2, <4>1, <4>2
    <3> QED
      BY <3>1, <3>2
  <2> QED
    BY <2>1, <2>2 DEF Requests
<1>9. OwnReplies'
  <2>1. \A k \in Calls : call'[k].pc \in {"savePlaceholder", "running"} => k # l
    BY <1>1, <1>2
  <2> QED
    BY <1>2, <2>1 DEF LeavesCalls, IndInv, OwnReplies
<1>10. MessagesBacked'
  <2>1. BackedNext(store') /\ \A c \in Sessions : BackedNext(session'[c].view)
    BY <1>2, <1>3, <1>4, BackedKept
  <2>2. ASSUME NEW k \in Calls PROVE BackedNext(call'[k].history)
    <3>1. CASE k = l
      BY <1>2, <1>3, <1>4, <3>1, BackedKept
    <3>2. CASE k # l
      BY <1>2, <1>3, <1>4, <3>2, BackedKept DEF LeavesCalls, IndInv, MessagesBacked
    <3> QED
      BY <3>1, <3>2
  <2> QED
    BY <2>1, <2>2, BackedAll
<1>11. RoundsCounted'
  <2>1. ASSUME NEW k \in Calls, k # l PROVE Counted(k)
    BY <1>2, <1>3, <2>1, CountedSame DEF LeavesCalls
  <2>2. Counted(l)
    BY <1>1, <1>2 DEF Counted, Loop
  <2> QED
    BY <2>1, <2>2, CountedAll
<1> QED
  BY <1>7, <1>8, <1>9, <1>10, <1>11 DEF Answers

(* when a request ends, *)
LEMMA AnswersRunEnds ==
  ASSUME IndInv, NEW r \in Replies, NEW outcome \in Outcomes, NEW risky,
         RunEnds(r, outcome, risky)
  PROVE  Answers'
<1> DEFINE new == [run[r] EXCEPT !.state = "ended", !.outcome = outcome, !.risky = risky,
                                 !.cancelled = FALSE]
<1>1. /\ run \in [Replies -> Runs] /\ run[r] \in Runs /\ run[r].state = "open"
      /\ UNCHANGED <<current, session, call, store>>
  BY DEF IndInv, Typed, RunEnds
<1>2. run' = [run EXCEPT ![r] = new] /\ new.state = "ended" /\ new.outcome = outcome
  BY <1>1 DEF RunEnds, Runs
<1> HIDE DEF new
<1>3. run'[r] = new /\ \A x \in Replies : x # r => run'[x] = run[x]
  BY <1>1, <1>2
<1>4. EndedKept /\ AskedKept
  BY <1>1, <1>2, <1>3 DEF EndedKept, AskedKept, Asked
<1>5. Used' = Used
  BY <1>1, <1>2, <1>3 DEF Used
<1>6. ASSUME NEW k \in Owing', k \notin Owing
      PROVE  /\ k \in Calls /\ call[k].pc = "running" /\ call[k].reply = r
             /\ outcome = "question" \/ (outcome = "tools" /\ OffersTools(k))
  <2>1. k \in Calls /\ call' = call
    BY <1>1 DEF Owing
  <2>2. call[k].pc = "running"
    BY <1>6, <2>1 DEF Owing
  <2>3. call[k].reply \in Replies
    BY <2>1, <2>2, NumberedPcs DEF Numbered, Loop, IndInv
  <2>4. call[k].reply = r
    BY <1>3, <1>6, <2>1, <2>2, <2>3 DEF Owing, CallsTool, OffersTools
  <2> QED
    BY <1>2, <1>3, <1>6, <2>1, <2>2, <2>4 DEF Owing, CallsTool, OffersTools
<1>7. Numbers' /\ Capacity'
  <2>1. CASE Owing' \subseteq Owing
    BY <1>5, <2>1, CapacityKept DEF IndInv
  <2>2. CASE ~(Owing' \subseteq Owing)
    <3>1. PICK k \in Owing' : k \notin Owing
      BY <2>2
    <3>2. /\ k \in Calls /\ call[k].pc = "running" /\ call[k].reply = r
          /\ outcome = "question" \/ (outcome = "tools" /\ OffersTools(k))
      BY <1>6, <3>1
    <3>3. Spare
      BY <3>2 DEF RunEnds
    <3>4. Owing' \subseteq Owing \cup {k}
      <4>1. ASSUME NEW j \in Owing', j \notin Owing PROVE j = k
        BY <1>6, <3>2, <4>1 DEF IndInv, OwnReplies
      <4> QED
        BY <4>1
    <3> QED
      BY <1>5, <3>2, <3>3, <3>4, CapacitySpare DEF IndInv
  <2> QED
    BY <2>1, <2>2
<1>8. Requests'
  <2>1. \A x \in Replies : run'[x].outcome # "none" => run'[x].state = "ended"
    BY <1>2, <1>3 DEF IndInv, Requests
  <2>2. \A k \in Calls : call[k].pc = "savePlaceholder" => call[k].reply # r
    BY <1>1 DEF IndInv, Requests
  <2>3. \A k \in Calls : call[k].pc \in {"savePlaceholder", "running"} \cup After
                            => call[k].reply \in Replies
    BY DEF IndInv, Requests, Numbered, Loop, After
  <2>4. \A x \in Replies : run'[x].state = run[x].state \/ (x = r /\ run'[x].state = "ended")
    BY <1>2, <1>3
  <2> QED
    BY <1>1, <2>1, <2>2, <2>3, <2>4 DEF IndInv, Requests
<1>9. OwnReplies'
  BY <1>1 DEF IndInv, OwnReplies
<1>10. MessagesBacked'
  BY <1>1, <1>4, BackedKept, BackedAll DEF IndInv, MessagesBacked
<1>11. RoundsCounted'
  BY <1>1, <1>4, CountedSame, CountedAll
<1> QED
  BY <1>7, <1>8, <1>9, <1>10, <1>11 DEF Answers

(* when the app is started again, *)
LEMMA AnswersRestart == ASSUME IndInv, Restart(current) PROVE Answers'
<1>1. /\ Typed /\ current \in Sessions
      /\ session' = [session EXCEPT ![current] = [NewSession EXCEPT !.closed = TRUE]]
      /\ call' = [l \in Calls |-> IF call[l].pc = "idle" THEN NewCall
                                  ELSE [NewCall EXCEPT !.pc = "returned"]]
      /\ run' = [r \in Replies |-> IF run[r].state = "unused" THEN NewRun
                                   ELSE [run[r] EXCEPT !.state = "ended"]]
      /\ store' = store
  BY DEF Restart, IndInv, Typed
<1>2. ASSUME NEW l \in Calls
      PROVE  /\ call'[l].pc \in {"idle", "returned"}
             /\ call'[l].history = [r \in Replies |-> Nothing]
  BY <1>1 DEF NewCall
<1>3. ASSUME NEW r \in Replies
      PROVE  /\ run'[r].outcome = IF run[r].state = "unused" THEN "none" ELSE run[r].outcome
             /\ run'[r].state = IF run[r].state = "unused" THEN "unused" ELSE "ended"
             /\ run[r].state # "unused" => run'[r].risky = run[r].risky
  <2>1. run[r] \in Runs
    BY <1>1 DEF Typed
  <2> QED
    BY <1>1, <2>1 DEF NewRun, Runs
<1>4. EndedKept
  BY <1>3 DEF EndedKept
<1>5. AskedKept
  BY <1>2, <1>3 DEF AskedKept, Asked
<1>6. Used' = Used
  BY <1>3 DEF Used
<1>7. Owing' = {}
  BY <1>2 DEF Owing
<1>8. Numbers' /\ Capacity'
  BY <1>6, <1>7, CapacityKept DEF IndInv
<1>9. Requests'
  <2>1. \A r \in Replies : run'[r].outcome # "none" => run'[r].state = "ended"
    BY <1>3
  <2>2. {"idle", "returned"} \cap (Numbered \cup After) = {}
    BY DEF Numbered, Loop, After
  <2> QED
    BY <1>2, <2>1, <2>2 DEF Requests
<1>10. OwnReplies'
  BY <1>2 DEF OwnReplies
<1>11. MessagesBacked'
  <2>1. \A l \in Calls : BackedNext(call'[l].history)
    BY <1>2, <1>4, <1>5, BackedKept, NothingBacked
  <2>2. BackedNext(store')
    BY <1>1, <1>4, <1>5, BackedKept DEF IndInv, MessagesBacked
  <2>3. ASSUME NEW c \in Sessions PROVE BackedNext(session'[c].view)
    <3>1. CASE c = current
      <4>1. session'[c].view = [r \in Replies |-> Nothing]
        BY <1>1, <3>1 DEF NewSession, Typed
      <4> QED
        BY <4>1, <1>4, <1>5, BackedKept, NothingBacked
    <3>2. CASE c # current
      <4>1. session'[c] = session[c]
        BY <1>1, <3>2 DEF Typed
      <4> QED
        BY <4>1, <1>4, <1>5, BackedKept DEF IndInv, MessagesBacked
    <3> QED
      BY <3>1, <3>2
  <2> QED
    BY <2>1, <2>2, <2>3, BackedAll
<1>12. RoundsCounted'
  <2>1. {"idle", "returned"} \cap Loop = {}
    BY DEF Loop
  <2> QED
    BY <1>2, <2>1 DEF RoundsCounted, Loop
<1> QED
  BY <1>8, <1>9, <1>10, <1>11, <1>12 DEF Answers

(* and when the store and the timers go on: a checkpoint, a controller that is *)
(* opened.                                                                   *)
LEMMA AnswersRest ==
  ASSUME IndInv,
         \/ \E c \in Sessions : Checkpoint(c) \/ Attach(c) \/ Load(c) \/ Repair(c)
         \/ CheckpointSaved \/ Interferes \/ UNCHANGED vars
  PROVE  Answers'
<1>0. /\ Typed /\ store \in Messages /\ Backed(store)
      /\ session \in [Sessions -> Controllers]
      /\ \A c \in Sessions : /\ session[c] \in Controllers /\ session[c].view \in Messages
                             /\ Backed(session[c].view)
  BY SessionFields DEF IndInv, Typed, MessagesBacked
<1>a. (UNCHANGED call => SameCalls) /\ (UNCHANGED run => SameRuns)
  BY DEF SameCalls, SameRuns
<1>1. CASE CheckpointSaved
  <2>1. UNCHANGED <<session, call, run>> /\ queue # <<>> /\ Head(queue).by = "checkpoint"
        /\ store' = [store EXCEPT ![Head(queue).reply].status = "streaming"]
    BY <1>1 DEF CheckpointSaved
  <2>2. Head(queue) \in Ops
    BY <2>1, TakeIn DEF IndInv, Typed
  <2>3. Head(queue).reply \in Replies
    BY <2>1, <2>2, OpsDiffer DEF Ops
  <2>4. Backed(store')
    BY <1>0, <2>1, <2>3, BackedUpdates
  <2> QED
    BY <1>0, <1>a, <2>1, <2>4, AnswersCalm
<1>2. CASE Interferes
  BY <1>0, <1>2, VerdictStep, AnswersCalm
<1>3. CASE UNCHANGED vars
  BY <1>0, <1>3, <1>a, AnswersCalm DEF vars
<1>4. ASSUME NEW c \in Sessions, Checkpoint(c) PROVE Answers'
  <2> DEFINE new == [session[c] EXCEPT !.timer = 0]
  <2>1. session' = [session EXCEPT ![c] = new] /\ UNCHANGED <<call, run, store>>
    BY <1>0, <1>4 DEF Checkpoint
  <2>2. new.view = session[c].view
    BY <1>0 DEF Controllers
  <2> HIDE DEF new
  <2> QED
    BY <1>0, <1>a, <2>1, <2>2, AnswersCalm
<1>5. ASSUME NEW c \in Sessions, Attach(c) PROVE Answers'
  BY <1>0, <1>a, <1>5, AnswersCalm DEF Attach
<1>6. ASSUME NEW c \in Sessions, Load(c) PROVE Answers'
  <2> DEFINE open == {r \in Replies : store[r].status \in Open}
             phase == IF open = {} THEN "ready" ELSE session[c].phase
             new == [session[c] EXCEPT !.loaded = TRUE, !.view = store, !.phase = phase]
  <2>1. session' = [session EXCEPT ![c] = new] /\ UNCHANGED <<call, run, store>>
    BY <1>0, <1>6, Zenon DEF Load
  <2>2. new.view = store
    BY <1>0 DEF Controllers
  <2> HIDE DEF new
  <2> QED
    BY <1>0, <1>a, <2>1, <2>2, AnswersCalm
<1>7. ASSUME NEW c \in Sessions, Repair(c) PROVE Answers'
  <2> DEFINE Repaired(messages) ==
               [r \in Replies |-> IF session[c].view[r].status \in Open
                                  THEN [messages[r] EXCEPT !.status = "interrupted"]
                                  ELSE messages[r]]
             new == [session[c] EXCEPT !.view = Repaired(session[c].view), !.phase = "ready"]
  <2>1. /\ session' = [session EXCEPT ![c] = new] /\ UNCHANGED <<call, run>>
        /\ store' = Repaired(store)
    BY <1>0, <1>7, Zenon DEF Repair
  <2>2. ASSUME NEW m \in Messages, Backed(m) PROVE Backed(Repaired(m))
    <3>1. \A r \in Replies : DOMAIN m[r] = {"user", "status", "result"}
      BY DEF Messages
    <3> QED
      BY <2>2, <3>1 DEF Backed
  <2>3. new.view = Repaired(session[c].view)
    BY <1>0 DEF Controllers
  <2>4. Backed(store') /\ Backed(new.view)
    BY <1>0, <2>1, <2>2, <2>3
  <2> HIDE DEF new, Repaired
  <2> QED
    BY <1>0, <1>a, <2>1, <2>4, AnswersCalm
<1> QED
  BY <1>1, <1>2, <1>3, <1>4, <1>5, <1>6, <1>7

LEMMA InvInit == Init => IndInv
<1> SUFFICES ASSUME Init PROVE IndInv
  OBVIOUS
<1>1. /\ \A c \in Sessions : session[c] = NewSession
      /\ \A l \in Calls : call[l] = NewCall
      /\ \A r \in Replies : run[r] = NewRun
      /\ store = [r \in Replies |-> Nothing] /\ queue = <<OpeningOp(1)>>
      /\ current = 1 /\ 1 \in Sessions
  BY Bounds DEF Init
<1>2. /\ \A c \in Sessions : /\ session[c].view = [r \in Replies |-> Nothing]
                             /\ session[c].phase = "loading" /\ ~session[c].closed
      /\ \A l \in Calls : /\ call[l].history = [r \in Replies |-> Nothing]
                          /\ call[l].pc = "idle"
      /\ \A r \in Replies : run[r].state = "unused" /\ run[r].outcome = "none"
  BY <1>1 DEF NewSession, NewCall, NewRun
<1>3. Typed
  <2>1. queue \in Seq(Ops)
    BY <1>1, OpsTyped
  <2>2. /\ session \in [Sessions -> Controllers] /\ call \in [Calls -> Coroutines]
        /\ run \in [Replies -> Runs]
    BY NewTyped DEF Init
  <2> QED
    BY <1>1, <2>1, <2>2, NothingMessage, Bounds DEF Init, Typed
<1>4. Queued
  <2>1. \A op : In(queue, op) <=> op = OpeningOp(1)
    BY <1>1 DEF In
  <2>2. Once(queue)
    BY <1>1 DEF Once
  <2> QED
    BY <1>1, <1>2, <2>1, <2>2, OpsDiffer DEF Queued, Saving
<1>5. Opened
  <2>1. \A op : In(queue, op) <=> op = OpeningOp(1)
    BY <1>1 DEF In
  <2> QED
    BY <1>1, <1>2, <2>1, OpsDiffer DEF Opened
<1>6. Attached
  BY <1>1, <1>2, Bounds DEF Attached, Active, Sessions
<1>7. Numbers /\ Capacity
  <2>1. Used = {} /\ Owing = {}
    BY <1>2 DEF Used, Owing
  <2>2. 1 .. 0 = {} /\ Cardinality({}) = 0
    BY FS_EmptySet
  <2> QED
    BY <2>1, <2>2, Bounds DEF Numbers, Capacity
<1>8. Requests /\ OwnReplies /\ RoundsCounted
  BY <1>2 DEF Requests, OwnReplies, RoundsCounted, Numbered, Loop, After
<1>9. MessagesBacked
  BY <1>1, <1>2, NothingBacked DEF MessagesBacked
<1> QED
  BY <1>3, <1>4, <1>5, <1>6, <1>7, <1>8, <1>9 DEF IndInv

LEMMA InvNext == ASSUME IndInv, [Next]_vars PROVE IndInv'
<1>1. Typed' /\ Queued' /\ Opened' /\ Attached'
  BY TypedStep, OrderStep
<1>2. ASSUME NEW l \in Calls, HandleSnapshot(l) \/ Coroutine(l) PROVE IndInv'
  BY <1>2, InvCallStep
<1>3. User => Answers'
  BY UserSteps, AnswersStarting, AnswersRestart, AnswersRest DEF IndInv
<1>4. RunEndsSomehow => Answers'
  BY AnswersRunEnds DEF RunEndsSomehow, Outcomes
<1>5. Answers' => IndInv'
  BY <1>1 DEF Answers, IndInv
<1> QED
  BY <1>2, <1>3, <1>4, <1>5, AnswersRest DEF Next

LEMMA InvAlways == Spec => []IndInv
BY InvInit, InvNext, PTL DEF Spec

-------------------------------------------------------------------------------
(* What follows from the invariant. *)

LEMMA OneOperation ==
  ASSUME IndInv, NEW l \in Calls
  PROVE  Cardinality({i \in DOMAIN queue : queue[i] = CallOp(l)})
            = IF call[l].pc \in Saving THEN 1 ELSE 0
<1> DEFINE S == {i \in DOMAIN queue : queue[i] = CallOp(l)}
<1>1. /\ Once(queue) /\ (In(queue, CallOp(l)) <=> call[l].pc \in Saving)
      /\ CallOp(l).by = "call"
  BY OpsDiffer DEF IndInv, Queued
<1>2. CASE call[l].pc \in Saving
  <2>1. PICK i \in DOMAIN queue : queue[i] = CallOp(l)
    BY <1>1, <1>2 DEF In
  <2>2. \A j \in DOMAIN queue : queue[j] = CallOp(l) => j = i
    BY <1>1, <2>1 DEF Once
  <2>3. S = {i}
    BY <2>1, <2>2
  <2> QED
    BY <1>2, <2>3, FS_Singleton
<1>3. CASE call[l].pc \notin Saving
  <2>1. S = {}
    BY <1>1, <1>3 DEF In
  <2> QED
    BY <1>3, <2>1, FS_EmptySet
<1> QED
  BY <1>2, <1>3

LEMMA InvTyped == IndInv => TypeOK
<1> SUFFICES ASSUME IndInv PROVE TypeOK
  OBVIOUS
<1>1. Typed
  BY DEF IndInv
<1>2. ASSUME NEW c \in Sessions
      PROVE  /\ session[c].phase \in Phases
             /\ session[c].view \in Messages
             /\ {session[c].request, session[c].run, session[c].timer} \subseteq 0 .. MaxReplies
             /\ {session[c].approver, session[c].asker} \subseteq 0 .. MaxCalls
             /\ c < current => session[c].closed
  BY <1>1, SessionFields DEF IndInv, Attached
<1>3. ASSUME NEW l \in Calls
      PROVE  /\ call[l].pc \in {"idle", "returned"} \cup Saving \cup Waiting
             /\ call[l].history \in Messages
             /\ call[l].round \in 0 .. MaxReplies + MaxRounds
  <2>1. call[l].pc \in Pcs /\ call[l].history \in Messages /\ call[l].round \in 0 .. MaxReplies
    BY <1>1, CallFields
  <2>2. 0 .. MaxReplies \subseteq 0 .. MaxReplies + MaxRounds
    BY Bounds
  <2> QED
    BY <2>1, <2>2 DEF Pcs
<1> QED
  BY <1>1, <1>2, <1>3, OneOperation DEF TypeOK, Typed

(* The fields of the controllers and of the calls have their types, whatever  *)
(* the user does and whatever fails; a controller that was replaced is       *)
(* closed; and a call has exactly one operation of the store under way while *)
(* it awaits one, and none otherwise, so that no step of the store wakes a   *)
(* call that is not waiting for it.                                          *)
THEOREM ChatTypes == Spec => []TypeOK
BY InvAlways, InvTyped, PTL

LEMMA InvBudget == IndInv => BudgetIsKept
<1> SUFFICES ASSUME IndInv, NEW l \in Calls, call[l].pc = "running",
                    RoundsInTurn(call[l].history) >= MaxRounds, OffersTools(l)
             PROVE  FALSE
  BY DEF BudgetIsKept
<1>1. RoundsInTurn(call[l].history) <= call[l].round
  BY DEF IndInv, RoundsCounted
<1>2. call[l].round < MaxRounds
  BY DEF OffersTools
<1>3. /\ RoundsInTurn(call[l].history) \in Nat /\ call[l].round \in Nat /\ MaxRounds \in Nat
  BY RoundsInTurnType, CallFields, Bounds DEF IndInv
<1> QED
  BY <1>1, <1>2, <1>3

(* A request whose turn has used up its budget of rounds offers no tools,      *)
(* also when the turn was taken up again by calling a tool once more, when   *)
(* messages were deleted in the meantime, and when the history was replaced  *)
(* by what is shown: the round a call counts is never behind the rounds of   *)
(* tools that stand in the history it sends.                                 *)
THEOREM BudgetOfRounds == Spec => []BudgetIsKept
BY InvAlways, InvBudget, PTL
==============================================================================
