--------------------------- MODULE ToolCall_proofs ---------------------------
(***************************************************************************)
(* Proofs about a tool's call: whatever the gateway and the model answer   *)
(* and whenever the context ends, the gateway is asked a bounded number of *)
(* times, never again what it has dealt with, and what it is sent is a     *)
(* dialogue; packing, as part of the call, keeps to its budget; gates rest *)
(* on whole answers, and comments sit on lines the pull request adds.      *)
(***************************************************************************)
EXTENDS ToolCall, ContextBudget_proofs, ReviewVerdict_proofs

\* Requests of the earlier rounds, at most.
Base(i) == MaxAttempts * (i - 1)

\* Requests that left in the current round: one for each attempt, but the
\* attempt that is about to be made.
RoundBound(c) ==
  /\ c.sent <= Base(c.iter) + c.attempt
  /\ c.pc \in {"off", "send", "wait"} => c.sent <= Base(c.iter) + c.attempt - 1
  /\ c.pc \in {"off", "send", "wait", "wire"} => c.heard \in {"nothing", "unavailable"}

AskInv == \A r \in Rules : RoundBound(call[r])

\* What Converse leaves alone, by Set.
LEMMA SetKeeps ==
  ASSUME TypeOK, AskInv, NEW r \in Rules, NEW c \in Call, RoundBound(c), Set(r, c)
  PROVE  TypeOK' /\ AskInv'
<1>1. call' \in [Rules -> Call]  BY DEF Set, TypeOK
<1>2. PackTypeOK'  BY DEF Set, TypeOK, PackTypeOK, packVars
<1>3. TypeOK'  BY <1>1, <1>2 DEF Set, TypeOK
<1>4. \A q \in Rules : call'[q] = IF q = r THEN c ELSE call[q]  BY DEF Set, TypeOK
<1>5. AskInv'  BY <1>4 DEF AskInv, RoundBound
<1> QED  BY <1>3, <1>5

LEMMA BaseIsNat ==
  ASSUME NEW i \in 1 .. MaxIter
  PROVE  /\ Base(i) \in Nat /\ Base(1) = 0
         /\ Base(i + 1) = Base(i) + MaxAttempts
         /\ Base(i + 1) = MaxAttempts * i
<1>1. MaxAttempts \in Nat /\ i \in Nat /\ i - 1 \in Nat  BY ToolCallAssumption
<1>2. \A m \in Nat : /\ m * (i - 1) \in Nat /\ m * (1 - 1) = 0
                     /\ m * ((i + 1) - 1) = m * (i - 1) + m
                     /\ m * ((i + 1) - 1) = m * i
  <2> SUFFICES ASSUME NEW m \in Nat
               PROVE  /\ m * (i - 1) \in Nat /\ m * (1 - 1) = 0
                      /\ m * ((i + 1) - 1) = m * (i - 1) + m
                      /\ m * ((i + 1) - 1) = m * i
    OBVIOUS
  <2>1. m * (i - 1) \in Nat  BY <1>1
  <2>2. m * (1 - 1) = 0  OBVIOUS
  <2>3. m * ((i + 1) - 1) = m * i  BY <1>1
  <2>4. m * (i - 1) + m = m * i  BY <1>1
  <2> QED  BY <2>1, <2>2, <2>3, <2>4
<1> QED  BY <1>1, <1>2 DEF Base

LEMMA SendKeeps ==
  ASSUME TypeOK, AskInv, NEW r \in Rules, Send(r) PROVE TypeOK' /\ AskInv'
<1> DEFINE c == [call[r] EXCEPT !.pc = "wire", !.sent = @ + 1]
<1>1. call[r] \in Call /\ RoundBound(call[r])  BY DEF TypeOK, AskInv
<1>2. c \in Call
  <2>1. call[r].sent + 1 \in Nat  BY <1>1 DEF Call
  <2> QED  BY <1>1, <2>1 DEF Call, PCs
<1>3. /\ c.sent = call[r].sent + 1 /\ c.iter = call[r].iter
      /\ c.attempt = call[r].attempt /\ c.pc = "wire" /\ c.heard = call[r].heard
  BY <1>1 DEF Call
<1>4. RoundBound(c)
  BY <1>1, <1>3, BaseIsNat DEF RoundBound, Send, Call
<1> QED  BY <1>2, <1>4, SetKeeps DEF Send

LEMMA AgainKeeps ==
  ASSUME TypeOK, AskInv, NEW r \in Rules, NEW h \in {"nothing", "unavailable"},
         call[r].pc \in {"send", "wire"}, Again(r, h)
  PROVE  TypeOK' /\ AskInv'
<1> DEFINE c == [call[r] EXCEPT !.heard = h,
                   !.pc = IF call[r].attempt < MaxAttempts THEN "wait" ELSE "failed",
                   !.attempt = IF @ < MaxAttempts THEN @ + 1 ELSE @]
<1>1. call[r] \in Call /\ RoundBound(call[r])  BY DEF TypeOK, AskInv
<1>2. call[r].attempt \in 1 .. MaxAttempts /\ MaxAttempts \in Nat
  BY <1>1, ToolCallAssumption DEF Call
<1>3. /\ c.sent = call[r].sent /\ c.iter = call[r].iter /\ c.heard = h
      /\ c.attempt = IF call[r].attempt < MaxAttempts THEN call[r].attempt + 1
                                                      ELSE call[r].attempt
      /\ c.pc = IF call[r].attempt < MaxAttempts THEN "wait" ELSE "failed"
  BY <1>1 DEF Call
<1>4. c.attempt \in 1 .. MaxAttempts  BY <1>2, <1>3
<1>5. c \in Call  BY <1>1, <1>3, <1>4 DEF Call, PCs
<1>6. RoundBound(c)
  BY <1>1, <1>2, <1>3, BaseIsNat DEF RoundBound, Call
<1> QED  BY <1>5, <1>6, SetKeeps DEF Again

\* The conversation ends, waits no more, or runs the model's calls.
LEMMA QuietKeeps ==
  ASSUME TypeOK, AskInv, NEW r \in Rules, NEW c \in Call, Set(r, c),
         c.sent = call[r].sent, c.iter = call[r].iter, c.attempt = call[r].attempt,
         \/ c.pc \in {"tools", "ok", "failed"}
         \/ c.pc = "send" /\ call[r].pc = "wait" /\ c.heard = call[r].heard
  PROVE  TypeOK' /\ AskInv'
<1>1. RoundBound(call[r])  BY DEF AskInv
<1>2. RoundBound(c)  BY <1>1 DEF RoundBound
<1> QED  BY <1>2, SetKeeps

LEMMA NextRoundKeeps ==
  ASSUME TypeOK, AskInv, NEW r \in Rules, NextRound(r) PROVE TypeOK' /\ AskInv'
<1>1. call[r] \in Call /\ RoundBound(call[r])  BY DEF TypeOK, AskInv
<1>2. /\ call[r].iter \in 1 .. MaxIter /\ call[r].attempt \in 1 .. MaxAttempts
      /\ MaxAttempts \in Nat \ {0} /\ MaxIter \in Nat \ {0} /\ call[r].sent \in Nat
  BY <1>1, ToolCallAssumption DEF Call
<1>3. CASE call[r].iter < MaxIter
  <2> DEFINE c == [call[r] EXCEPT !.pc = "send", !.attempt = 1, !.iter = @ + 1,
                                  !.heard = "nothing"]
  <2>1. /\ c.sent = call[r].sent /\ c.iter = call[r].iter + 1 /\ c.attempt = 1
        /\ c.pc = "send" /\ c.heard = "nothing"
    BY <1>1 DEF Call
  <2>2. c.iter \in 1 .. MaxIter /\ c.attempt \in 1 .. MaxAttempts  BY <1>2, <1>3, <2>1
  <2>3. c \in Call  BY <1>1, <2>1, <2>2 DEF Call, PCs
  <2>4. call[r].sent <= Base(call[r].iter) + MaxAttempts
    BY <1>1, <1>2, BaseIsNat DEF RoundBound
  <2>5. call[r].sent <= Base(call[r].iter + 1)  BY <1>2, <2>4, BaseIsNat
  <2>6. Base(call[r].iter + 1) \in Nat  BY <1>2, BaseIsNat
  <2>7. RoundBound(c)  BY <1>2, <2>1, <2>5, <2>6 DEF RoundBound
  <2>8. Set(r, c)  BY <1>3 DEF NextRound
  <2> QED  BY <2>3, <2>7, <2>8, SetKeeps
<1>4. CASE ~(call[r].iter < MaxIter)
  <2> DEFINE c == [call[r] EXCEPT !.pc = "failed"]
  <2>1. c \in Call /\ c.sent = call[r].sent /\ c.iter = call[r].iter
        /\ c.attempt = call[r].attempt /\ c.pc = "failed"
    BY <1>1 DEF Call, PCs
  <2>2. Set(r, c)  BY <1>4 DEF NextRound
  <2> QED  BY <2>1, <2>2, QuietKeeps
<1> QED  BY <1>3, <1>4
\* One case per step of a conversation.
LEMMA ConverseKeeps ==
  ASSUME TypeOK, AskInv, NEW r \in Rules, Converse(r) PROVE TypeOK' /\ AskInv'
<1>1. call[r] \in Call  BY DEF TypeOK
<1>2. CASE Send(r)  BY <1>2, SendKeeps
<1>3. CASE Lost(r)  BY <1>3, AgainKeeps DEF Lost
<1>4. CASE Unavailable(r)  BY <1>4, AgainKeeps DEF Unavailable
<1>5. CASE Refused(r)
  <2> DEFINE c == [call[r] EXCEPT !.pc = "failed", !.heard = "refusal"]
  <2>1. /\ c \in Call /\ c.sent = call[r].sent /\ c.iter = call[r].iter
        /\ c.attempt = call[r].attempt /\ c.pc = "failed"
    BY <1>1 DEF Call, PCs
  <2> QED  BY <1>5, <2>1, QuietKeeps DEF Refused
<1>6. CASE Elapsed(r)
  <2> DEFINE c == [call[r] EXCEPT !.pc = "send"]
  <2>1. /\ c \in Call /\ c.sent = call[r].sent /\ c.iter = call[r].iter
        /\ c.attempt = call[r].attempt /\ c.pc = "send" /\ c.heard = call[r].heard
    BY <1>1 DEF Call, PCs
  <2> QED  BY <1>6, <2>1, QuietKeeps DEF Elapsed
<1>7. CASE Abandoned(r)
  <2> DEFINE c == [call[r] EXCEPT !.pc = "failed"]
  <2>1. /\ c \in Call /\ c.sent = call[r].sent /\ c.iter = call[r].iter
        /\ c.attempt = call[r].attempt /\ c.pc = "failed"
    BY <1>1 DEF Call, PCs
  <2> QED  BY <1>7, <2>1, QuietKeeps DEF Abandoned
<1>8. CASE Answered(r)
  <2>1. PICK a \in Answers : Conclude(r, a)  BY <1>8 DEF Answered
  <2> DEFINE b == IF Parses(a) THEN [a EXCEPT !.calls = <<>>] ELSE call[r].answer
             c == [call[r] EXCEPT !.pc = IF Parses(a) THEN "ok" ELSE "failed",
                                  !.heard = "answer",
                                  !.answer = IF Parses(a) THEN [a EXCEPT !.calls = <<>>] ELSE @]
  <2>2. [a EXCEPT !.calls = <<>>] \in Answers  BY DEF Answers
  <2>3. b \in Answers \cup {NoAnswer}  BY <1>1, <2>2 DEF Call
  <2>4. c = [call[r] EXCEPT !.pc = IF Parses(a) THEN "ok" ELSE "failed",
                            !.heard = "answer", !.answer = b]
    BY <1>1 DEF Call
  <2>5. /\ c \in Call /\ c.sent = call[r].sent /\ c.iter = call[r].iter
        /\ c.attempt = call[r].attempt /\ c.pc \in {"ok", "failed"}
    BY <1>1, <2>3, <2>4 DEF Call, PCs
  <2> QED  BY <2>1, <2>5, QuietKeeps DEF Conclude
<1>9. CASE CallsTools(r)
  <2>1. PICK a \in Answers :
          Set(r, [call[r] EXCEPT !.pc = "tools", !.heard = "answer", !.todo = a.calls,
                    !.msgs = Append(@, [role |-> "assistant", calls |-> a.calls])])
    BY <1>9 DEF CallsTools
  <2> DEFINE c == [call[r] EXCEPT !.pc = "tools", !.heard = "answer", !.todo = a.calls,
                     !.msgs = Append(@, [role |-> "assistant", calls |-> a.calls])]
  <2>2. a.calls \in Seq(STRING)
    <3>1. a.calls \in {<<>>} \cup CallLists  BY DEF Answers
    <3>2. \A l \in CallLists : l \in Seq(STRING)  BY ToolCallAssumption
    <3>3. <<>> \in Seq(STRING)  OBVIOUS
    <3> QED  BY <3>1, <3>2, <3>3
  <2>3. [role |-> "assistant", calls |-> a.calls] \in Message  BY <2>2 DEF Message
  <2>4. call[r].msgs \in Seq(Message)  BY <1>1 DEF Call
  <2>5. Append(call[r].msgs, [role |-> "assistant", calls |-> a.calls]) \in Seq(Message)
    BY <2>3, <2>4
  <2>6. /\ c \in Call /\ c.sent = call[r].sent /\ c.iter = call[r].iter
        /\ c.attempt = call[r].attempt /\ c.pc = "tools"
    BY <1>1, <2>2, <2>5 DEF Call, PCs
  <2> QED  BY <2>1, <2>6, QuietKeeps
<1>10. CASE RunCall(r)
  <2> DEFINE c == [call[r] EXCEPT !.todo = Tail(@),
                                  !.msgs = Append(@, Reply(Head(call[r].todo)))]
  <2>1. call[r].todo \in Seq(STRING) /\ call[r].todo # <<>> /\ call[r].msgs \in Seq(Message)
    BY <1>1, <1>10 DEF Call, RunCall
  <2>2. Tail(call[r].todo) \in Seq(STRING) /\ Head(call[r].todo) \in STRING
    BY <2>1, HeadTailProperties
  <2>3. Reply(Head(call[r].todo)) \in Message  BY <2>2 DEF Reply, Message
  <2>4. Append(call[r].msgs, Reply(Head(call[r].todo))) \in Seq(Message)  BY <2>1, <2>3
  <2>5. /\ c \in Call /\ c.sent = call[r].sent /\ c.iter = call[r].iter
        /\ c.attempt = call[r].attempt /\ c.pc = "tools"
    BY <1>1, <1>10, <2>2, <2>4 DEF Call, RunCall
  <2> QED  BY <1>10, <2>5, QuietKeeps DEF RunCall
<1>11. CASE NextRound(r)  BY <1>11, NextRoundKeeps
<1> QED
  BY <1>2, <1>3, <1>4, <1>5, <1>6, <1>7, <1>8, <1>9, <1>10, <1>11 DEF Converse

CallInv == TypeOK /\ AskInv /\ PackInv

LEMMA InitCall == ASSUME Init PROVE CallInv
<1> USE DEF Init
<1>1. PackInv  BY InitPack
<1>2. MaxAttempts \in Nat \ {0} /\ MaxIter \in Nat \ {0}  BY ToolCallAssumption
<1>3. Idle \in Call
  <2>1. <<>> \in Seq(STRING) /\ <<>> \in Seq(Message)  OBVIOUS
  <2> QED  BY <1>2, <2>1 DEF Idle, Call, PCs
<1>4. TypeOK  BY <1>1, <1>3 DEF TypeOK, PackInv, NoResult
<1>5. RoundBound(Idle)
  <2>1. Base(1) = 0  BY <1>2, BaseIsNat
  <2> QED  BY <2>1 DEF RoundBound, Idle
<1> QED  BY <1>1, <1>4, <1>5 DEF CallInv, AskInv

\* Every step keeps the invariant: those of packing by PackStepKeepsInv, those
\* of a conversation by ConverseKeeps, the others by what they leave alone.
LEMMA StepKeepsInv == ASSUME CallInv, [Next]_toolVars PROVE CallInv'
<1> USE DEF CallInv
<1>1. CASE Pack
  <2>1. PackInv'  BY <1>1, PackStepKeepsInv DEF Pack
  <2>2. TypeOK'  BY <1>1, <2>1 DEF Pack, TypeOK, PackInv, askVars
  <2>3. AskInv'  BY <1>1 DEF Pack, AskInv, RoundBound, askVars
  <2> QED  BY <2>1, <2>2, <2>3
<1>2. ASSUME UNCHANGED packVars PROVE PackInv'
  BY <1>2, PackStepKeepsInv
<1>3. CASE Start
  <2>1. Idle \in Call /\ [Idle EXCEPT !.pc = "send"] \in Call
    <3>1. MaxAttempts \in Nat \ {0} /\ MaxIter \in Nat \ {0}  BY ToolCallAssumption
    <3>2. <<>> \in Seq(STRING) /\ <<>> \in Seq(Message)  OBVIOUS
    <3>3. Idle \in Call  BY <3>1, <3>2 DEF Idle, Call, PCs
    <3> QED  BY <3>3 DEF Call, PCs
  <2>2. Base(1) = 0  BY ToolCallAssumption, BaseIsNat
  <2>3. RoundBound(Idle) /\ RoundBound([Idle EXCEPT !.pc = "send"])
    BY <2>2 DEF RoundBound, Idle
  <2>4. PackInv'  BY <1>2, <1>3 DEF Start
  <2>5. \A r \in Rules : call'[r] \in {Idle, [Idle EXCEPT !.pc = "send"]}  BY <1>3 DEF Start
  <2>6. call' \in [Rules -> Call]  BY <1>3, <2>1 DEF Start
  <2>7. TypeOK'  BY <1>3, <2>4, <2>6 DEF Start, TypeOK, PackInv
  <2>8. AskInv'
    <3> SUFFICES ASSUME NEW r \in Rules PROVE RoundBound(call'[r])  BY DEF AskInv, RoundBound, Base
    <3> QED  BY <2>3, <2>5
  <2> QED  BY <2>4, <2>7, <2>8
<1>4. CASE EndContext
  <2>1. PackInv'  BY <1>2, <1>4 DEF EndContext
  <2>2. TypeOK' /\ AskInv'
    BY <1>4, <2>1 DEF EndContext, TypeOK, PackInv, AskInv, RoundBound
  <2> QED  BY <2>1, <2>2
<1>5. CASE Return
  <2>1. PackInv'  BY <1>2, <1>5 DEF Return
  <2>2. tool \in {"review", "check", "deep_review"}  BY ToolCallAssumption DEF TypeOK
  <2>3. 1 \in Active /\ (tool # "check" => call[1].pc \in {"ok", "failed"})
    BY <1>5, ToolCallAssumption DEF Return, Active, Rules, Ended
  <2>4. result'.state \in {"error", "result"}
    BY <1>5, <2>2, <2>3 DEF Return, CheckResult, ReviewResult, DeepResult, NoResult
  <2>5. TypeOK' /\ AskInv'
    BY <1>5, <2>1, <2>4 DEF Return, TypeOK, PackInv, AskInv, RoundBound
  <2> QED  BY <2>1, <2>5
<1>6. CASE \E r \in Rules : Converse(r)
  <2>1. PICK r \in Rules : Converse(r)  BY <1>6
  <2>2. UNCHANGED packVars
    BY <2>1 DEF Converse, Send, Lost, Unavailable, Refused, Elapsed, Abandoned, Answered,
       CallsTools, RunCall, NextRound, Again, Conclude, Set
  <2> QED  BY <1>2, <2>1, <2>2, ConverseKeeps
<1>7. CASE UNCHANGED toolVars
  <2>1. PackInv'  BY <1>2, <1>7 DEF toolVars
  <2>2. TypeOK' /\ AskInv'
    BY <1>7, <2>1 DEF toolVars, askVars, TypeOK, PackInv, AskInv, RoundBound
  <2> QED  BY <2>1, <2>2
<1> QED  BY <1>1, <1>3, <1>4, <1>5, <1>6, <1>7 DEF Next

LEMMA InvHolds == Spec => []CallInv
BY InitCall, StepKeepsInv, PTL DEF Spec

\* The tools' state has its types: attempts and rounds stay within the limits
\* of DoJSON and of the loop.
THEOREM TypeCorrect == Spec => []TypeOK
<1>1. CallInv => TypeOK  BY DEF CallInv
<1> QED  BY <1>1, InvHolds, PTL

\* Packing keeps to its budget inside a tool's call as well (compress.go).
THEOREM PackedWithinBudget == Spec => []WithinBudget
<1>1. CallInv => WithinBudget  BY DEF CallInv, PackInv
<1> QED  BY <1>1, InvHolds, PTL

\* And no file is lost in silence, or treated worse than a larger one.
THEOREM NoFileLost == Spec => []NothingLost
<1>1. CallInv => NothingLost  BY DEF CallInv, PackInv
<1> QED  BY <1>1, InvHolds, PTL

\* DoJSON under the loop of /deep_review: so many requests leave the process
\* and no more, whatever the gateway and the model answer.
THEOREM BoundedRequests == Spec => []RequestsBounded
<1>1. ASSUME CallInv PROVE RequestsBounded
  <2> SUFFICES ASSUME NEW r \in Rules PROVE call[r].sent <= MaxAttempts * call[r].iter
    BY DEF RequestsBounded
  <2>1. call[r] \in Call /\ RoundBound(call[r])  BY <1>1 DEF CallInv, AskInv, TypeOK
  <2>2. /\ call[r].sent \in Nat /\ call[r].iter \in 1 .. MaxIter
        /\ call[r].attempt \in 1 .. MaxAttempts /\ MaxAttempts \in Nat
    BY <2>1, ToolCallAssumption DEF Call
  <2>3. call[r].sent <= Base(call[r].iter) + MaxAttempts
    BY <2>1, <2>2, BaseIsNat DEF RoundBound
  <2>4. Base(call[r].iter) + MaxAttempts = MaxAttempts * call[r].iter  BY <2>2, BaseIsNat
  <2> QED  BY <2>3, <2>4
<1> QED  BY <1>1, InvHolds, PTL

\* DoJSON repeats a request only when nothing came back or a status that
\* passes: a refusal and an answer are final.
THEOREM FinalIsFinal == Spec => OnlyTransientRepeated
<1> DEFINE A == \A r \in Rules : call'[r].sent > call[r].sent =>
                  call[r].heard \in {"nothing", "unavailable"}
<1>1. ASSUME CallInv, [Next]_toolVars PROVE [A]_toolVars
  <2> SUFFICES ASSUME Next, NEW r \in Rules, call'[r].sent > call[r].sent
               PROVE  call[r].heard \in {"nothing", "unavailable"}
    BY <1>1
  <2>1. call \in [Rules -> Call] /\ RoundBound(call[r])  BY <1>1 DEF CallInv, TypeOK, AskInv
  <2>2. CASE \E q \in Rules : Converse(q)
    <3>1. PICK q \in Rules : Converse(q)  BY <2>2
    <3>2. call[q] \in Call /\ call[r] \in Call  BY <2>1
    <3>3. CASE Send(q)
      <4>1. r = q  BY <2>1, <3>2, <3>3 DEF Send, Set, Call
      <4> QED  BY <2>1, <3>3, <4>1 DEF Send, RoundBound
    <3>4. CASE Lost(q) \/ Unavailable(q)
      <4>1. PICK h \in {"nothing", "unavailable"} : Again(q, h)
        BY <3>4 DEF Lost, Unavailable
      <4> QED  BY <2>1, <3>2, <4>1 DEF Again, Set, Call
    <3>5. CASE Refused(q) \/ Elapsed(q) \/ Abandoned(q)
      <4>1. CASE Refused(q)  BY <2>1, <3>2, <4>1 DEF Refused, Set, Call
      <4>2. CASE Elapsed(q)  BY <2>1, <3>2, <4>2 DEF Elapsed, Set, Call
      <4>3. CASE Abandoned(q)  BY <2>1, <3>2, <4>3 DEF Abandoned, Set, Call
      <4> QED  BY <3>5, <4>1, <4>2, <4>3
    <3>6. CASE Answered(q)
      BY <2>1, <3>2, <3>6 DEF Answered, Conclude, Set, Call
    <3>7. CASE CallsTools(q) \/ RunCall(q)
      <4>1. CASE CallsTools(q)
        <5>1. PICK a \in Answers :
                Set(q, [call[q] EXCEPT !.pc = "tools", !.heard = "answer", !.todo = a.calls,
                          !.msgs = Append(@, [role |-> "assistant", calls |-> a.calls])])
          BY <4>1 DEF CallsTools
        <5> QED  BY <2>1, <3>2, <5>1 DEF Set, Call
      <4>2. CASE RunCall(q)  BY <2>1, <3>2, <4>2 DEF RunCall, Set, Call
      <4> QED  BY <3>7, <4>1, <4>2
    <3>8. CASE NextRound(q)
      BY <2>1, <3>2, <3>8 DEF NextRound, Set, Call
    <3> QED  BY <3>1, <3>3, <3>4, <3>5, <3>6, <3>7, <3>8 DEF Converse
  <2>3. CASE Pack \/ EndContext \/ Return
    BY <2>1, <2>3 DEF Pack, EndContext, Return, askVars, Call
  <2>4. CASE Start
    <3>1. call[r].sent \in Nat /\ call[r].pc = "off"  BY <2>1, <2>4 DEF Start, Call
    <3> QED  BY <2>1, <3>1 DEF RoundBound
  <2> QED  BY <2>2, <2>3, <2>4 DEF Next
<1> QED  BY <1>1, InvHolds, PTL DEF Spec, OnlyTransientRepeated

-----------------------------------------------------------------------------
(* The dialogue of the loop.                                               *)

\* What was said, and what is to be run: a message of the model is followed by
\* its replies, as far as they are there, and what todo holds is the rest.
Dialogue(msgs, todo) ==
  /\ msgs # <<>> => msgs[1].role = "assistant"
  /\ todo # <<>> => msgs # <<>>
  /\ \A i \in 1 .. Len(msgs) : msgs[i].role = "assistant" =>
       LET last == i + Len(msgs[i].calls)
       IN  /\ \A k \in i + 1 .. last : k <= Len(msgs) => msgs[k] = Reply(msgs[i].calls[k - i])
           /\ last < Len(msgs) => msgs[last + 1].role = "assistant"
           /\ last >= Len(msgs) =>
                /\ last = Len(msgs) + Len(todo)
                /\ \A j \in 1 .. Len(todo) : todo[j] = msgs[i].calls[(Len(msgs) - i) + j]

LEMMA Appended ==
  ASSUME NEW S, NEW s \in Seq(S), NEW e \in S
  PROVE  /\ Append(s, e) \in Seq(S) /\ Append(s, e) # <<>>
         /\ Len(Append(s, e)) = Len(s) + 1 /\ Append(s, e)[Len(s) + 1] = e
         /\ \A k \in 1 .. Len(s) : Append(s, e)[k] = s[k]
OBVIOUS

LEMMA MessageCalls ==
  ASSUME NEW msgs \in Seq(Message), NEW k \in 1 .. Len(msgs)
  PROVE  msgs[k] \in Message /\ Len(msgs[k].calls) \in Nat
<1>1. msgs[k] \in Message  OBVIOUS
<1>2. \A m \in Message : Len(m.calls) \in Nat  BY DEF Message
<1> QED  BY <1>1, <1>2

\* The model speaks when nothing is left to run.
LEMMA ModelSpeaks ==
  ASSUME NEW msgs \in Seq(Message), Dialogue(msgs, <<>>), NEW calls \in Seq(STRING)
  PROVE  Dialogue(Append(msgs, [role |-> "assistant", calls |-> calls]), calls)
<1> DEFINE n == Len(msgs)
           m == [role |-> "assistant", calls |-> calls]
           new == Append(msgs, m)
<1>1. n \in Nat /\ Len(calls) \in Nat  OBVIOUS
<1>2. m \in Message  BY DEF Message
<1>3. /\ Len(new) = n + 1 /\ new # <<>>
      /\ new[n + 1] = m
      /\ \A k \in 1 .. n : new[k] = msgs[k]
  BY <1>2
<1>4. \A k \in 1 .. n : msgs[k] \in Message /\ Len(msgs[k].calls) \in Nat
  BY MessageCalls
<1>5. new[1].role = "assistant"
  <2>1. CASE n = 0  BY <1>3, <2>1
  <2>2. CASE n # 0
    <3>1. msgs # <<>> /\ 1 \in 1 .. n  BY <1>1, <2>2
    <3> QED  BY <1>3, <3>1 DEF Dialogue
  <2> QED  BY <2>1, <2>2
<1> HIDE DEF new, n
<1>6. ASSUME NEW i \in 1 .. Len(new), new[i].role = "assistant", NEW last,
             last = i + Len(new[i].calls)
      PROVE  /\ \A k \in i + 1 .. last : k <= Len(new) => new[k] = Reply(new[i].calls[k - i])
             /\ last < Len(new) => new[last + 1].role = "assistant"
             /\ last >= Len(new) =>
                  /\ last = Len(new) + Len(calls)
                  /\ \A j \in 1 .. Len(calls) : calls[j] = new[i].calls[(Len(new) - i) + j]
  <2>1. CASE i = n + 1
    <3>1. last = n + 1 + Len(calls) /\ Len(new) = i  BY <1>3, <1>6, <2>1
    <3>2. \A k \in i + 1 .. last : ~(k <= Len(new))  BY <1>1, <2>1, <3>1
    <3>3. \A j \in 1 .. Len(calls) : (Len(new) - i) + j = j  BY <1>1, <2>1, <3>1
    <3>4. new[i].calls = calls  BY <1>3, <2>1
    <3> QED  BY <1>1, <2>1, <3>1, <3>2, <3>3, <3>4
  <2>2. CASE i # n + 1
    <3>1. i \in 1 .. n  BY <1>1, <1>3, <2>2
    <3>2. new[i] = msgs[i] /\ msgs[i].role = "assistant" /\ last = i + Len(msgs[i].calls)
      BY <1>3, <1>6, <3>1
    <3> last \in Nat
      <4>1. Len(msgs[i].calls) \in Nat /\ i \in Nat  BY <1>4, <3>1
      <4> QED  BY <3>2, <4>1
    <3>3. Len(<<>>) = 0  OBVIOUS
    <3>4. /\ \A k \in i + 1 .. last : k <= n => msgs[k] = Reply(msgs[i].calls[k - i])
          /\ last < n => msgs[last + 1].role = "assistant"
          /\ last >= n => last = n
      BY <1>1, <3>1, <3>2, <3>3 DEF Dialogue, n
    <3>5. last <= n  BY <1>1, <3>2, <3>4
    <3>6. \A k \in i + 1 .. last : k \in 1 .. n  BY <1>1, <3>1, <3>2, <3>5, SMTT(30)
    <3>7. new[last + 1].role = "assistant"
      <4>1. CASE last = n  BY <1>3, <4>1
      <4>2. CASE last # n
        <5>1. last < n /\ last + 1 \in 1 .. n  BY <1>1, <3>2, <3>5, <4>2
        <5> QED  BY <1>3, <3>4, <5>1
      <4> QED  BY <4>1, <4>2
    <3>8. ~(last >= Len(new))  BY <1>1, <1>3, <3>2, <3>5
    <3>9. \A k \in i + 1 .. last : new[k] = Reply(new[i].calls[k - i])
      BY <1>1, <1>3, <3>2, <3>4, <3>5, <3>6
    <3> QED  BY <3>7, <3>8, <3>9
  <2> QED  BY <2>1, <2>2
<1> QED  BY <1>3, <1>5, <1>6 DEF Dialogue, new

\* A call is run, and answered.
LEMMA ToolReplies ==
  ASSUME NEW msgs \in Seq(Message), NEW todo \in Seq(STRING), todo # <<>>,
         Dialogue(msgs, todo)
  PROVE  Dialogue(Append(msgs, Reply(Head(todo))), Tail(todo))
<1> DEFINE n == Len(msgs)
           m == Reply(Head(todo))
           new == Append(msgs, m)
           rest == Tail(todo)
<1>1. n \in Nat /\ Len(todo) \in Nat \ {0} /\ Head(todo) = todo[1] /\ todo[1] \in STRING
  OBVIOUS
<1>2. rest \in Seq(STRING) /\ Len(rest) = Len(todo) - 1
      /\ \A j \in 1 .. Len(rest) : rest[j] = todo[j + 1]
  <2>1. rest \in Seq(STRING) /\ Len(rest) = Len(todo) - 1  BY HeadTailProperties
  <2>2. \A j \in 1 .. Len(rest) : rest[j] = todo[j + 1]  BY <2>1, HeadTailProperties
  <2> QED  BY <2>1, <2>2
<1>3. m \in Message /\ m.role = "tool"  BY <1>1 DEF Message, Reply
<1>4. /\ Len(new) = n + 1 /\ new # <<>>
      /\ new[n + 1] = m
      /\ \A k \in 1 .. n : new[k] = msgs[k]
  BY <1>3, Appended
<1>5. \A k \in 1 .. n : msgs[k] \in Message /\ Len(msgs[k].calls) \in Nat
  BY MessageCalls
<1>6. n # 0 /\ msgs[1].role = "assistant"
  <2>1. msgs # <<>>  BY DEF Dialogue
  <2> QED  BY <2>1 DEF Dialogue
<1>7. new[1].role = "assistant"  BY <1>1, <1>4, <1>6
<1>8. m = Reply(todo[1])  BY <1>1
<1> HIDE DEF new, n, m, rest
<1>9. ASSUME NEW i \in 1 .. Len(new), new[i].role = "assistant", NEW last,
             last = i + Len(new[i].calls)
      PROVE  /\ \A k \in i + 1 .. last : k <= Len(new) => new[k] = Reply(new[i].calls[k - i])
             /\ last < Len(new) => new[last + 1].role = "assistant"
             /\ last >= Len(new) =>
                  /\ last = Len(new) + Len(rest)
                  /\ \A j \in 1 .. Len(rest) : rest[j] = new[i].calls[(Len(new) - i) + j]
  <2>1. i \in 1 .. n
    <3>1. i # n + 1  BY <1>3, <1>4, <1>9
    <3> QED  BY <1>1, <1>4, <3>1
  <2>2. new[i] = msgs[i] /\ msgs[i].role = "assistant" /\ last = i + Len(msgs[i].calls)
        /\ last \in Nat
    BY <1>4, <1>5, <1>9, <2>1
  <2>3. /\ \A k \in i + 1 .. last : k <= n => msgs[k] = Reply(msgs[i].calls[k - i])
        /\ last < n => msgs[last + 1].role = "assistant"
        /\ last >= n => /\ last = n + Len(todo)
                        /\ \A j \in 1 .. Len(todo) : todo[j] = msgs[i].calls[(n - i) + j]
    BY <1>1, <2>1, <2>2 DEF Dialogue, n
  <2>4. CASE last < n
    <3>1. last + 1 \in 1 .. n /\ ~(last >= Len(new))  BY <1>1, <1>4, <2>2, <2>4, SMTT(30)
    <3>2. \A k \in i + 1 .. last : k \in 1 .. n  BY <1>1, <2>1, <2>2, <2>4
    <3>3. \A k \in i + 1 .. last : new[k] = Reply(new[i].calls[k - i])
      BY <1>1, <1>4, <2>2, <2>3, <3>2
    <3> QED  BY <1>4, <2>3, <2>4, <3>1, <3>3
  <2>5. CASE ~(last < n)
    <3>1. last = n + Len(todo) /\ \A j \in 1 .. Len(todo) : todo[j] = msgs[i].calls[(n - i) + j]
      BY <1>1, <2>2, <2>3, <2>5
    <3>2. last = Len(new) + Len(rest)  BY <1>1, <1>2, <1>4, <3>1
    <3>3. ~(last < Len(new))  BY <1>1, <1>2, <1>4, <3>2
    <3>4. ASSUME NEW k \in i + 1 .. last, k <= Len(new)
          PROVE  new[k] = Reply(new[i].calls[k - i])
      <4>1. CASE k \in 1 .. n
        <5>1. k <= n  BY <1>1, <4>1
        <5>2. msgs[k] = Reply(msgs[i].calls[k - i])  BY <2>3, <3>4, <5>1
        <5> QED  BY <1>4, <2>2, <4>1, <5>2
      <4>2. CASE k = n + 1
        <5>1. todo[1] = msgs[i].calls[(n - i) + 1] /\ (n - i) + 1 = k - i
          BY <1>1, <2>1, <3>1, <4>2
        <5> QED  BY <1>4, <1>8, <2>2, <4>2, <5>1
      <4> QED  BY <1>1, <1>4, <2>1, <3>4, <4>1, <4>2
    <3>5. ASSUME NEW j \in 1 .. Len(rest)
          PROVE  rest[j] = new[i].calls[(Len(new) - i) + j]
      <4>1. j + 1 \in 1 .. Len(todo) /\ (n - i) + (j + 1) = (Len(new) - i) + j
        BY <1>1, <1>2, <1>4, <2>1
      <4> QED  BY <1>2, <2>2, <3>1, <4>1
    <3> QED  BY <3>2, <3>3, <3>4, <3>5
  <2> QED  BY <2>4, <2>5
<1> QED  BY <1>4, <1>7, <1>9 DEF Dialogue, new, rest, m

\* A conversation whose messages are a dialogue, with calls left to run only
\* while they are run, and which succeeds only with an answer that parsed.
Sound(c, t) ==
  /\ Dialogue(c.msgs, c.todo)
  /\ c.pc # "tools" => c.todo = <<>>
  /\ c.pc = "ok" => /\ c.heard = "answer" /\ c.answer.content.kind = "json"
                    /\ t # "deep_review" => c.answer.finish = "stop"

LEMMA IdleSound == Sound(Idle, tool) /\ Sound([Idle EXCEPT !.pc = "send"], tool)
<1>1. Len(<<>>) = 0 /\ \A i \in 1 .. 0 : FALSE  OBVIOUS
<1>2. Dialogue(<<>>, <<>>)  BY <1>1 DEF Dialogue
<1> QED  BY <1>2 DEF Sound, Idle

\* Steps between which nothing is said.
LEMMA QuietSound ==
  ASSUME TypeOK, NEW r \in Rules, NEW c, Set(r, c), Sound(call[r], tool),
         c.msgs = call[r].msgs, c.todo = call[r].todo, c.pc # "ok",
         call[r].todo = <<>>
  PROVE  Sound(call'[r], tool)
<1>1. call'[r] = c  BY DEF Set, TypeOK
<1> QED  BY <1>1 DEF Sound

LEMMA ConverseSound ==
  ASSUME TypeOK, NEW r \in Rules, Converse(r), Sound(call[r], tool)
  PROVE  Sound(call'[r], tool)
<1>1. call[r] \in Call /\ call \in [Rules -> Call]  BY DEF TypeOK
<1>2. call[r].msgs \in Seq(Message) /\ call[r].todo \in Seq(STRING)  BY <1>1 DEF Call
<1>3. \A c : Set(r, c) => call'[r] = c  BY <1>1 DEF Set
<1>4. ASSUME NEW h, call[r].pc \in {"send", "wire"}, Again(r, h) PROVE Sound(call'[r], tool)
  <2> DEFINE c == [call[r] EXCEPT !.heard = h,
                     !.pc = IF call[r].attempt < MaxAttempts THEN "wait" ELSE "failed",
                     !.attempt = IF @ < MaxAttempts THEN @ + 1 ELSE @]
  <2>1. c.msgs = call[r].msgs /\ c.todo = call[r].todo /\ c.pc # "ok"  BY <1>1 DEF Call
  <2>2. call[r].todo = <<>>  BY <1>4 DEF Sound
  <2>3. Set(r, c)  BY <1>4 DEF Again
  <2> HIDE DEF c
  <2> QED  BY <2>1, <2>2, <2>3, QuietSound
<1>5. ASSUME NEW c, Set(r, c), c.msgs = call[r].msgs, c.todo = call[r].todo, c.pc # "ok",
             call[r].pc # "tools" \/ call[r].todo = <<>>
      PROVE  Sound(call'[r], tool)
  <2>1. call[r].todo = <<>>  BY <1>5 DEF Sound
  <2> QED  BY <1>5, <2>1, QuietSound
<1>6. CASE Send(r)
  <2> DEFINE c == [call[r] EXCEPT !.pc = "wire", !.sent = @ + 1]
  <2>1. c.msgs = call[r].msgs /\ c.todo = call[r].todo /\ c.pc # "ok"  BY <1>1 DEF Call
  <2> QED  BY <1>5, <1>6, <2>1 DEF Send
<1>7. CASE Lost(r) \/ Unavailable(r)  BY <1>4, <1>7 DEF Lost, Unavailable
<1>8. CASE Refused(r)
  <2> DEFINE c == [call[r] EXCEPT !.pc = "failed", !.heard = "refusal"]
  <2>1. c.msgs = call[r].msgs /\ c.todo = call[r].todo /\ c.pc # "ok"  BY <1>1 DEF Call
  <2> QED  BY <1>5, <1>8, <2>1 DEF Refused
<1>9. CASE Elapsed(r)
  <2> DEFINE c == [call[r] EXCEPT !.pc = "send"]
  <2>1. c.msgs = call[r].msgs /\ c.todo = call[r].todo /\ c.pc # "ok"  BY <1>1 DEF Call
  <2> QED  BY <1>5, <1>9, <2>1 DEF Elapsed
<1>10. CASE Abandoned(r)
  <2> DEFINE c == [call[r] EXCEPT !.pc = "failed"]
  <2>1. c.msgs = call[r].msgs /\ c.todo = call[r].todo /\ c.pc # "ok"  BY <1>1 DEF Call
  <2> QED  BY <1>5, <1>10, <2>1 DEF Abandoned
<1>11. CASE Answered(r)
  <2>1. PICK a \in Answers : Conclude(r, a)  BY <1>11 DEF Answered
  <2> DEFINE c == [call[r] EXCEPT !.pc = IF Parses(a) THEN "ok" ELSE "failed",
                     !.heard = "answer",
                     !.answer = IF Parses(a) THEN [a EXCEPT !.calls = <<>>] ELSE @]
  <2>2. /\ c.msgs = call[r].msgs /\ c.todo = call[r].todo /\ c.heard = "answer"
        /\ c.pc = IF Parses(a) THEN "ok" ELSE "failed"
        /\ Parses(a) => c.answer = [a EXCEPT !.calls = <<>>]
    BY <1>1 DEF Call
  <2>3. call'[r] = c  BY <1>3, <2>1 DEF Conclude
  <2>4. /\ [a EXCEPT !.calls = <<>>].content = a.content
        /\ [a EXCEPT !.calls = <<>>].finish = a.finish /\ a.finish \in {"stop", "length"}
    BY DEF Answers
  <2>5. call[r].todo = <<>>  BY <1>11 DEF Sound, Answered
  <2> HIDE DEF c
  <2>6. Parses(a) => /\ c.answer.content.kind = "json"
                     /\ tool # "deep_review" => c.answer.finish = "stop"
    BY <2>2, <2>4 DEF Parses
  <2> QED  BY <2>2, <2>3, <2>5, <2>6 DEF Sound
<1>12. CASE CallsTools(r)
  <2>1. PICK a \in Answers :
          Set(r, [call[r] EXCEPT !.pc = "tools", !.heard = "answer", !.todo = a.calls,
                    !.msgs = Append(@, [role |-> "assistant", calls |-> a.calls])])
    BY <1>12 DEF CallsTools
  <2> DEFINE said == Append(call[r].msgs, [role |-> "assistant", calls |-> a.calls])
             c == [call[r] EXCEPT !.pc = "tools", !.heard = "answer", !.todo = a.calls,
                                  !.msgs = said]
  <2>2. a.calls \in Seq(STRING)
    <3>1. a.calls \in {<<>>} \cup CallLists  BY DEF Answers
    <3>2. \A l \in CallLists : l \in Seq(STRING)  BY ToolCallAssumption
    <3>3. <<>> \in Seq(STRING)  OBVIOUS
    <3> QED  BY <3>1, <3>2, <3>3
  <2>3. call[r].todo = <<>> /\ Dialogue(call[r].msgs, <<>>)  BY <1>12 DEF Sound, CallsTools
  <2>4. Dialogue(said, a.calls)  BY <1>2, <2>2, <2>3, ModelSpeaks
  <2>5. call'[r] = c  BY <1>1, <1>3, <2>1 DEF Call
  <2> HIDE DEF said
  <2>6. c.msgs = said /\ c.todo = a.calls /\ c.pc = "tools"  BY <1>1 DEF Call
  <2> QED  BY <2>4, <2>5, <2>6 DEF Sound
<1>13. CASE RunCall(r)
  <2> DEFINE said == Append(call[r].msgs, Reply(Head(call[r].todo)))
             c == [call[r] EXCEPT !.todo = Tail(@), !.msgs = said]
  <2>1. call[r].todo # <<>> /\ Dialogue(call[r].msgs, call[r].todo) /\ call[r].pc = "tools"
    BY <1>13 DEF Sound, RunCall
  <2>2. Dialogue(said, Tail(call[r].todo))  BY <1>2, <2>1, ToolReplies
  <2>3. call'[r] = c  BY <1>1, <1>3, <1>13 DEF RunCall, Call
  <2> HIDE DEF said
  <2>4. c.msgs = said /\ c.todo = Tail(call[r].todo) /\ c.pc = "tools"  BY <1>1, <2>1 DEF Call
  <2> QED  BY <2>2, <2>3, <2>4 DEF Sound
<1>14. CASE NextRound(r)
  <2>1. call[r].todo = <<>>  BY <1>14 DEF NextRound
  <2>2. CASE call[r].iter < MaxIter
    <3> DEFINE c == [call[r] EXCEPT !.pc = "send", !.attempt = 1, !.iter = @ + 1,
                                    !.heard = "nothing"]
    <3>1. c.msgs = call[r].msgs /\ c.todo = call[r].todo /\ c.pc # "ok"  BY <1>1 DEF Call
    <3> QED  BY <1>5, <1>14, <2>1, <2>2, <3>1 DEF NextRound
  <2>3. CASE ~(call[r].iter < MaxIter)
    <3> DEFINE c == [call[r] EXCEPT !.pc = "failed"]
    <3>1. c.msgs = call[r].msgs /\ c.todo = call[r].todo /\ c.pc # "ok"  BY <1>1 DEF Call
    <3> QED  BY <1>5, <1>14, <2>1, <2>3, <3>1 DEF NextRound
  <2> QED  BY <2>2, <2>3
<1> QED
  BY <1>6, <1>7, <1>8, <1>9, <1>10, <1>11, <1>12, <1>13, <1>14 DEF Converse

-----------------------------------------------------------------------------
(* The result.                                                             *)

\* GatesRestOnAnswers and CommentsStartOnAddedLines of a result.
GatesRest(res) ==
  \A i \in DOMAIN res.gates :
    LET gate == res.gates[i]
        r == IF tool = "check" THEN gate.rule ELSE 1
        blocks(sev) == sev \in IF tool = "check" THEN {"block"} ELSE cfg.blockOn
        sevs == IF tool = "check" THEN {RuleSev[r]} ELSE {Found(r)[k].sev : k \in DOMAIN Found(r)}
    IN  /\ call[r].heard = "answer"
        /\ call[r].answer.content.kind = "json" /\ call[r].answer.finish = "stop"
        /\ gate.status = "succeeded" =>
             \A k \in DOMAIN res.comments :
               res.comments[k].rule = gate.rule => ~blocks(res.comments[k].sev)
        /\ gate.status = "failed" => Found(r) # <<>> /\ \E s \in sevs : blocks(s)

Anchored(res) ==
  tool = "review" =>
    \A i \in DOMAIN res.comments :
      LET c == res.comments[i]
          added == AddedLines(Shown(c.file)) \cap AddedLines(patch[c.file])
      IN  c.line # 0 =>
            /\ c.line \in added
            /\ {GithubLine(c), GitlabLine(c)} \subseteq added \cup {c.last}

Finding == [file : Files, line : Nat, last : Nat, sev : STRING]

\* A comment is anchored at its line, or at its end.
LEMMA AnchorOf ==
  ASSUME NEW c, c.line \in Nat \ {0}, c.last \in Nat
  PROVE  GithubLine(c) \in {c.line, c.last} /\ GitlabLine(c) \in {c.line, c.last}
BY DEF GithubLine, GitlabLine

\* What a conversation that succeeded has found.
LEMMA FoundType ==
  ASSUME TypeOK, NEW r \in Rules, Sound(call[r], tool), call[r].pc = "ok"
  PROVE  Found(r) \in Seq(Finding)
<1>1. call[r].answer \in Answers \cup {NoAnswer}  BY DEF TypeOK, Call
<1>2. call[r].answer.content.kind = "json"  BY DEF Sound
<1>3. call[r].answer \in Answers  BY <1>1, <1>2 DEF NoAnswer, Content
<1>4. call[r].answer.content \in
        {Content(k, <<>>) : k \in {"none", "text", "cut"}} \cup {Content("json", o) : o \in Outputs}
  BY <1>3 DEF Answers
<1>5. PICK o \in Outputs : call[r].answer.content = Content("json", o)
  BY <1>2, <1>4 DEF Content
<1>6. Found(r) = o  BY <1>5 DEF Found, Content
<1> QED  BY <1>6, ToolCallAssumption DEF Finding

\* /review: the gate looks at every finding, and what becomes a comment starts
\* on a line that changedLineRanges gives.
LEMMA ReviewReturns ==
  ASSUME CallInv, tool = "review", call[1].pc = "ok", Sound(call[1], tool)
  PROVE  GatesRest(ReviewResult) /\ Anchored(ReviewResult)
<1> DEFINE found == Found(1)
           inline == convertFindings(found, cfg, ChangedMap)
           C == {f \in {found[i] : i \in 1 .. Len(found)} :
                   /\ InChangedLines(ChangedMap[f.file], f.line)
                   /\ Rank(f.sev) >= Rank(cfg.threshold)}
           gate == [rule |-> 0, status |-> Gate(found, inline, cfg)]
           comments == [i \in DOMAIN Posted(inline, cfg) |-> CommentOf(inline[i], 0, inline[i].sev)]
<1>1. TypeOK /\ PackInv /\ 1 \in Rules  BY ToolCallAssumption DEF CallInv, Rules
<1>2. found \in Seq(Finding)  BY <1>1, FoundType
<1>3. inline \in Seq(C)
  <2>1. cfg.maxComments \in Nat  BY <1>1, ToolCallAssumption DEF TypeOK
  <2> QED  BY <1>2, <2>1, ConvertType
<1>4. /\ ReviewResult.gates = <<gate>> /\ ReviewResult.comments = comments
  BY DEF ReviewResult
<1> HIDE DEF found, inline
<1>5. Posted(inline, cfg) = <<>> \/ (~Silenced(inline, cfg) /\ Posted(inline, cfg) = inline)
  BY DEF Posted
<1>6. DOMAIN comments = DOMAIN Posted(inline, cfg)  OBVIOUS
<1>7. ASSUME NEW k \in DOMAIN comments
      PROVE  /\ ~Silenced(inline, cfg)
             /\ inline[k] \in C
             /\ comments[k] = CommentOf(inline[k], 0, inline[k].sev)
  <2>1. k \in DOMAIN Posted(inline, cfg)  BY <1>6
  <2>2. DOMAIN <<>> = {}  OBVIOUS
  <2>3. ~Silenced(inline, cfg) /\ k \in DOMAIN inline  BY <1>5, <2>1, <2>2
  <2>4. inline[k] \in C
    <3> HIDE DEF C
    <3> QED  BY <1>3, <2>3
  <2> QED  BY <2>1, <2>3, <2>4
<1> HIDE DEF comments
<1>8. GatesRest(ReviewResult)
  <2> SUFFICES ASSUME NEW i \in DOMAIN ReviewResult.gates
      PROVE  /\ call[1].heard = "answer"
             /\ call[1].answer.content.kind = "json" /\ call[1].answer.finish = "stop"
             /\ gate.status = "succeeded" =>
                  \A k \in DOMAIN comments :
                    comments[k].rule = gate.rule => comments[k].sev \notin cfg.blockOn
             /\ gate.status = "failed" =>
                  /\ found # <<>>
                  /\ \E s \in {found[k].sev : k \in DOMAIN found} : s \in cfg.blockOn
    <3>1. DOMAIN <<gate>> = {1} /\ <<gate>>[1] = gate  OBVIOUS
    <3> HIDE DEF gate
    <3> QED  BY <1>4, <3>1 DEF GatesRest, found
  <2>1. /\ call[1].heard = "answer"
        /\ call[1].answer.content.kind = "json" /\ call[1].answer.finish = "stop"
    BY DEF Sound
  <2>2. ASSUME gate.status = "succeeded", NEW k \in DOMAIN comments
        PROVE  comments[k].sev \notin cfg.blockOn
    <3>1. ~hasBlocking(found, cfg.blockOn)  BY <1>7, <2>2 DEF Gate
    <3>2. PICK i2 \in 1 .. Len(found) : inline[k] = found[i2]  BY <1>7, <2>2
    <3>3. found[i2].sev \notin cfg.blockOn  BY <1>2, <3>1 DEF hasBlocking
    <3> QED  BY <1>7, <2>2, <3>2, <3>3 DEF CommentOf
  <2>3. ASSUME gate.status = "failed"
        PROVE  /\ found # <<>>
               /\ \E s \in {found[k].sev : k \in DOMAIN found} : s \in cfg.blockOn
    <3>1. hasBlocking(found, cfg.blockOn)  BY <2>3 DEF Gate
    <3>2. PICK k \in DOMAIN found : found[k].sev \in cfg.blockOn  BY <3>1 DEF hasBlocking
    <3>3. DOMAIN <<>> = {}  OBVIOUS
    <3> QED  BY <3>2, <3>3
  <2> QED  BY <2>1, <2>2, <2>3
<1>9. Anchored(ReviewResult)
  <2> SUFFICES ASSUME NEW k \in DOMAIN comments
      PROVE  LET c == comments[k]
                 added == AddedLines(Shown(c.file)) \cap AddedLines(patch[c.file])
             IN  c.line # 0 =>
                   /\ c.line \in added
                   /\ {GithubLine(c), GitlabLine(c)} \subseteq added \cup {c.last}
    BY <1>4 DEF Anchored
  <2>1. PICK f \in Finding : f = inline[k]
    <3>1. \E i \in 1 .. Len(found) : inline[k] = found[i]  BY <1>7
    <3> QED  BY <1>2, <3>1
  <2>2. /\ comments[k].line = f.line /\ comments[k].last = f.last
        /\ comments[k].file = f.file /\ f.file \in Files
        /\ f.line \in Nat /\ f.last \in Nat
    BY <1>7, <2>1 DEF CommentOf, Finding
  <2>3. InChangedLines(ChangedMap[f.file], f.line)  BY <1>7, <2>1
  <2>4. ChangedMap[f.file] = changedLineRanges(Shown(f.file))  BY <2>2 DEF ChangedMap
  <2>5. patch[f.file] \in Seq(DiffLine)
    BY <1>1, <2>2, ToolCallAssumption DEF TypeOK, PackTypeOK
  <2>6. /\ Shown(f.file) \in Seq(DiffLine)
        /\ AddedLines(Shown(f.file)) \subseteq AddedLines(patch[f.file])
    <3>1. CASE f.file \in packed
      <4>1. lines[f.file] \in 0 .. Len(patch[f.file])
        <5>1. lines[f.file] \in Nat /\ lines[f.file] <= Len(patch[f.file])
          BY <1>1, <2>2 DEF PackInv, ShownIsPrefix, PackTypeOK
        <5> QED  BY <2>5, <5>1
      <4>2. Shown(f.file) = SubSeq(patch[f.file], 1, lines[f.file])  BY <3>1 DEF Shown
      <4> QED  BY <2>5, <4>1, <4>2, AddedInPrefix
    <3>2. CASE f.file \notin packed
      <4>1. Shown(f.file) = <<>>  BY <3>2 DEF Shown
      <4>2. <<>> \in Seq(DiffLine) /\ DOMAIN <<>> = {}  OBVIOUS
      <4>3. AddedLines(<<>>) = {}  BY <4>2 DEF AddedLines
      <4> QED  BY <4>1, <4>2, <4>3
    <3> QED  BY <3>1, <3>2
  <2>7. changedLineRanges(Shown(f.file)) = AddedLines(Shown(f.file))
    BY <2>6, ChangedLinesAreAdded
  <2>8. comments[k].line # 0 =>
          {GithubLine(comments[k]), GitlabLine(comments[k])}
            \subseteq {comments[k].line, comments[k].last}
    <3> DEFINE c == comments[k]
    <3>1. c.line \in Nat /\ c.last \in Nat  BY <2>2
    <3> HIDE DEF c
    <3>2. c.line # 0 => GithubLine(c) \in {c.line, c.last} /\ GitlabLine(c) \in {c.line, c.last}
      BY <3>1, AnchorOf
    <3> QED  BY <3>2 DEF c
  <2>9. comments[k].line # 0 =>
          comments[k].line \in
            AddedLines(Shown(comments[k].file)) \cap AddedLines(patch[comments[k].file])
    BY <2>2, <2>3, <2>4, <2>6, <2>7 DEF InChangedLines
  <2> QED  BY <2>8, <2>9
<1> QED  BY <1>8, <1>9

\* /check: a gate for each rule that did not fail, and the comments of each
\* rule carry its number and its severity.
LEMMA CheckReturns ==
  ASSUME CallInv, tool = "check", \A r \in Rules : Sound(call[r], tool)
  PROVE  GatesRest(CheckResult)
<1> DEFINE OkRules == {r \in Rules : call[r].pc = "ok"}
           C == {c \in [file : Files, line : Nat, last : Nat, sev : {RuleSev[r] : r \in Rules},
                   rule : Rules] :
                   c.sev = RuleSev[c.rule] /\ Found(c.rule) # <<>>}
           of == [i \in DOMAIN Ran |-> RuleComments(Ran[i])]
<1>1. TypeOK /\ NRules \in Nat  BY ToolCallAssumption DEF CallInv
<1>2. Ran \in Seq(OkRules)
  <2> DEFINE s == [i \in Rules |-> i]
  <2>1. s \in Seq(Rules) /\ Len(s) = NRules /\ \A i \in Rules : s[i] = i  BY <1>1 DEF Rules
  <2>2. OkRules \in SUBSET (1 .. Len(s)) /\ {s[i] : i \in OkRules} \subseteq OkRules
    <3> HIDE DEF s
    <3> QED  BY <2>1 DEF Rules
  <2> HIDE DEF s, OkRules
  <2>3. At(s, OkRules) \in Seq({s[i] : i \in OkRules})  BY <2>1, <2>2, AtType
  <2>4. At(s, OkRules) \in Seq(OkRules)  BY <2>2, <2>3, WiderSeq
  <2> QED  BY <2>4 DEF Ran, s, OkRules
<1>3. \A i \in DOMAIN Ran : Ran[i] \in Rules /\ call[Ran[i]].pc = "ok"
  <2>1. \A i \in DOMAIN Ran : Ran[i] \in OkRules
    <3> HIDE DEF OkRules
    <3> QED  BY <1>2
  <2> QED  BY <2>1
<1>4. ASSUME NEW r \in Rules, call[r].pc = "ok" PROVE RuleComments(r) \in Seq(C)
  <2>1. Found(r) \in Seq(Finding)  BY <1>1, <1>4, FoundType
  <2>2. PICK n \in Nat : DOMAIN Found(r) = 1 .. n  BY <2>1
  <2>3. \A i \in 1 .. n : CommentOf(Found(r)[i], r, RuleSev[r]) \in C
    <3> SUFFICES ASSUME NEW i \in 1 .. n PROVE CommentOf(Found(r)[i], r, RuleSev[r]) \in C
      OBVIOUS
    <3>1. Found(r)[i] \in Finding /\ Found(r) # <<>>
      <4>1. DOMAIN <<>> = {}  OBVIOUS
      <4> QED  BY <2>1, <2>2, <4>1
    <3>2. /\ Found(r)[i].file \in Files
          /\ Found(r)[i].line \in Nat /\ Found(r)[i].last \in Nat
      BY <3>1 DEF Finding
    <3> QED  BY <1>4, <3>1, <3>2 DEF CommentOf
  <2> HIDE DEF C
  <2>4. RuleComments(r) = [i \in 1 .. n |-> CommentOf(Found(r)[i], r, RuleSev[r])]
    BY <2>2 DEF RuleComments
  <2> QED  BY <2>3, <2>4
<1>5. of \in Seq(Seq(C))
  <2> HIDE DEF C
  <2>1. PICK n \in Nat : DOMAIN Ran = 1 .. n  BY <1>2
  <2>2. \A i \in 1 .. n : RuleComments(Ran[i]) \in Seq(C)  BY <1>3, <1>4, <2>1
  <2> QED  BY <2>1, <2>2
<1>6. CheckResult.comments \in Seq(C)
  <2> HIDE DEF C, of
  <2>1. FlattenSeq(of) \in Seq(C)  BY <1>5, FlattenType
  <2> QED  BY <2>1 DEF CheckResult, of
<1>7. /\ DOMAIN CheckResult.gates = DOMAIN Ran
      /\ \A i \in DOMAIN Ran : CheckResult.gates[i] = RuleGate(Ran[i])
  BY DEF CheckResult
<1>8. \A k \in DOMAIN CheckResult.comments : CheckResult.comments[k] \in C
  <2> HIDE DEF C
  <2> QED  BY <1>6
<1> SUFFICES ASSUME NEW i \in DOMAIN Ran
    PROVE  LET r == RuleGate(Ran[i]).rule
               status == RuleGate(Ran[i]).status
           IN  /\ call[r].heard = "answer"
               /\ call[r].answer.content.kind = "json" /\ call[r].answer.finish = "stop"
               /\ status = "succeeded" =>
                    \A k \in DOMAIN CheckResult.comments :
                      CheckResult.comments[k].rule = r => CheckResult.comments[k].sev \notin {"block"}
               /\ status = "failed" => Found(r) # <<>> /\ RuleSev[r] \in {"block"}
  <2> HIDE DEF C, of
  <2> QED  BY <1>7 DEF GatesRest
<1>9. PICK r \in Rules : r = Ran[i] /\ call[r].pc = "ok"  BY <1>3
<1>10. RuleGate(r).rule = r /\ RuleGate(r).status =
         IF Found(r) # <<>> /\ RuleSev[r] = "block" THEN "failed" ELSE "succeeded"
  BY DEF RuleGate
<1>11. /\ call[r].heard = "answer"
       /\ call[r].answer.content.kind = "json" /\ call[r].answer.finish = "stop"
  BY <1>9 DEF Sound
<1>12. ASSUME RuleGate(r).status = "succeeded", NEW k \in DOMAIN CheckResult.comments,
              CheckResult.comments[k].rule = r
       PROVE  CheckResult.comments[k].sev # "block"
  <2>1. CheckResult.comments[k].sev = RuleSev[r] /\ Found(r) # <<>>  BY <1>8, <1>12
  <2> QED  BY <1>10, <1>12, <2>1
<1> HIDE DEF C, of
<1> QED  BY <1>9, <1>10, <1>11, <1>12

\* The order of a call: the diff is packed before anything is asked, and the
\* result is there once every conversation has ended.
Phases ==
  /\ \A r \in Rules : call[r].pc # "off" => r \in Active /\ left = {}
  /\ result.state = "pending" => result = NoResult
  /\ result.state # "pending" => left = {} /\ \A r \in Rules : call[r].pc \in {"off", "ok", "failed"}

AnswerInv ==
  /\ \A r \in Rules : Sound(call[r], tool)
  /\ Phases
  /\ GatesRestOnAnswers /\ CommentsStartOnAddedLines

LEMMA InitAnswers == ASSUME Init PROVE AnswerInv
<1>1. \A r \in Rules : call[r] = Idle  BY DEF Init
<1>2. \A r \in Rules : Sound(call[r], tool)  BY <1>1, IdleSound
<1>3. Phases  BY <1>1 DEF Init, Phases, Idle, NoResult
<1>4. result.gates = <<>> /\ result.comments = <<>> /\ DOMAIN <<>> = {}
  BY DEF Init, NoResult
<1> QED  BY <1>2, <1>3, <1>4 DEF AnswerInv, GatesRestOnAnswers, CommentsStartOnAddedLines

\* Once there is a result, only packing's variables could move, and they do not.
LEMMA ResultStays ==
  ASSUME CallInv, AnswerInv, result.state # "pending", [Next]_toolVars
  PROVE  UNCHANGED toolVars
<1>1. left = {} /\ \A r \in Rules : call[r].pc \in {"off", "ok", "failed"}
  BY DEF AnswerInv, Phases
<1>2. ~Pack  BY <1>1 DEF Pack, PackNext, PackFile, SkipForBudget, PackWhole, PackTruncated, Smallest
<1>3. \A r \in Rules : ~Converse(r)
  BY <1>1 DEF Converse, Send, Lost, Unavailable, Refused, Elapsed, Abandoned, Answered,
     CallsTools, RunCall, NextRound
<1> QED  BY <1>2, <1>3 DEF Next, Start, EndContext, Return

LEMMA NothingYet ==
  ASSUME result' = NoResult PROVE GatesRestOnAnswers' /\ CommentsStartOnAddedLines'
<1>1. result'.gates = <<>> /\ result'.comments = <<>> /\ DOMAIN <<>> = {}  BY DEF NoResult
<1> QED  BY <1>1 DEF GatesRestOnAnswers, CommentsStartOnAddedLines

LEMMA ReturnKeepsAnswers ==
  ASSUME CallInv, AnswerInv, Return PROVE AnswerInv'
<1>1. 1 \in Active /\ 1 \in Rules  BY ToolCallAssumption DEF Active, Rules
<1>2. TypeOK /\ tool \in {"review", "check", "deep_review"}
  BY ToolCallAssumption DEF CallInv, TypeOK
<1>3. call[1].pc \in {"ok", "failed"} /\ Sound(call[1], tool)
  BY <1>1 DEF Return, Ended, AnswerInv
<1>4. GatesRest(result') /\ Anchored(result')
  <2>1. CASE tool = "check"
    <3>1. result' = CheckResult  BY <2>1 DEF Return
    <3>2. GatesRest(CheckResult)  BY <2>1, CheckReturns DEF AnswerInv
    <3> QED  BY <2>1, <3>1, <3>2 DEF Anchored
  <2>2. CASE tool # "check" /\ call[1].pc = "failed"
    <3>1. result' = [NoResult EXCEPT !.state = "error"]  BY <2>2 DEF Return
    <3>2. result'.gates = <<>> /\ result'.comments = <<>> /\ DOMAIN <<>> = {}
      BY <3>1 DEF NoResult
    <3> QED  BY <3>2 DEF GatesRest, Anchored
  <2>3. CASE tool = "review" /\ call[1].pc = "ok"
    <3>1. result' = ReviewResult  BY <2>3 DEF Return
    <3> QED  BY <1>3, <2>3, <3>1, ReviewReturns
  <2>4. CASE tool = "deep_review" /\ call[1].pc = "ok"
    <3>1. result' = DeepResult  BY <2>4 DEF Return
    <3>2. result'.gates = <<>> /\ DOMAIN <<>> = {}  BY <3>1 DEF DeepResult
    <3> QED  BY <2>4, <3>2 DEF GatesRest, Anchored
  <2> QED  BY <1>2, <1>3, <2>1, <2>2, <2>3, <2>4
<1>5. UNCHANGED <<packVars, tool, cfg, ctx, call>>  BY DEF Return
<1>6. GatesRestOnAnswers'  BY <1>4, <1>5 DEF GatesRest, GatesRestOnAnswers, Found
<1>7. CommentsStartOnAddedLines'
  BY <1>4, <1>5 DEF Anchored, CommentsStartOnAddedLines, Shown, packVars
<1>8. \A r \in Rules : Sound(call[r], tool)'  BY <1>5 DEF AnswerInv, Sound
<1>9. Phases'
  <2>1. left = {}  BY <1>1, <1>3 DEF AnswerInv, Phases
  <2>2. \A r \in Rules : call[r].pc \in {"off", "ok", "failed"}
    <3>1. CASE tool = "check"  BY <3>1 DEF Return, Active, Ended
    <3>2. CASE tool # "check"
      <4> SUFFICES ASSUME NEW r \in Rules, r # 1 PROVE call[r].pc = "off"
        BY <1>3
      <4>1. r \notin Active  BY <3>2 DEF Active
      <4> QED  BY <4>1 DEF AnswerInv, Phases
    <3> QED  BY <3>1, <3>2
  <2>3. result'.state # "pending"
    BY <1>2, <1>3 DEF Return, CheckResult, ReviewResult, DeepResult, NoResult
  <2> QED  BY <1>5, <2>1, <2>2, <2>3 DEF AnswerInv, Phases, packVars, Active
<1> QED  BY <1>6, <1>7, <1>8, <1>9 DEF AnswerInv

\* Until it returns there is no result; the return is ReturnKeepsAnswers, and
\* after it nothing happens.
LEMMA StepKeepsAnswers ==
  ASSUME CallInv, AnswerInv, [Next]_toolVars PROVE AnswerInv'
<1>1. CASE result.state # "pending"
  <2>1. UNCHANGED toolVars  BY <1>1, ResultStays
  <2>2. UNCHANGED <<packVars, tool, cfg, ctx, call, result>>  BY <2>1 DEF toolVars, askVars
  <2>3. GatesRestOnAnswers'  BY <2>2, ZenonT(40) DEF AnswerInv, GatesRestOnAnswers, Found
  <2>4. CommentsStartOnAddedLines'  BY <2>2 DEF AnswerInv, CommentsStartOnAddedLines, Shown, packVars
  <2>5. Phases' /\ \A r \in Rules : Sound(call[r], tool)'
    BY <2>2 DEF AnswerInv, Phases, Sound, packVars, Active
  <2> QED  BY <2>3, <2>4, <2>5 DEF AnswerInv
<1>2. CASE result.state = "pending" /\ Return  BY <1>2, ReturnKeepsAnswers
<1>3. CASE result.state = "pending" /\ ~Return
  <2>1. result = NoResult  BY <1>3 DEF AnswerInv, Phases
  <2>2. CASE Pack \/ EndContext \/ UNCHANGED toolVars
    <3>1. UNCHANGED <<tool, cfg, call, result>>
      BY <2>2 DEF Pack, EndContext, askVars, toolVars
    <3>2. left' \subseteq left
      BY <2>2 DEF Pack, EndContext, toolVars, packVars, PackNext, PackFile, SkipForBudget,
         PackWhole, PackTruncated
    <3>3. GatesRestOnAnswers' /\ CommentsStartOnAddedLines'  BY <2>1, <3>1, NothingYet
    <3>4. Phases'  BY <2>1, <3>1, <3>2 DEF AnswerInv, Phases, Active, NoResult
    <3>5. \A r \in Rules : Sound(call[r], tool)'  BY <3>1 DEF AnswerInv, Sound
    <3> QED  BY <3>3, <3>4, <3>5 DEF AnswerInv
  <2>3. CASE Start
    <3>1. UNCHANGED <<packVars, tool, cfg, result>> /\ left = {}  BY <2>3 DEF Start
    <3>2. \A r \in Rules : call'[r] = IF r \in Active THEN [Idle EXCEPT !.pc = "send"] ELSE Idle
      BY <2>3 DEF Start
    <3>3. \A r \in Rules : Sound(call'[r], tool)  BY <3>2, IdleSound
    <3>4. GatesRestOnAnswers' /\ CommentsStartOnAddedLines'  BY <2>1, <3>1, NothingYet
    <3>5. Phases'  BY <2>1, <3>1, <3>2 DEF Phases, Active, NoResult, packVars, Idle
    <3>6. \A r \in Rules : Sound(call[r], tool)'  BY <3>1, <3>3 DEF Sound
    <3> QED  BY <3>4, <3>5, <3>6 DEF AnswerInv
  <2>4. CASE \E r \in Rules : Converse(r)
    <3>1. PICK r \in Rules : Converse(r)  BY <2>4
    <3>2. TypeOK  BY DEF CallInv
    <3>3. \E c : Set(r, c)
      BY <3>1 DEF Converse, Send, Lost, Unavailable, Refused, Elapsed, Abandoned, Answered,
         CallsTools, RunCall, NextRound, Again, Conclude
    <3>4. UNCHANGED <<packVars, tool, cfg, result>> /\ \A q \in Rules : q # r => call'[q] = call[q]
      BY <3>2, <3>3 DEF Set, TypeOK
    <3>5. call[r].pc # "off"
      BY <3>1 DEF Converse, Send, Lost, Unavailable, Refused, Elapsed, Abandoned, Answered,
         CallsTools, RunCall, NextRound
    <3>6. left = {} /\ r \in Active  BY <3>5 DEF AnswerInv, Phases
    <3>7. Sound(call'[r], tool)  BY <3>1, <3>2, ConverseSound DEF AnswerInv
    <3>8. \A q \in Rules : Sound(call[q], tool)'  BY <3>4, <3>7 DEF AnswerInv, Sound
    <3>9. GatesRestOnAnswers' /\ CommentsStartOnAddedLines'  BY <2>1, <3>4, NothingYet
    <3>10. Phases'
      BY <2>1, <3>4, <3>6 DEF AnswerInv, Phases, Active, NoResult, packVars
    <3> QED  BY <3>8, <3>9, <3>10 DEF AnswerInv
  <2> QED  BY <1>3, <2>2, <2>3, <2>4 DEF Next
<1> QED  BY <1>1, <1>2, <1>3

LEMMA AnswersHold == Spec => []AnswerInv
BY InvHolds, InitAnswers, StepKeepsAnswers, PTL DEF Spec

\* What leaves for the gateway in /deep_review is a dialogue, whatever the
\* model calls and in whatever round: each of its calls is followed by its
\* reply, in their order, before it speaks again (Loop.Run).
THEOREM RequestsAreDialogues == Spec => []DialogueAnswered
<1>1. ASSUME CallInv, AnswerInv PROVE DialogueAnswered
  <2> SUFFICES ASSUME NEW r \in Rules, call[r].pc \in {"send", "wire"}, NEW msgs,
                      msgs = call[r].msgs
      PROVE  /\ msgs # <<>> => msgs[1].role = "assistant"
             /\ \A i \in DOMAIN msgs : msgs[i].role = "assistant" =>
                  LET last == i + Len(msgs[i].calls)
                  IN  /\ last <= Len(msgs)
                      /\ \A k \in i + 1 .. last : msgs[k] = Reply(msgs[i].calls[k - i])
                      /\ last < Len(msgs) => msgs[last + 1].role = "assistant"
    BY DEF DialogueAnswered
  <2>1. msgs \in Seq(Message)  BY <1>1 DEF CallInv, TypeOK, Call
  <2>2. Dialogue(msgs, <<>>)  BY <1>1 DEF AnswerInv, Sound
  <2>3. msgs # <<>> => msgs[1].role = "assistant"  BY <2>2 DEF Dialogue
  <2>4. Len(msgs) \in Nat /\ DOMAIN msgs = 1 .. Len(msgs) /\ Len(<<>>) = 0  BY <2>1
  <2>5. ASSUME NEW i \in 1 .. Len(msgs), msgs[i].role = "assistant", NEW last,
               last = i + Len(msgs[i].calls)
        PROVE  /\ last <= Len(msgs)
               /\ \A k \in i + 1 .. last : msgs[k] = Reply(msgs[i].calls[k - i])
               /\ last < Len(msgs) => msgs[last + 1].role = "assistant"
    <3>1. last \in Nat
      <4>1. Len(msgs[i].calls) \in Nat /\ i \in Nat  BY <2>1, <2>4, MessageCalls
      <4> QED  BY <2>5, <4>1
    <3>2. /\ \A k \in i + 1 .. last : k <= Len(msgs) => msgs[k] = Reply(msgs[i].calls[k - i])
          /\ last < Len(msgs) => msgs[last + 1].role = "assistant"
          /\ last >= Len(msgs) => last = Len(msgs) + 0
      BY <2>2, <2>4, <2>5 DEF Dialogue
    <3>3. last <= Len(msgs)  BY <2>4, <3>1, <3>2
    <3>4. \A k \in i + 1 .. last : k <= Len(msgs)  BY <2>4, <3>1, <3>3
    <3> QED  BY <3>2, <3>3, <3>4
  <2> QED  BY <2>3, <2>4, <2>5
<1> QED  BY <1>1, InvHolds, AnswersHold, PTL

\* A check run of /review or /check is green only on a whole answer of the
\* model and without a blocking comment, and red only for a blocking finding;
\* a conversation that failed is never a gate (Tool.Run of both).
THEOREM GatesAreEarned == Spec => []GatesRestOnAnswers
<1>1. AnswerInv => GatesRestOnAnswers  BY DEF AnswerInv
<1> QED  BY <1>1, AnswersHold, PTL

\* A comment of /review that is not on a file as a whole starts on a line the
\* pull request adds and the model was shown, and both adapters anchor it at
\* such a line or at the end line of the answer: of every diff, packed in every
\* way, and every answer (convertFindings, changedLineRanges, and
\* PostInlineComments of both adapters).
THEOREM CommentsAreAnchored == Spec => []CommentsStartOnAddedLines
<1>1. AnswerInv => CommentsStartOnAddedLines  BY DEF AnswerInv
<1> QED  BY <1>1, AnswersHold, PTL
=============================================================================
