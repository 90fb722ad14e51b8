------------------------------ MODULE ToolCall ------------------------------
(***************************************************************************)
(* One call of a tool that asks the model: the diff is packed, prompts go  *)
(* to the LLM gateway, the answers become a tools.Result.                  *)
(*                                                                         *)
(* /review (tools/review) has one conversation of one request; /check      *)
(* (tools/check) has one such conversation per rule, all at once;          *)
(* /deep_review (tools/deepreview) has one in which the model may call     *)
(* tools, round after round (internal/agent).  A request goes through      *)
(* litellm.Chat and DoJSON (llm/retry.go), which repeats it.               *)
(*                                                                         *)
(* The gateway and the model behind it are external and answer anything;   *)
(* the context of the job may end at any moment.                           *)
(***************************************************************************)
EXTENDS ContextBudget, ReviewVerdict

CONSTANTS Tools,        \* the tools started
          NRules,       \* rules of .cadoo.yaml
          RuleSev,      \* [Rules -> severity]
          Configs,      \* configurations of /review
          Outputs,      \* findings of an answer that holds a JSON object
          CallLists,    \* tool calls of an answer: sequences of names
          KnownTools,   \* those the loop offers
          MaxAttempts,  \* DoJSON
          MaxIter       \* rounds of the loop

Rules == 1 .. NRules

ASSUME ToolCallAssumption ==
  /\ Tools \subseteq {"review", "check", "deep_review"}
  /\ NRules \in Nat \ {0}
  /\ MaxAttempts \in Nat \ {0} /\ MaxIter \in Nat \ {0}
  /\ \A o \in Outputs : o \in Seq([file : Files, line : Nat, last : Nat, sev : STRING])
  /\ \A c \in CallLists : c \in Seq(STRING) \ {<<>>}
  /\ \A p \in Patches : p \in Seq(DiffLine)
  /\ \A c \in Configs : c.maxComments \in Nat \ {0}   \* what is not positive means 30

VARIABLES tool, cfg,
          ctx,       \* "live" or "done"
          call,      \* the conversations
          result     \* tools.Result, or an error

askVars == <<tool, cfg, ctx, call, result>>
toolVars == <<packVars, askVars>>

\* An answer: Content, FinishReason and ToolCalls.  Content is "" ("none"),
\* text without an object, an object cut at the token limit, or one that
\* parses.
Content(kind, findings) == [kind |-> kind, findings |-> findings]
Answers ==
  [content : {Content(k, <<>>) : k \in {"none", "text", "cut"}}
             \cup {Content("json", o) : o \in Outputs},
   finish : {"stop", "length"}, calls : {<<>>} \cup CallLists]

NoAnswer == [content |-> Content("none", <<>>), finish |-> "none", calls |-> <<>>]

\* sent counts requests that left the process; heard is the gateway's last
\* response of the round and answer the model's, if it was one; todo are the
\* calls to run; msgs is what the next request says after the prompt.
Idle == [pc |-> "off", attempt |-> 1, iter |-> 1, sent |-> 0, heard |-> "nothing",
         answer |-> NoAnswer, todo |-> <<>>, msgs |-> <<>>]

NoResult == [state |-> "pending", comments |-> <<>>, gates |-> <<>>]

Init ==
  /\ PackInit
  /\ tool \in Tools
  /\ cfg \in Configs
  /\ ctx = "live"
  /\ call = [r \in Rules |-> Idle]
  /\ result = NoResult

\* Conversations the tool has.
Active == IF tool = "check" THEN Rules ELSE Rules \cap {1}

-----------------------------------------------------------------------------
(* The diff, then the first request of each conversation.                  *)

Pack == PackNext /\ UNCHANGED askVars

Start ==
  /\ left = {}
  /\ result.state = "pending" /\ \A r \in Rules : call[r].pc = "off"
  /\ call' = [r \in Rules |-> IF r \in Active THEN [Idle EXCEPT !.pc = "send"] ELSE Idle]
  /\ UNCHANGED <<packVars, tool, cfg, ctx, result>>

\* River's or the pipeline's deadline, or a shutdown.
EndContext ==
  /\ ctx = "live" /\ result.state = "pending"
  /\ ctx' = "done"
  /\ UNCHANGED <<packVars, tool, cfg, call, result>>

-----------------------------------------------------------------------------
(* DoJSON and Chat.                                                        *)

Set(r, c) ==
  /\ call' = [call EXCEPT ![r] = c]
  /\ UNCHANGED <<packVars, tool, cfg, ctx, result>>

Send(r) ==
  /\ call[r].pc = "send" /\ ctx = "live"
  /\ Set(r, [call[r] EXCEPT !.pc = "wire", !.sent = @ + 1])

\* Mutant: one attempt too many.
AgainOnceMore(r, heard) ==
  Set(r, [call[r] EXCEPT !.heard = heard,
            !.pc = IF call[r].attempt <= MaxAttempts THEN "wait" ELSE "failed",
            !.attempt = IF @ <= MaxAttempts THEN @ + 1 ELSE @])

\* The next turn of DoJSON's loop: a backoff, or the last error.
Again(r, heard) ==
  Set(r, [call[r] EXCEPT !.heard = heard,
            !.pc = IF call[r].attempt < MaxAttempts THEN "wait" ELSE "failed",
            !.attempt = IF @ < MaxAttempts THEN @ + 1 ELSE @])

\* Do fails: no connection, the client's timeout, or the context's end, with
\* which a request is not sent at all.
Lost(r) ==
  /\ call[r].pc = "wire" \/ (call[r].pc = "send" /\ ctx = "done")
  /\ Again(r, "nothing")

\* 502, 503 or 504.
Unavailable(r) == call[r].pc = "wire" /\ Again(r, "unavailable")

\* Mutant: every error is tried again.
RefusedAgain(r) == call[r].pc = "wire" /\ Again(r, "refusal")

\* Another status from 300 on, a body that does not decode, or no choices.
Refused(r) ==
  /\ call[r].pc = "wire"
  /\ Set(r, [call[r] EXCEPT !.pc = "failed", !.heard = "refusal"])

\* The backoff is over.  The select may choose it when the context has ended.
Elapsed(r) ==
  /\ call[r].pc = "wait"
  /\ Set(r, [call[r] EXCEPT !.pc = "send"])

Abandoned(r) ==
  /\ call[r].pc = "wait" /\ ctx = "done"
  /\ Set(r, [call[r] EXCEPT !.pc = "failed"])

-----------------------------------------------------------------------------
(* Answers.                                                                *)

\* Mutant: the length is not looked at, nor is an answer that does not parse.
ParsesAnything(a) == a.content.kind # "none"

\* CallJSON; ExtractJSON alone for /deep_review.
Parses(a) ==
  /\ a.content.kind = "json"
  /\ tool # "deep_review" => a.finish # "length"

\* The conversation ends with what was parsed, or with an error.
Conclude(r, a) ==
  Set(r, [call[r] EXCEPT !.pc = IF Parses(a) THEN "ok" ELSE "failed",
                         !.heard = "answer",
                         !.answer = IF Parses(a) THEN [a EXCEPT !.calls = <<>>] ELSE @])

Conclusive(a) == tool # "deep_review" \/ a.calls = <<>>

Answered(r) ==
  /\ call[r].pc = "wire"
  /\ \E a \in Answers : Conclusive(a) /\ Conclude(r, a)

\* The model calls tools: they are echoed and run in turn.
CallsTools(r) ==
  /\ call[r].pc = "wire" /\ tool = "deep_review"
  /\ \E a \in Answers :
       /\ ~Conclusive(a)
       /\ Set(r, [call[r] EXCEPT !.pc = "tools", !.heard = "answer", !.todo = a.calls,
                    !.msgs = Append(@, [role |-> "assistant", calls |-> a.calls])])

Reply(name) == [role |-> "tool", calls |-> <<name>>]

\* Mutant: a call of a tool that is not offered is passed over.
RunCallKnownOnly(r) ==
  /\ call[r].pc = "tools" /\ call[r].todo # <<>>
  /\ Set(r, [call[r] EXCEPT !.todo = Tail(@),
               !.msgs = IF Head(call[r].todo) \in KnownTools
                        THEN Append(@, Reply(Head(call[r].todo))) ELSE @])

\* A tool's output, its error, or that there is no such tool: a message anyway.
RunCall(r) ==
  /\ call[r].pc = "tools" /\ call[r].todo # <<>>
  /\ Set(r, [call[r] EXCEPT !.todo = Tail(@),
                            !.msgs = Append(@, Reply(Head(call[r].todo)))])

\* Mutant: one round too many.
NextRoundOneMore(r) ==
  /\ call[r].pc = "tools" /\ call[r].todo = <<>>
  /\ Set(r, IF call[r].iter <= MaxIter
            THEN [call[r] EXCEPT !.pc = "send", !.attempt = 1, !.iter = @ + 1, !.heard = "nothing"]
            ELSE [call[r] EXCEPT !.pc = "failed"])

NextRound(r) ==
  /\ call[r].pc = "tools" /\ call[r].todo = <<>>
  /\ Set(r, IF call[r].iter < MaxIter
            THEN [call[r] EXCEPT !.pc = "send", !.attempt = 1, !.iter = @ + 1, !.heard = "nothing"]
            ELSE [call[r] EXCEPT !.pc = "failed"])

-----------------------------------------------------------------------------
(* tool.Run returns.                                                       *)

\* BuildChangedMap of the packed files.
Shown(f) == IF f \in packed THEN SubSeq(patch[f], 1, lines[f]) ELSE <<>>
ChangedMap == [f \in Files |-> changedLineRanges(Shown(f))]

\* The Output the answer was parsed into.
Found(r) == call[r].answer.content.findings

CommentOf(f, rule, sev) ==
  [file |-> f.file, line |-> f.line, last |-> f.last, sev |-> sev, rule |-> rule]

ReviewResult ==
  LET found == Found(1)
      inline == convertFindings(found, cfg, ChangedMap)
  IN  [state |-> "result", gates |-> <<[rule |-> 0, status |-> Gate(found, inline, cfg)]>>,
       comments |-> [i \in DOMAIN Posted(inline, cfg) |-> CommentOf(inline[i], 0, inline[i].sev)]]

RuleComments(r) == [i \in DOMAIN Found(r) |-> CommentOf(Found(r)[i], r, RuleSev[r])]

RuleGate(r) ==
  [rule |-> r, status |-> IF Found(r) # <<>> /\ RuleSev[r] = "block"
                          THEN "failed" ELSE "succeeded"]

\* The slots of rules that did not fail, in the rules' order.
Ran == At([i \in Rules |-> i], {r \in Rules : call[r].pc = "ok"})

CheckResult ==
  [state |-> "result", gates |-> [i \in DOMAIN Ran |-> RuleGate(Ran[i])],
   comments |-> FlattenSeq([i \in DOMAIN Ran |-> RuleComments(Ran[i])])]

DeepResult ==
  [state |-> "result", gates |-> <<>>,
   comments |-> [i \in DOMAIN Found(1) |-> CommentOf(Found(1)[i], 0, Found(1)[i].sev)]]

Ended(r) == call[r].pc \in {"ok", "failed"}

\* Mutant: a rule that fails never tells the group it is done.
ReturnForgetsErrors ==
  /\ result.state = "pending"
  /\ \A r \in Active : call[r].pc = "ok" \/ (tool # "check" /\ call[r].pc = "failed")
  /\ result' =
       CASE tool = "check" -> CheckResult
         [] tool # "check" /\ call[1].pc = "failed" -> [NoResult EXCEPT !.state = "error"]
         [] tool = "review" /\ call[1].pc = "ok" -> ReviewResult
         [] tool = "deep_review" /\ call[1].pc = "ok" -> DeepResult
  /\ UNCHANGED <<packVars, tool, cfg, ctx, call>>

Return ==
  /\ result.state = "pending"
  /\ \A r \in Active : Ended(r)
  /\ result' =
       CASE tool = "check" -> CheckResult
         [] tool # "check" /\ call[1].pc = "failed" -> [NoResult EXCEPT !.state = "error"]
         [] tool = "review" /\ call[1].pc = "ok" -> ReviewResult
         [] tool = "deep_review" /\ call[1].pc = "ok" -> DeepResult
  /\ UNCHANGED <<packVars, tool, cfg, ctx, call>>

Converse(r) ==
  \/ Send(r) \/ Lost(r) \/ Unavailable(r) \/ Refused(r) \/ Elapsed(r) \/ Abandoned(r)
  \/ Answered(r) \/ CallsTools(r) \/ RunCall(r) \/ NextRound(r)

Next == Pack \/ Start \/ EndContext \/ Return \/ \E r \in Rules : Converse(r)

Spec == Init /\ [][Next]_toolVars

\* Goroutines are scheduled, timers fire, and the client's timeout ends every
\* request; of the gateway and the model nothing is assumed.
Fairness ==
  /\ WF_toolVars(Pack) /\ WF_toolVars(Start) /\ WF_toolVars(Return)
  /\ \A r \in Rules : WF_toolVars(Converse(r))

FairSpec == Spec /\ Fairness

-----------------------------------------------------------------------------
(* Properties.                                                             *)

PCs == {"off", "send", "wire", "wait", "tools", "ok", "failed"}

Message == [role : {"assistant", "tool"}, calls : Seq(STRING)]

Call == [pc : PCs, attempt : 1 .. MaxAttempts, iter : 1 .. MaxIter, sent : Nat,
         heard : {"nothing", "unavailable", "refusal", "answer"},
         answer : Answers \cup {NoAnswer}, todo : Seq(STRING), msgs : Seq(Message)]

\* Types, with the limits of DoJSON's attempts and of the loop's rounds.
TypeOK ==
  /\ PackTypeOK
  /\ tool \in Tools /\ cfg \in Configs /\ ctx \in {"live", "done"}
  /\ call \in [Rules -> Call]
  /\ result.state \in {"pending", "error", "result"}

\* The gateway is asked a bounded number of times, whatever it and the model
\* answer.
RequestsBounded == \A r \in Rules : call[r].sent <= MaxAttempts * call[r].iter

\* A request is repeated only when nothing came back, or a status that passes:
\* never what the gateway refused, nor what the model has answered.
OnlyTransientRepeated ==
  [][\A r \in Rules : call'[r].sent > call[r].sent =>
       call[r].heard \in {"nothing", "unavailable"}]_toolVars

\* A green gate is never the fruit of a failure: behind it is a whole answer of
\* the model to this conversation, and no comment that should turn it red goes
\* with it; behind a red one is a finding of such an answer.  A conversation
\* that failed leaves no gate.
GatesRestOnAnswers ==
  \A i \in DOMAIN result.gates :
    LET gate == result.gates[i]
        r == IF tool = "check" THEN gate.rule ELSE 1
        blocks(sev) == sev \in IF tool = "check" THEN {"block"} ELSE cfg.blockOn
        sevs == IF tool = "check" THEN {RuleSev[r]} ELSE {Found(r)[k].sev : k \in DOMAIN Found(r)}
    IN  /\ call[r].heard = "answer"
        /\ call[r].answer.content.kind = "json" /\ call[r].answer.finish = "stop"
        /\ gate.status = "succeeded" =>
             \A k \in DOMAIN result.comments :
               result.comments[k].rule = gate.rule => ~blocks(result.comments[k].sev)
        /\ gate.status = "failed" => Found(r) # <<>> /\ \E s \in sevs : blocks(s)

\* A comment of /review is on a file as a whole, or starts on a line the diff
\* adds and the model was shown, and the services anchor it at such a line too,
\* or at the end line of the answer: that one nothing checks.
CommentsStartOnAddedLines ==
  tool = "review" =>
    \A i \in DOMAIN result.comments :
      LET c == result.comments[i]
          added == AddedLines(Shown(c.file)) \cap AddedLines(patch[c.file])
      IN  c.line # 0 =>
            /\ c.line \in added
            /\ {GithubLine(c), GitlabLine(c)} \subseteq added \cup {c.last}

\* What the loop sends is a dialogue: the model's calls are each followed by
\* one reply, in their order, before the model speaks again.
DialogueAnswered ==
  \A r \in Rules : call[r].pc \in {"send", "wire"} =>
    LET msgs == call[r].msgs
    IN  /\ msgs # <<>> => msgs[1].role = "assistant"
        /\ \A i \in DOMAIN msgs : msgs[i].role = "assistant" =>
             LET last == i + Len(msgs[i].calls)
             IN  /\ last <= Len(msgs)
                 /\ \A k \in i + 1 .. last : msgs[k] = Reply(msgs[i].calls[k - i])
                 /\ last < Len(msgs) => msgs[last + 1].role = "assistant"

\* Every call ends, whatever the gateway and the model do, and whether or not
\* the context ends.
CallEnds == <>(result.state # "pending")
=============================================================================
