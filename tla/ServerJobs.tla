----------------------------- MODULE ServerJobs -----------------------------
(***************************************************************************)
(* Server mode: cadoo-webhook turns events of the hosting service into     *)
(* tool jobs (cmd/cadoo-webhook/main.go), a queue carries them             *)
(* (internal/riverq on Postgres, internal/jobs in memory) and workers run  *)
(* them through the dispatcher (cmd/cadoo-worker/main.go).                 *)
(*                                                                         *)
(* River: any number of worker processes, each with MaxWorkers goroutines  *)
(* and its own dispatcher, hence its own summaryMu; one database.  A job   *)
(* that fails, or whose process dies, runs again until it has had its      *)
(* attempts.  River itself is external.  Memory: one process, one          *)
(* goroutine, first in first out, errors are swallowed and a crash loses   *)
(* the jobs; the store is a file that every change is written to.          *)
(*                                                                         *)
(* A process <<w, k, t>> is slot k of worker process w running tool t.     *)
(***************************************************************************)
EXTENDS Dispatcher

CONSTANTS QueueKind,     \* "river" or "memory"
          Workers,       \* worker processes
          Slots,         \* goroutines of each: River's MaxWorkers, or 1
          AutoRun,       \* config.Default().Auto, all the webhook looks at
          Legacy,        \* findings recorded before structural_key existed
          QueueCap,      \* bound: capacity of the memory queue's channel
          MaxCommands,   \* bound: slash commands and reopenings
          MaxHead,       \* bound: heads of the PR
          MaxAttempts,   \* bound: attempts River gives a job
          MaxCrashes     \* bound: worker crashes

VARIABLES owed,      \* events the hosting service still has to deliver
          pending,   \* jobs a webhook handler still has to enqueue
          queue,     \* jobs enqueued and not taken
          running,   \* the job each process runs
          arrivals,  \* number of jobs enqueued so far: their order
          commands, crashes

queueVars == <<owed, pending, queue, running, arrivals, commands, crashes>>
serverVars == <<vars, queueVars>>

Triggers == {"on_open", "on_sync", "always", "never"}

Event == [action : {"opened", "reopened", "synchronize"}, n : Nat]
         \cup [action : {"command"}, n : Nat, tool : Tools]
Job == [event : Event, tool : Tools, attempt : Nat, seq : Nat]
NoJob == [none |-> TRUE]

ASSUME ServerAssumption ==
  /\ QueueKind \in {"river", "memory"}
  /\ Slots \in Nat \ {0} /\ QueueCap \in Nat \ {0}
  /\ MaxCommands \in Nat /\ MaxHead \in Nat /\ MaxAttempts \in Nat \ {0} /\ MaxCrashes \in Nat
  /\ AutoRun \in [Tools -> Triggers]
  /\ Legacy \subseteq Comment
  /\ Legacy # {} => "review" \in Tools
  /\ Procs = Workers \X (1..Slots) \X Tools
  /\ \A p \in Procs : ToolOf[p] = p[3] /\ MuOf[p] = p[1] /\ StoreOf[p] = "posted"
  /\ Stores = {"posted"} /\ Mutexes = Workers
  /\ QueueKind = "memory" => Slots = 1 /\ \E w \in Workers : Workers = {w}
  /\ Backend = IF QueueKind = "river" THEN "db" ELSE "mem"

-----------------------------------------------------------------------------
(* The webhook.                                                            *)

TriggerMatches(trigger, action) ==
  \/ trigger = "on_open" /\ action \in {"opened", "reopened"}
  \/ trigger = "on_sync" /\ action = "synchronize"
  \/ trigger = "always" /\ action \in {"opened", "reopened", "synchronize"}

ToolsFor(e) ==
  IF e.action = "command" THEN {e.tool}
  ELSE {t \in Tools : TriggerMatches(AutoRun[t], e.action)}

\* A handler reads the event and works out the jobs.
Receive(e) ==
  /\ e \in owed
  /\ owed' = owed \ {e}
  /\ pending' = pending \cup {<<e, t>> : t \in ToolsFor(e)}
  /\ UNCHANGED <<vars, queue, running, arrivals, commands, crashes>>

\* It enqueues them one by one; a failed insert, or a channel that stays full
\* until the request ends, is logged, and the answer is 202 all the same.
Enqueue(e, t) ==
  /\ <<e, t>> \in pending
  /\ pending' = pending \ {<<e, t>>}
  /\ \/ /\ QueueKind = "memory" => Cardinality(queue) < QueueCap
        /\ queue' = queue \cup {[event |-> e, tool |-> t, attempt |-> 1, seq |-> arrivals]}
        /\ arrivals' = arrivals + 1
     \/ "enqueue" \in Faults /\ UNCHANGED <<queue, arrivals>>
  /\ UNCHANGED <<vars, owed, running, commands, crashes>>

-----------------------------------------------------------------------------
(* The workers.                                                            *)

SlotFree(p) == \A t \in Tools : pc[<<p[1], p[2], t>>] = "idle"

\* A free goroutine takes a job: the oldest one, or with River any.
Take(p) ==
  /\ SlotFree(p)
  /\ \E j \in queue :
       /\ j.tool = ToolOf[p]
       /\ QueueKind = "memory" => \A k \in queue : j.seq <= k.seq
       /\ queue' = queue \ {j}
       /\ running' = [running EXCEPT ![p] = j]
  /\ Goto(p, "fetch")
  /\ UNCHANGED <<prVars, store, mu, loc, owed, pending, arrivals, commands, crashes>>

\* Mutant: a failed job is retried without end.
AgainForEver(js) == js

\* What River does with jobs whose attempt came to nothing.
Again(js) ==
  IF QueueKind = "memory" THEN {}
  ELSE {[j EXCEPT !.attempt = @ + 1] : j \in {k \in js : k.attempt < MaxAttempts}}

\* Mutant: the goroutine forgets to let go of its job.
EndJobKeepsJob(p) ==
  /\ pc[p] \in Finished
  /\ Goto(p, "idle")
  /\ UNCHANGED <<prVars, store, mu, loc, queueVars>>

\* Run has returned.
EndJob(p) ==
  /\ pc[p] \in Finished
  /\ queue' = queue \cup (IF pc[p] = "done" THEN {} ELSE Again({running[p]}))
  /\ running' = [running EXCEPT ![p] = NoJob]
  /\ Goto(p, "idle")
  /\ UNCHANGED <<prVars, store, mu, loc, owed, pending, arrivals, commands, crashes>>

\* Mutant: the jobs of a process that died are not rescued.
CrashLosesJobs(w) ==
  /\ crashes < MaxCrashes
  /\ crashes' = crashes + 1
  /\ running' = [p \in Procs |-> IF p[1] = w THEN NoJob ELSE running[p]]
  /\ pc' = [p \in Procs |-> IF p[1] = w THEN "idle" ELSE pc[p]]
  /\ loc' = [p \in Procs |-> IF p[1] = w THEN EmptyLocal ELSE loc[p]]
  /\ mu' = [mu EXCEPT ![w] = Free]
  /\ UNCHANGED <<prVars, store, owed, pending, queue, arrivals, commands>>

\* A worker process dies and is restarted.  River's rescuer finds the jobs it
\* was running; in memory mode the webhook, the queue and the worker are one
\* process, and its jobs die with it.
Crash(w) ==
  /\ crashes < MaxCrashes
  /\ crashes' = crashes + 1
  /\ LET mine == {p \in Procs : p[1] = w /\ running[p] # NoJob}
     IN  IF QueueKind = "memory"
         THEN queue' = {} /\ pending' = {}
         ELSE queue' = queue \cup Again({running[p] : p \in mine}) /\ UNCHANGED pending
  /\ running' = [p \in Procs |-> IF p[1] = w THEN NoJob ELSE running[p]]
  /\ pc' = [p \in Procs |-> IF p[1] = w THEN "idle" ELSE pc[p]]
  /\ loc' = [p \in Procs |-> IF p[1] = w THEN EmptyLocal ELSE loc[p]]
  /\ mu' = [mu EXCEPT ![w] = Free]
  /\ UNCHANGED <<prVars, store, owed, arrivals, commands>>

ToolStep(p) == DispatchStep(p) /\ UNCHANGED queueVars

-----------------------------------------------------------------------------
(* The PR's author.                                                        *)

PushSync ==
  /\ Push(MaxHead)
  /\ owed' = owed \cup {[action |-> "synchronize", n |-> HeadSHA + 1]}
  /\ UNCHANGED <<procVars, pending, queue, running, arrivals, commands, crashes>>

SlashCommand(t) ==
  /\ commands < MaxCommands
  /\ commands' = commands + 1
  /\ owed' = owed \cup {[action |-> "command", n |-> commands, tool |-> t]}
  /\ UNCHANGED <<vars, pending, queue, running, arrivals, crashes>>

\* The PR is closed and opened again.
Reopen ==
  /\ commands < MaxCommands
  /\ commands' = commands + 1
  /\ owed' = owed \cup {[action |-> "reopened", n |-> commands]}
  /\ UNCHANGED <<vars, pending, queue, running, arrivals, crashes>>

-----------------------------------------------------------------------------

\* A row of posted_findings from before migration 0005, and its thread.
LegacyRec(c) ==
  [NewRec("review", NoId, c) EXCEPT !.sk = NoKey]

LegacyThread(c) ==
  [NewThread("review", c, TRUE) EXCEPT !.id = [batch |-> 0, comment |-> c]]

Init ==
  /\ \E v \in Versions : history = << [f \in Files |-> v] >>
  /\ notes = {} /\ prBody = [user |-> 0, cadoo |-> 0] /\ checks = {}
  /\ nextBatch = 1 /\ nextNote = 1
  /\ threads = {LegacyThread(c) : c \in Legacy}
  /\ mu = [m \in Mutexes |-> Free]
  /\ pc = [p \in Procs |-> "idle"]
  /\ loc = [p \in Procs |-> EmptyLocal]
  /\ store = [s \in Stores |-> [EmptyStore EXCEPT !.recs = {LegacyRec(c) : c \in Legacy}]]
  /\ owed = {[action |-> "opened", n |-> 1]}
  /\ pending = {} /\ queue = {} /\ arrivals = 0 /\ commands = 0 /\ crashes = 0
  /\ running = [p \in Procs |-> NoJob]

Next ==
  \/ \E e \in owed : Receive(e)
  \/ \E j \in pending : Enqueue(j[1], j[2])
  \/ \E p \in Procs : Take(p) \/ ToolStep(p) \/ EndJob(p)
  \/ \E w \in Workers : Crash(w)
  \/ PushSync \/ Reopen
  \/ \E t \in Tools : SlashCommand(t)

Spec == Init /\ [][Next]_serverVars

\* The hosting service delivers what it owes, the handlers and the workers
\* run, and no call blocks for ever.
FairSpec ==
  /\ Spec
  /\ WF_serverVars(\E e \in owed : Receive(e))
  /\ WF_serverVars(\E j \in pending : Enqueue(j[1], j[2]))
  /\ \A p \in Procs : /\ WF_serverVars(ToolStep(p))
                      /\ WF_serverVars(EndJob(p))
                      /\ SF_serverVars(Take(p))

-----------------------------------------------------------------------------

\* Every variable has its type, and a process works exactly while it has a
\* job.
TypeOK ==
  /\ DispatcherTypeOK
  /\ owed \subseteq Event
  /\ pending \subseteq Event \X Tools
  /\ queue \subseteq Job
  /\ running \in [Procs -> Job \cup {NoJob}]
  /\ arrivals \in Nat /\ commands \in Nat /\ crashes \in Nat
  /\ \A p \in Procs : running[p] = NoJob <=> pc[p] = "idle"

\* After auto-resolution, an open thread of the tool that could have been
\* closed is one whose finding this run reported again.
AbsentFindingClosed ==
  \A p \in Procs : pc[p] = "check" =>
    \A th \in threads :
      (th.tool = ToolOf[p] /\ th.anchored /\ th.state = "open")
        => \E c \in loc[p].res.inline : th.sk = StructuralKey(ToolOf[p], c)

\* A finding a run does not post, because the store knows it, is on the PR.
DroppedIsOnPR ==
  [][\A p \in Procs :
       (pc[p] = "filter" /\ pc'[p] \in {"post", "resolve"}) =>
         \A c \in loc[p].res.inline :
           \/ \E d \in loc'[p].delta : StructuralKey(ToolOf[p], d) = StructuralKey(ToolOf[p], c)
           \/ \E th \in threads : Represents(th, ToolOf[p], c)]_serverVars

\* Everything comes to rest: jobs are not retried for ever, no goroutine waits
\* for ever for a slot or for summaryMu.
Quiet == pending = {} /\ queue = {} /\ \A p \in Procs : pc[p] = "idle"
ComesToRest == <>[]Quiet

\* An opened PR is reported on in the end: a verdict, or the failure check.
\* A worker may die and jobs may fail in between.
OpenedPRIsReported == <>(checks # {})

=============================================================================
