------------------------------ MODULE Cleanup ------------------------------
(***************************************************************************)
(* CleanupPipeline (llm/cleanup.py): the optional pass of a language model *)
(* over a transcript.  The utterance worker and the requests of the        *)
(* service call clean(); a change of the configuration closes the pipeline *)
(* while they do.  A pool of two threads, made when it is first wanted,    *)
(* bounds each call of the provider in time: a call that does not answer   *)
(* keeps its thread.  A failure opens the circuit for a while, and a       *)
(* provider that was found unavailable is probed before it is used again.  *)
(*                                                                         *)
(* A provider that hangs is one that does not finish; what its text is and *)
(* whether it is accepted does not matter here.  The clock shows only in   *)
(* two flags: the circuit is open, and the retry of the probe is due.      *)
(***************************************************************************)
EXTENDS Integers, FiniteSets, SequencesExt

CONSTANTS
    Callers,   \* the threads that call clean()
    Probe,     \* what a task that checks the health belongs to
    Nobody,    \* no caller
    Workers,   \* threads of a pool
    MaxPools,  \* bound: pools ever made
    MaxTasks,  \* bound: tasks that exist at one time
    MaxOutages \* bound: times the provider goes down

ASSUME CleanupAssumption ==
    /\ {Workers, MaxPools, MaxTasks} \subseteq Nat \ {0} /\ MaxOutages \in Nat
    /\ Nobody \notin Callers \cup {Probe} /\ Probe \notin Callers

None == 0
Pools == 1..MaxPools
Tasks == 1..MaxTasks

VARIABLES
    preflight, \* health_preflight: the provider is local and is probed
    closed, executor,
    health,    \* _health_available: "unknown", "up" or "down"
    due,       \* health_retry_s have passed since _health_checked_at
    circuit,   \* the circuit is open
    probe,     \* _health_future, or None
    lock,      \* who holds _health_lock
    made, shut,\* pools made so far, and those shut down
    queue,     \* the tasks each pool has not started
    owner, status, home, \* of each task: who waits for it, how far it is, its pool
    at, pool, task, \* of each caller: where it is, the pool it has read, its task
    closing, doomed, \* how far close() is, and the pool it has read
    up, outages

healthVars == <<health, due, circuit>>
poolVars == <<executor, made, shut>>
probeVars == <<probe, lock>>
taskVars == <<queue, owner, status, home>>
callVars == <<at, pool, task>>
closeVars == <<closed, closing, doomed>>
world == <<preflight, up, outages>>
outside == <<closeVars, world>>
elsewhere == <<outside, poolVars, healthVars, probeVars, taskVars>>
vars == <<elsewhere, callVars>>

\* The first probe is asked for by the constructor.
Init ==
    /\ preflight \in BOOLEAN
    /\ closed = FALSE /\ closing = "no" /\ doomed = None
    /\ executor = (IF preflight THEN 1 ELSE None) /\ made = executor /\ shut = {}
    /\ health = "unknown" /\ due = TRUE /\ circuit = FALSE /\ lock = Nobody
    /\ probe = (IF preflight THEN 1 ELSE None)
    /\ owner = [t \in Tasks |-> IF t = probe THEN Probe ELSE Nobody]
    /\ status = [t \in Tasks |-> IF t = probe THEN "queued" ELSE "free"]
    /\ home = [t \in Tasks |-> IF t = probe THEN executor ELSE None]
    /\ queue = [p \in Pools |-> IF p = executor THEN <<probe>> ELSE <<>>]
    /\ at = [c \in Callers |-> "idle"]
    /\ pool = [c \in Callers |-> None] /\ task = [c \in Callers |-> None]
    /\ up \in BOOLEAN /\ outages = 0

Goes(c, from, to) == at[c] = from /\ at' = [at EXCEPT ![c] = to]

\* The call ends: it comes back, or raises.
Leaves(c) ==
    /\ at' = [at EXCEPT ![c] = "idle"]
    /\ pool' = [pool EXCEPT ![c] = None]
    /\ task' = [task EXCEPT ![c] = None]

Active(t) == status[t] \in {"queued", "running"}
Ended(t) == status[t] \in {"answered", "failed"}

\* The threads of a pool that are taken: one runs the callback of a probe, too.
Taken(p) ==
    {t \in Tasks : home[t] = p /\ (status[t] = "running" \/ (owner[t] = Probe /\ Ended(t)))}

\* submit() of a pool that is open; a slot that is free becomes the task.
Submits(p, who, t) ==
    /\ p # None /\ p \notin shut
    /\ status[t] = "free" /\ \A u \in 1..(t - 1) : status[u] # "free"
    /\ status' = [status EXCEPT ![t] = "queued"]
    /\ owner' = [owner EXCEPT ![t] = who]
    /\ home' = [home EXCEPT ![t] = p]
    /\ queue' = [queue EXCEPT ![p] = Append(@, t)]

Frees(t) ==
    /\ status' = [status EXCEPT ![t] = "free"]
    /\ owner' = [owner EXCEPT ![t] = Nobody]
    /\ home' = [home EXCEPT ![t] = None]

\* _set_health_available, which waits for the lock.
Sets(available) == lock = Nobody /\ health' = available /\ due' = FALSE

\* _trip_circuit.
Trips ==
    /\ circuit' = TRUE
    /\ IF preflight THEN Sets("down") ELSE UNCHANGED <<health, due>>

---------------------------------------------------------------------------
(* clean() *)

\* It is not closed yet.
Call(c) ==
    /\ ~closed
    /\ Goes(c, "idle", "gate")
    /\ UNCHANGED <<elsewhere, pool, task>>

\* Mutant: a provider found down is never probed again.
GateForGood(c) ==
    /\ at[c] = "gate"
    /\ \/ (circuit \/ (preflight /\ health = "down")) /\ Leaves(c)
       \/ /\ ~circuit /\ ~(preflight /\ health = "down")
          /\ Goes(c, "gate", "pool") /\ UNCHANGED <<pool, task>>
    /\ UNCHANGED elsewhere

\* The raw text if the circuit is open or the provider was found down; a probe when the retry
\* is due.
Gate(c) ==
    /\ at[c] = "gate"
    /\ \/ /\ circuit \/ (preflight /\ health = "down" /\ (~due \/ closed))
          /\ Leaves(c)
       \/ /\ ~circuit /\ preflight /\ health = "down" /\ due /\ ~closed
          /\ Goes(c, "gate", "probe") /\ UNCHANGED <<pool, task>>
       \/ /\ ~circuit /\ ~(preflight /\ health = "down")
          /\ Goes(c, "gate", "pool") /\ UNCHANGED <<pool, task>>
    /\ UNCHANGED elsewhere

\* _schedule_health_probe: one at a time, decided under the lock.
Schedule(c) ==
    /\ at[c] = "probe" /\ lock = Nobody
    /\ IF probe # None /\ Active(probe)
       THEN Leaves(c) /\ UNCHANGED lock
       ELSE Goes(c, "probe", "pool") /\ lock' = c /\ UNCHANGED <<pool, task>>
    /\ UNCHANGED <<outside, poolVars, healthVars, taskVars, probe>>

\* _pool(): look, make one if there is none, and read it again.
LookForPool(c) ==
    /\ Goes(c, "pool", IF executor = None THEN "make" ELSE "take")
    /\ UNCHANGED <<elsewhere, pool, task>>

MakePool(c) ==
    /\ Goes(c, "make", "take")
    /\ made < MaxPools /\ made' = made + 1 /\ executor' = made + 1
    /\ UNCHANGED <<outside, healthVars, probeVars, taskVars, shut, pool, task>>

TakePool(c) ==
    /\ Goes(c, "take", "submit")
    /\ pool' = [pool EXCEPT ![c] = executor]
    /\ UNCHANGED <<elsewhere, task>>

\* The caller that holds the lock submits the probe, another its own call.
Submit(c) ==
    /\ at[c] = "submit"
    /\ \E t \in Tasks :
          /\ Submits(pool[c], IF lock = c THEN Probe ELSE c, t)
          /\ IF lock = c
             THEN probe' = t /\ Leaves(c)
             ELSE /\ Goes(c, "submit", "wait")
                  /\ task' = [task EXCEPT ![c] = t]
                  /\ UNCHANGED <<probe, pool>>
    /\ lock' = IF lock = c THEN Nobody ELSE lock
    /\ UNCHANGED <<outside, poolVars, healthVars>>

\* close() has taken the pool away or shut it down: submit() raises, out of clean(), for it
\* stands before the try; the lock is let go on the way.
SubmitRaises(c) ==
    /\ at[c] = "submit" /\ pool[c] \in {None} \cup shut
    /\ Leaves(c)
    /\ lock' = IF lock = c THEN Nobody ELSE lock
    /\ UNCHANGED <<outside, poolVars, healthVars, taskVars, probe>>

\* future.result(): an answer, or an error (which closing the pool is, too).
Answer(c) ==
    /\ at[c] = "wait" /\ Ended(task[c])
    /\ IF status[task[c]] = "answered"
       THEN Sets("up") /\ UNCHANGED circuit
       ELSE Trips
    /\ Frees(task[c])
    /\ Leaves(c)
    /\ UNCHANGED <<outside, poolVars, probeVars, queue>>

\* Mutant: it waits for a call that has begun.
TimeoutUnlessBegun(c) ==
    /\ at[c] = "wait" /\ status[task[c]] = "queued"
    /\ queue' = [queue EXCEPT ![home[task[c]]] = Remove(@, task[c])]
    /\ Frees(task[c])
    /\ Trips
    /\ Leaves(c)
    /\ UNCHANGED <<outside, poolVars, probeVars>>

\* No answer in time: a task that has not begun is cancelled, the other one is left behind.
Timeout(c) ==
    /\ at[c] = "wait" /\ Active(task[c])
    /\ \/ /\ status[task[c]] = "queued"
          /\ queue' = [queue EXCEPT ![home[task[c]]] = Remove(@, task[c])]
          /\ Frees(task[c])
       \/ /\ status[task[c]] = "running"
          /\ owner' = [owner EXCEPT ![task[c]] = Nobody]
          /\ UNCHANGED <<queue, status, home>>
    /\ Trips
    /\ Leaves(c)
    /\ UNCHANGED <<outside, poolVars, probeVars>>

---------------------------------------------------------------------------
(* The threads of the pools, and the provider *)

Start(p) ==
    /\ queue[p] # <<>> /\ Cardinality(Taken(p)) < Workers
    /\ status' = [status EXCEPT ![Head(queue[p])] = "running"]
    /\ queue' = [queue EXCEPT ![p] = Tail(@)]
    /\ UNCHANGED <<outside, poolVars, healthVars, probeVars, callVars, owner, home>>

\* The provider answers or refuses; what nobody waits for is dropped.
Finish(t) ==
    /\ status[t] = "running"
    /\ IF owner[t] = Nobody
       THEN Frees(t)
       ELSE /\ status' = [status EXCEPT ![t] = IF up THEN "answered" ELSE "failed"]
            /\ UNCHANGED <<owner, home>>
    /\ UNCHANGED <<outside, poolVars, healthVars, probeVars, callVars, queue>>

\* _finish_health_probe, the callback of a probe that has ended.
FinishProbe(t) ==
    /\ owner[t] = Probe /\ Ended(t)
    /\ Sets(IF status[t] = "answered" THEN "up" ELSE "down")
    /\ Frees(t)
    /\ probe' = IF probe = t THEN None ELSE probe
    /\ UNCHANGED <<outside, poolVars, callVars, circuit, lock, queue>>

RetryIsDue ==
    /\ ~due /\ due' = TRUE
    /\ UNCHANGED <<outside, poolVars, probeVars, taskVars, callVars, health, circuit>>

CircuitCloses ==
    /\ circuit /\ circuit' = FALSE
    /\ UNCHANGED <<outside, poolVars, probeVars, taskVars, callVars, health, due>>

\* The provider goes down or comes up.
Changes ==
    /\ up' = ~up
    /\ up => outages < MaxOutages
    /\ outages' = IF up THEN outages + 1 ELSE outages
    /\ UNCHANGED <<closeVars, poolVars, healthVars, probeVars, taskVars, callVars, preflight>>

---------------------------------------------------------------------------
(* close() *)

Closes(from, to) == closing = from /\ closing' = to

CloseFlag ==
    /\ Closes("no", "future")
    /\ closed' = TRUE
    /\ UNCHANGED <<world, poolVars, healthVars, probeVars, taskVars, callVars, doomed>>

\* A probe that has not begun is cancelled, which calls it back.
CloseProbe ==
    /\ Closes("future", "read") /\ lock = Nobody
    /\ probe' = None
    /\ IF probe # None /\ status[probe] = "queued"
       THEN /\ Frees(probe) /\ Sets("down")
            /\ queue' = [queue EXCEPT ![home[probe]] = Remove(@, probe)]
       ELSE UNCHANGED <<taskVars, health, due>>
    /\ UNCHANGED <<world, poolVars, callVars, closed, doomed, circuit, lock>>

CloseRead ==
    /\ Closes("read", "clear")
    /\ doomed' = executor
    /\ UNCHANGED <<world, poolVars, healthVars, probeVars, taskVars, callVars, closed>>

CloseClear ==
    /\ Closes("clear", "shutdown")
    /\ executor' = None
    /\ UNCHANGED <<world, healthVars, probeVars, taskVars, callVars, closed, doomed, made,
                   shut>>

\* shutdown(cancel_futures=True).
Shutdown ==
    /\ Closes("shutdown", "done")
    /\ shut' = shut \cup ({doomed} \ {None})
    /\ status' = [t \in Tasks |-> IF status[t] = "queued" /\ home[t] = doomed THEN "failed"
                                                                             ELSE status[t]]
    /\ queue' = [p \in Pools |-> IF p = doomed THEN <<>> ELSE queue[p]]
    /\ UNCHANGED <<world, healthVars, probeVars, callVars, closed, doomed, executor, made,
                   owner, home>>

Proceeds(c) ==
    \/ Gate(c) \/ Schedule(c) \/ LookForPool(c) \/ MakePool(c) \/ TakePool(c) \/ Submit(c)
    \/ SubmitRaises(c) \/ Answer(c) \/ Timeout(c)
Close == CloseFlag \/ CloseProbe \/ CloseRead \/ CloseClear \/ Shutdown

Next ==
    \/ \E c \in Callers : Call(c) \/ Proceeds(c)
    \/ \E p \in Pools : Start(p)
    \/ \E t \in Tasks : Finish(t) \/ FinishProbe(t)
    \/ RetryIsDue \/ CircuitCloses \/ Changes
    \/ Close

\* A thread that runs goes on; one that waits for the lock, which is never held for long,
\* gets it.  Nobody need call, close or repair anything, and the provider may hang for ever.
Fairness ==
    /\ \A c \in Callers : SF_vars(Proceeds(c))
    /\ \A p \in Pools : WF_vars(Start(p))
    /\ \A t \in Tasks : SF_vars(FinishProbe(t))
Spec == Init /\ [][Next]_vars /\ Fairness

---------------------------------------------------------------------------
(* Properties *)

\* clean() ends, even if the provider never answers anybody and every thread of the pool
\* hangs in it ("a single hung call can't stall the next"): with a text, or, when close()
\* has just taken its pool, with the exception of the submission.
CleanReturns == \A c \in Callers : at[c] # "idle" ~> at[c] = "idle"

\* A request ends, for its client has a timeout, and time passes.
Answering == (\A t \in Tasks : []<>(status[t] # "running")) /\ []<>due /\ []<>~circuit

\* A local provider that was down and is up again is used again, if anybody asks for it
\* (clean and _schedule_health_probe).
Recovers ==
    (Answering /\ <>[](up /\ ~closed) /\ []<>(\E c \in Callers : at[c] = "gate"))
    => []<>(health # "down")
=============================================================================
