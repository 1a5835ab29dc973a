------------------------------ MODULE Capture ------------------------------
(***************************************************************************)
(* The microphone (audio/capture.py) and the threads of the pipeline that  *)
(* use it: the worker, which opens it for a hold and closes it at the      *)
(* release, and the watcher that leaves an electrically dead default input *)
(* for another one in the middle of a hold.  Every method of AudioCapture  *)
(* runs under _lifecycle_lock and is one step, but the failover lets go of *)
(* the lock while it lists the devices.  Cancelling a watcher joins it for *)
(* half a second only: it may outlive its hold.                            *)
(*                                                                         *)
(* A block of audio is the number of the hold it was recorded in, zero     *)
(* between two holds; a ring is the set of the blocks with a signal since  *)
(* its mark.                                                               *)
(***************************************************************************)
EXTENDS Integers, FiniteSets

CONSTANTS
    Default,     \* device None: the default input of the operating system
    Alternates,  \* the other inputs that failover_candidates may list
    Closed,      \* no stream
    Watchers,    \* the threads that _arm_dead_default_failover may start
    OpenMayFail, \* whether opening an input may raise
    SlowListing, \* whether the listing may outlast the join of the watcher
    MaxHolds     \* bound: holds

Inputs == Alternates \cup {Default}

ASSUME CaptureAssumption ==
    /\ Default \notin Alternates /\ Closed \notin Inputs
    /\ MaxHolds \in Nat
    /\ OpenMayFail \in BOOLEAN /\ SlowListing \in BOOLEAN

VARIABLES
    configured, \* _configured_device
    device,     \* the input the next open uses
    stream,     \* the input of the open stream, or Closed
    ring,       \* the blocks written to the ring since its mark
    callback,   \* the callback between its generation check and its write
    resolution, \* of the last failover: "none", "auto" or "dead"
    tried,      \* _failover_tried
    hold,       \* the number of the last hold
    at,         \* what the worker does with it
    reopens,    \* the worker's own failover found the stream open
    utterance,  \* what end_utterance returned for it
    stopped,    \* PipelineWorker.stop has invalidated the generation
    watcher,    \* the watcher threads
    late        \* a watcher has outlived its join, or a callback its stream

captureVars == <<configured, device, stream, ring, callback, resolution, tried>>
workerVars == <<hold, at, reopens, utterance, stopped, late>>
vars == <<captureVars, workerVars, watcher>>

NoCallback == [on |-> FALSE, bound |-> FALSE, block |-> 0]
Off == [at |-> "off", told |-> FALSE, open |-> FALSE]

Init ==
    /\ configured \in Inputs /\ device = configured
    /\ stream = Closed /\ ring = {} /\ callback = NoCallback
    /\ resolution = "none" /\ tried = {}
    /\ hold = 0 /\ at = "idle" /\ reopens = FALSE /\ utterance = {}
    /\ stopped = FALSE /\ watcher = [w \in Watchers |-> Off] /\ late = FALSE

-----------------------------------------------------------------------------
\* A hold lasts from its press until the worker has its audio; until then the
\* state machine is recording.
Held == at \in {"recording", "joining", "ending", "closing"}
Recording == Held /\ ~stopped

\* _start_locked: an open stream is left alone.  Each attempt binds a ring of
\* its own, so a failed one leaves an empty ring behind as well; a callback of
\* an earlier stream keeps the ring it was bound to.
\* (Mutant: all streams share one ring.)
StartOnSharedRing(d) ==
    IF stream # Closed THEN UNCHANGED <<stream, ring, callback>>
    ELSE stream' \in {d} \cup (IF OpenMayFail THEN {Closed} ELSE {})
         /\ UNCHANGED <<ring, callback>>
StartLocked(d) ==
    IF stream # Closed THEN UNCHANGED <<stream, ring, callback>>
    ELSE /\ stream' \in {d} \cup (IF OpenMayFail THEN {Closed} ELSE {})
         /\ ring' = {} /\ callback' = [callback EXCEPT !.bound = FALSE]

\* The backend calls back while the stream is open; a callback of an earlier
\* generation ends at its check, and one without a signal changes nothing.
CallbackChecks ==
    /\ ~callback.on /\ stream # Closed
    /\ callback' = [on |-> TRUE, bound |-> TRUE, block |-> IF Held THEN hold ELSE 0]
    /\ UNCHANGED <<configured, device, stream, ring, resolution, tried, workerVars, watcher>>

\* It writes to the ring of its own stream.  A backend that does not wait for
\* its callbacks may have closed that meanwhile.
CallbackWrites ==
    /\ callback.on /\ callback' = NoCallback
    /\ ring' = IF callback.bound THEN ring \cup {callback.block} ELSE ring
    /\ late' = (late \/ (callback.bound /\ stream = Closed))
    /\ UNCHANGED <<configured, device, stream, resolution, tried, watcher,
                   hold, at, reopens, utterance, stopped>>

\* set_device, from the settings or from a client: an open stream is closed,
\* and the next hold opens the new input.
SetDevice(d) ==
    /\ ~(d = configured /\ d = device)
    /\ configured' = d /\ device' = d /\ stream' = Closed
    /\ resolution' = "none" /\ tried' = {}
    /\ UNCHANGED <<ring, callback, workerVars, watcher>>

\* capture.stop from outside: another maximal length is configured, or speech
\* output starts while the microphone policy is "pause".  The ring stays.
Interrupt ==
    /\ stream # Closed /\ stream' = Closed
    /\ UNCHANGED <<configured, device, ring, callback, resolution, tried, workerVars, watcher>>

-----------------------------------------------------------------------------
\* maybe_failover_dead_default, up to the listing: an explicit input, one with
\* a signal and one that was chosen just now are kept; another is closed.
MayLeave == configured = Default /\ ring = {}

\* ... and after it.  The settings may have named an input meanwhile.
KeepsConfigured(open) ==
    /\ configured # Default
    /\ IF open THEN StartLocked(device) ELSE UNCHANGED <<stream, ring, callback>>
    /\ UNCHANGED <<device, resolution, tried>>

\* The first untried alternate that opens, after some that did not.  With no
\* stream to replace the first is only selected; a stream that is open by now
\* is left alone, and marked.
Chooses(open) ==
    /\ \E c \in Alternates \ tried, failed \in SUBSET (Alternates \ tried) :
           /\ c \notin failed /\ failed # {} => open /\ OpenMayFail /\ stream = Closed
           /\ tried' = tried \cup failed \cup {c} /\ device' = c
    /\ resolution' = "auto"
    /\ ring' = IF open THEN {} ELSE ring
    /\ IF open /\ stream = Closed
       THEN stream' = device' /\ callback' = [callback EXCEPT !.bound = FALSE]
       ELSE UNCHANGED <<stream, callback>>

\* (Mutant: the configured input is not looked at again after the listing.)
SelectsBlind(open) == Chooses(open)
Selects(open) == configured = Default /\ Chooses(open)

\* No alternate is listed, or none opens: back to the default.
GivesUp(open) ==
    /\ configured = Default
    /\ \E failed \in SUBSET (Alternates \ tried) :
           /\ failed # {} => open /\ OpenMayFail /\ stream = Closed
           /\ tried' = tried \cup failed
    /\ device' = Default /\ resolution' = "dead"
    /\ IF open THEN StartLocked(Default) ELSE UNCHANGED <<stream, ring, callback>>

FailoverEnds(open) == KeepsConfigured(open) \/ Selects(open) \/ GivesUp(open)

\* The watcher looks every 0.22 s, until it is told to end, nothing is recorded
\* any more, or an input was selected.
WatcherLooks(w) ==
    /\ watcher[w].at = "waiting" /\ ~watcher[w].told /\ Recording
    /\ watcher' = [watcher EXCEPT ![w].at = "looking"]
    /\ UNCHANGED <<captureVars, workerVars>>

WatcherReturns(w) ==
    /\ \/ watcher[w].at = "waiting" /\ (watcher[w].told \/ ~Recording)
       \/ watcher[w].at = "looking" /\ resolution = "auto"
    /\ watcher' = [watcher EXCEPT ![w] = Off]
    /\ UNCHANGED <<captureVars, workerVars>>

WatcherKeeps(w) ==
    /\ watcher[w].at = "looking" /\ ~MayLeave /\ resolution # "auto"
    /\ watcher' = [watcher EXCEPT ![w].at = "waiting"]
    /\ UNCHANGED <<captureVars, workerVars>>

WatcherLeaves(w) ==
    /\ watcher[w].at = "looking" /\ MayLeave
    /\ watcher' = [watcher EXCEPT ![w].at = "listing", ![w].open = stream # Closed]
    /\ stream' = Closed
    /\ UNCHANGED <<configured, device, ring, callback, resolution, tried, workerVars>>

WatcherSwitches(w) ==
    /\ watcher[w].at = "listing"
    /\ FailoverEnds(watcher[w].open)
    /\ watcher' = [watcher EXCEPT ![w] =
           IF resolution' = "auto" THEN Off ELSE [@ EXCEPT !.at = "waiting"]]
    /\ UNCHANGED <<configured, workerVars>>

-----------------------------------------------------------------------------
\* begin_utterance: the default input is tried afresh.  A stream that is open
\* already is marked.
Forgets ==
    IF configured = Default
    THEN device' = Default /\ resolution' = "none" /\ tried' = {}
    ELSE UNCHANGED <<device, resolution, tried>>
BeginUtterance ==
    /\ Forgets
    /\ IF stream # Closed THEN ring' = {} /\ UNCHANGED <<stream, callback>>
                          ELSE StartLocked(device')

\* _handle_press: a watcher once the microphone is open.  An error takes the
\* worker back to idle, with the microphone closed.
Press ==
    /\ at = "idle" /\ ~stopped /\ hold < MaxHolds
    /\ hold' = hold + 1 /\ utterance' = {}
    /\ BeginUtterance
    /\ IF stream' = Closed THEN at' = "idle" /\ UNCHANGED watcher
       ELSE /\ at' = "recording"
            /\ \E w \in Watchers :
                   /\ watcher[w].at = "off"
                   /\ watcher' = [watcher EXCEPT ![w] = [Off EXCEPT !.at = "waiting"]]
    /\ UNCHANGED <<configured, reopens, stopped, late>>

\* _cancel_dead_default_failover: the watcher is told to end ...
Told == [w \in Watchers |-> [watcher[w] EXCEPT !.told = watcher[w].at # "off"]]

Release ==
    /\ at = "recording" /\ ~stopped
    /\ at' = "joining" /\ watcher' = Told
    /\ UNCHANGED <<captureVars, hold, reopens, utterance, stopped, late>>

\* ... and joined, until it has ended or half a second has passed.
\* (Mutant: it is not joined.)
JoinNobody ==
    at = "joining" /\ at' = "ending"
        /\ UNCHANGED <<captureVars, hold, reopens, utterance, stopped, watcher, late>>
Join ==
    /\ at = "joining" /\ at' = "ending"
    /\ SlowListing \/ \A w \in Watchers : watcher[w].at = "off"
    /\ late' = (late \/ \E w \in Watchers : watcher[w].at # "off")
    /\ UNCHANGED <<captureVars, hold, reopens, utterance, stopped, watcher>>

\* end_utterance; an utterance without speech is followed by the worker's own
\* failover.  If stop() has come first the checkpoint raises instead.
EndUtterance ==
    /\ at = "ending"
    /\ IF stopped THEN at' = "closing" /\ UNCHANGED <<stream, utterance>>
       ELSE /\ stream' = Closed /\ utterance' = ring
            /\ at' \in {"idle"} \cup (IF ring = {} THEN {"silent"} ELSE {})
    /\ UNCHANGED <<configured, device, ring, callback, resolution, tried,
                   hold, reopens, stopped, watcher, late>>

Rest == IF stopped THEN "closing" ELSE "idle"

WorkerLeaves ==
    /\ at = "silent"
    /\ IF MayLeave THEN at' = "listing" /\ reopens' = (stream # Closed) /\ stream' = Closed
                   ELSE at' = Rest /\ UNCHANGED <<reopens, stream>>
    /\ UNCHANGED <<configured, device, ring, callback, resolution, tried,
                   hold, utterance, stopped, watcher, late>>

WorkerSwitches ==
    /\ at = "listing" /\ at' = Rest
    /\ FailoverEnds(reopens)
    /\ UNCHANGED <<configured, hold, reopens, utterance, stopped, watcher, late>>

\* stop() invalidates the generation and tells and joins the watcher; the
\* microphone is closed once the worker has ended.
Stop ==
    /\ ~stopped /\ stopped' = TRUE
    /\ at' = IF at \in {"idle", "recording"} THEN "joining" ELSE at
    /\ watcher' = Told
    /\ UNCHANGED <<captureVars, hold, reopens, utterance, late>>

StopCloses ==
    /\ at = "closing" /\ at' = "closed" /\ stream' = Closed
    /\ UNCHANGED <<configured, device, ring, callback, resolution, tried,
                   hold, reopens, utterance, stopped, watcher, late>>

Next ==
    \/ CallbackChecks \/ CallbackWrites
    \/ (\E d \in Inputs : SetDevice(d)) \/ Interrupt
    \/ \E w \in Watchers : WatcherLooks(w) \/ WatcherReturns(w) \/ WatcherKeeps(w)
                          \/ WatcherLeaves(w) \/ WatcherSwitches(w)
    \/ Press \/ Release \/ Join \/ EndUtterance \/ WorkerLeaves \/ WorkerSwitches
    \/ Stop \/ StopCloses

Spec == Init /\ [][Next]_vars
-----------------------------------------------------------------------------
\* Every variable keeps its type.
TypeOK ==
    /\ configured \in Inputs /\ device \in Inputs /\ stream \in Inputs \cup {Closed}
    /\ ring \in SUBSET (0..MaxHolds) /\ utterance \in SUBSET (0..MaxHolds)
    /\ callback \in [on : BOOLEAN, bound : BOOLEAN, block : 0..MaxHolds]
    /\ resolution \in {"none", "auto", "dead"} /\ tried \in SUBSET Alternates
    /\ hold \in 0..MaxHolds
    /\ at \in {"idle", "recording", "joining", "ending", "silent", "listing",
              "closing", "closed"}
    /\ reopens \in BOOLEAN /\ stopped \in BOOLEAN /\ late \in BOOLEAN
    /\ watcher \in [Watchers -> [at : {"off", "waiting", "looking", "listing"},
                                 told : BOOLEAN, open : BOOLEAN]]

\* What a hold delivers was not recorded in an earlier one, whichever stream a
\* late callback belongs to, and even if a watcher has outlived its hold and has
\* left the microphone open.
OwnAudio == utterance \subseteq {0, hold}

\* "Never replaces an explicit user-selected device": only the input that the
\* settings name is ever open, from the moment they name it.
ExplicitInput == configured # Default => stream \in {configured, Closed}

\* "The microphone closes between utterances", as long as no watcher outlives
\* its join.
ClosedBetween == ~late /\ stream # Closed => Held

\* No word that the ring has of the present hold is dropped before the hold
\* ends, neither by a failover nor by an input that is changed or interrupted.
WordsStay ==
    [][~late /\ Recording /\ hold' = hold /\ hold \in ring => hold \in ring']_vars
=============================================================================
