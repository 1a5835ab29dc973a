----------------------------- MODULE PushToTalk -----------------------------
(***************************************************************************)
(* The push-to-talk loop: the hotkey manager, the event bus, and the one   *)
(* thread of PipelineWorker that turns press, release and wake events into *)
(* recordings (pipeline.py, state.py, events.py).  The bus dispatcher      *)
(* only copies events, in order, into the worker's own queue, so the two   *)
(* queues are one here.                                                    *)
(*                                                                         *)
(* The worker handles one event at a time; only transcription ("busy") is  *)
(* long enough for the other threads to run during it.  The auto-stop      *)
(* timer checks the state machine and then publishes: it can be overtaken  *)
(* between the two, and cancelling it then is too late.                    *)
(***************************************************************************)
EXTENDS Hotkeys

CONSTANTS
    Dictation,   \* the mode a wake word starts
    WakeWord     \* whether the wake-word listener runs

ASSUME PushToTalkAssumption == Dictation \in Modes /\ WakeWord \in BOOLEAN

VARIABLES
    rec,     \* the mode being recorded, or NoMode   (ModeStateMachine)
    busy,    \* the state machine is PROCESSING
    timer,   \* the mode whose auto-stop timer is armed, or NoMode
    firing,  \* modes whose timer has passed its check, and not published
    watch    \* the wake-silence watcher runs

workerVars == <<rec, busy, timer, firing, watch>>
pttVars == <<vars, workerVars>>
managerVars == <<mode, chordVars, listenVars, lifeVars, healthVars, rebindVars,
                 outVars, stopper>>

PttInit ==
    /\ Init
    /\ rec = NoMode /\ busy = FALSE
    /\ timer = NoMode /\ firing = {} /\ watch = FALSE

-----------------------------------------------------------------------------
\* The worker between two events takes the oldest one.
Takes(kind, m) ==
    /\ ~busy /\ bus # <<>>
    /\ Head(bus) = [kind |-> kind, mode |-> m]
    /\ bus' = Tail(bus)

\* _handle_press once the state machine has accepted it: the timers of the
\* previous recording go, the microphone opens or fails to, and only an open
\* one is timed.  (Mutant: the timer is not armed.)
RecordUntimed(m, fromWake) ==
    rec' \in {m, NoMode} /\ timer' = NoMode /\ watch' = (fromWake /\ rec' = Dictation)
Record(m, fromWake) ==
    \/ rec' = m /\ timer' = m /\ watch' = (fromWake /\ m = Dictation)
    \/ rec' = NoMode /\ timer' = NoMode /\ watch' = FALSE

\* state.press raises InvalidTransition while another mode is recorded.
HandlePress(m) ==
    /\ Takes("pressed", m)
    /\ IF rec \in {NoMode, m} THEN Record(m, FALSE) ELSE UNCHANGED <<rec, timer, watch>>
    /\ UNCHANGED <<managerVars, busy, firing>>

\* _handle_wake_word: ignored while recording.
HandleWake ==
    /\ Takes("wake", Dictation)
    /\ IF rec = NoMode THEN Record(Dictation, TRUE) ELSE UNCHANGED <<rec, timer, watch>>
    /\ UNCHANGED <<managerVars, busy, firing>>

\* _handle_release: every timer is cancelled before the mode is looked at.
HandleRelease(m) ==
    /\ Takes("released", m)
    /\ timer' = NoMode /\ watch' = FALSE
    /\ IF rec = m THEN rec' = NoMode /\ busy' = TRUE ELSE UNCHANGED <<rec, busy>>
    /\ UNCHANGED <<managerVars, firing>>

\* The utterance is transcribed, or fails; finish_processing either way.
FinishProcessing ==
    /\ busy /\ busy' = FALSE
    /\ UNCHANGED <<vars, rec, timer, firing, watch>>

\* _fire of the auto-stop timer: the check, and then the publish.
\* (Mutant: it ends without publishing.)
TimerFiresSilently ==
    timer # NoMode /\ timer' = NoMode /\ UNCHANGED <<vars, rec, busy, firing, watch>>
TimerFires ==
    /\ timer # NoMode
    /\ timer' = NoMode
    /\ firing' = IF rec = timer THEN firing \cup {timer} ELSE firing
    /\ UNCHANGED <<vars, rec, busy, watch>>

TimerPublishes(m) ==
    /\ m \in firing /\ BusHasRoom(1)
    /\ firing' = firing \ {m}
    /\ bus' = Append(bus, Released(m))
    /\ UNCHANGED <<managerVars, rec, busy, timer, watch>>

\* The watcher heard trailing silence.  Cancelling joins it, so its check and
\* its publish are one step.
WatchEnds ==
    /\ watch /\ rec = Dictation /\ BusHasRoom(1)
    /\ watch' = FALSE
    /\ bus' = Append(bus, Released(Dictation))
    /\ UNCHANGED <<managerVars, rec, busy, timer, firing>>

\* OpenWakeWordService hears the phrase; its cooldown keeps hits apart.
WakeWordDetected ==
    /\ WakeWord /\ started /\ BusHasRoom(1)
    /\ \A i \in DOMAIN bus : bus[i] # Wake(Dictation)
    /\ bus' = Append(bus, Wake(Dictation))
    /\ UNCHANGED <<managerVars, workerVars>>

WorkerNext ==
    \/ \E m \in Modes : HandlePress(m) \/ HandleRelease(m)
    \/ HandleWake
    \/ FinishProcessing

TimerNext == TimerFires \/ (\E m \in Modes : TimerPublishes(m)) \/ WatchEnds

PttNext ==
    \/ ManagerNext /\ UNCHANGED workerVars
    \/ WorkerNext \/ TimerNext \/ WakeWordDetected

PttSpec == PttInit /\ [][PttNext]_pttVars
-----------------------------------------------------------------------------
\* Every variable of the manager and of the worker keeps its type.
PttTypeOK ==
    /\ TypeOK
    /\ rec \in Modes \cup {NoMode} /\ busy \in BOOLEAN
    /\ timer \in Modes \cup {NoMode} /\ firing \in SUBSET Modes
    /\ watch \in BOOLEAN

\* Nothing is on its way: no event is queued, held back by a thread between its
\* lock and its publish, or about to come from a timer.
Quiet ==
    /\ bus = <<>> /\ ~busy /\ dogOut = <<>> /\ firing = {}
    /\ \A g \in Gens : hookOut[g] = <<>>
    /\ \A p \in Binders : pc[p] \notin {"bind", "bindIdle", "record", "recordIdle",
                                       "join", "joinFailed"}
    /\ stopper.at # "stopping"

\* A shutdown abandons the chord: what is still recorded is then ended by the
\* pipeline's own stop(), which comes after it.
Serving == stopped => stopper.finalize

\* No listener was fenced with an event between its lock and its publish: the
\* late press of such a one may overtake the release that a rebind or the
\* watchdog made up for its chord, since nobody joins its thread.
Timely == ~late

\* Without a wake word the microphone is not left open: with no chord active
\* and nothing on its way nothing is recorded, whatever hooks died, were
\* rebound or timed out.
ReleaseEndsRecording ==
    Serving /\ Timely /\ Quiet /\ ~WakeWord /\ active = NoMode => rec = NoMode

\* "Ends on trailing silence or the same max hold as push-to-talk": a recording
\* that no active chord will end is still bounded by its timer.
RecordingIsBounded ==
    Serving /\ Quiet /\ rec # NoMode /\ active # rec => timer = rec

\* Threads run and timers expire; no user, wake word or hook failure has to
\* happen.  The publishers are strongly fair because only MaxBus, which the
\* SimpleQueue does not have, ever holds them back.
PttFairness ==
    /\ WF_pttVars(WorkerNext)
    /\ WF_pttVars(TimerFires)
    /\ \A m \in Modes : SF_pttVars(TimerPublishes(m))
    /\ SF_pttVars(WatchEnds)

PttFairSpec == PttSpec /\ PttFairness

\* No recording lasts for ever: even if no key is ever released, the auto-stop
\* timer of the press that started it ends it.
RecordingEnds == rec # NoMode ~> rec = NoMode
=============================================================================
