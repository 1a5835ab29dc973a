----------------------------- MODULE Recognizer -----------------------------
(***************************************************************************)
(* The life of the speech models (asr/parakeet_provider.py,                *)
(* asr/faster_whisper_provider.py, asr/lifecycle.py), from the load at     *)
(* startup to the idle unload, while the settings replace one recognizer   *)
(* by another (app.py, apply_config_change; pipeline.py, update_runtime)   *)
(* and the tray is told which one is ready (app.py, _bind_asr_lifecycle).  *)
(*                                                                         *)
(* A provider holds its lock while it loads and says "loaded"; it says     *)
(* "unloaded" after it has let go of the lock.  A transcription keeps a    *)
(* reference of its own to the model, so that an unload never frees it.    *)
(* Time is abstract: an armed idle timer may fire at any moment.           *)
(***************************************************************************)
EXTENDS Integers

CONSTANTS
    Clients,     \* threads that transcribe: the worker, a stream pass, a service
    Starter,     \* the thread that loads the model at startup
    Reloader,    \* the thread that applies a changed configuration
    Releaser,    \* the one that unloads a replaced provider
    Free,        \* nobody
    MaxProviders,\* bound: providers, the first and its replacements
    Kinds,       \* the kinds that these may be, each a function of the provider
    MaxUses,     \* bound: transcriptions
    LoadMayFail  \* whether a model may be missing or broken

Providers == 1..MaxProviders

ASSUME RecognizerAssumption ==
    /\ Kinds \subseteq [Providers -> {"parakeet", "whisper"}]
    /\ MaxProviders \in Nat \ {0} /\ MaxUses \in Nat /\ LoadMayFail \in BOOLEAN
    /\ {Starter, Reloader, Releaser} \cap (Clients \cup Providers) = {}
    /\ Clients \cap Providers = {}
    /\ Starter # Reloader /\ Starter # Releaser /\ Reloader # Releaser
    /\ Free \notin Clients \cup Providers \cup {Starter, Reloader, Releaser}

\* The timer thread of a provider goes by the provider's number.
Threads == Clients \cup Providers \cup {Starter, Reloader, Releaser}

VARIABLES
    kind,    \* kind[p]: "parakeet" or "whisper"
    loaded,  \* loaded[p]: _model is not None
    timer,   \* timer[p]: the idle timer is armed
    holder,  \* holder[p]: the thread that holds p's _lock, or Free
    infer,   \* infer[p]: the one that holds its _infer_lock (whisper only)
    onCpu,   \* onCpu[p]: degraded to the CPU after a CUDA failure
    used,    \* (history) used[p]: transcribed with since it was loaded
    lost,    \* (history) lost[p]: not loaded since its load for the CPU has failed
    wired,   \* asr_current: the provider whose events count
    serving, \* pipeline.asr, for the next utterance
    shown,   \* the provider that the tray was told is ready, or 0
    at,      \* at[t]: what thread t does
    then,    \* then[t]: and where it goes on after an event
    with,    \* with[t]: the provider it does it with
    uses     \* transcriptions so far

provVars == <<loaded, timer, holder, infer, onCpu, used, lost>>
appVars == <<wired, serving>>
asrVars == <<kind, provVars, appVars, shown, at, then, with, uses>>

AsrInit ==
    /\ kind \in Kinds
    /\ loaded = [p \in Providers |-> FALSE] /\ timer = loaded
    /\ onCpu = loaded /\ used = loaded /\ lost = loaded
    /\ holder = [p \in Providers |-> Free] /\ infer = holder
    /\ wired = 1 /\ serving = 1 /\ shown = 0 /\ uses = 0
    /\ at = [t \in Threads |-> IF t = Starter THEN "warming" ELSE "out"]
    /\ then = [t \in Threads |-> "out"] /\ with = [t \in Threads |-> 1]

Goes(t, place) == at' = [at EXCEPT ![t] = place]

-----------------------------------------------------------------------------
(* A client: one utterance, one stream pass, one request. *)

\* The runtime lock is held for the snapshot only.
Takes(c) ==
    /\ at[c] = "out" /\ uses < MaxUses /\ uses' = uses + 1
    /\ with' = [with EXCEPT ![c] = serving] /\ Goes(c, "asking")
    /\ UNCHANGED <<kind, provVars, appVars, shown, then>>

\* _asr_is_loaded: a look without the lock.
Asks(c) ==
    /\ at[c] = "asking"
    /\ Goes(c, IF loaded[with[c]] THEN "transcribing" ELSE "loading")
    /\ UNCHANGED <<kind, provVars, appVars, shown, then, with, uses>>

\* Where a thread goes on when load() returns.
After == [warming |-> "out", loading |-> "transcribing", transcribing |-> "decoding"]

\* The idle timer of the finally clause.  (Mutant: it is not armed there.)
RearmsNothing(p) == UNCHANGED timer
Rearms(p) == timer' = [timer EXCEPT ![p] = TRUE]

\* The lock is held until the listener has returned.  (Mutant: it is not.)
LocksNothing(t) == UNCHANGED holder
Locks(t) == holder' = [holder EXCEPT ![with[t]] = t]

\* load(), as such or first thing in transcribe(), which stops the idle timer.
\* A model that is there already is used.  A transcribe() that fails here arms
\* the timer of a parakeet all the same.
Loads(t) ==
    LET p == with[t]
        transcribes == at[t] = "transcribing"
    IN
    /\ at[t] \in DOMAIN After /\ holder[p] = Free
    /\ \/ /\ loaded[p] /\ Goes(t, After[at[t]])
          /\ timer' = [timer EXCEPT ![p] = @ /\ ~transcribes]
          /\ used' = [used EXCEPT ![p] = @ \/ transcribes]
          /\ UNCHANGED <<loaded, holder, then, lost>>
       \/ /\ ~loaded[p] /\ loaded' = [loaded EXCEPT ![p] = TRUE]
          /\ lost' = [lost EXCEPT ![p] = FALSE]
          /\ Locks(t) /\ Goes(t, "telling") /\ then' = [then EXCEPT ![t] = After[at[t]]]
          /\ timer' = [timer EXCEPT ![p] = @ /\ ~transcribes]
          /\ used' = [used EXCEPT ![p] = transcribes]
       \/ /\ ~loaded[p] /\ LoadMayFail /\ Goes(t, "out")
          /\ timer' = [timer EXCEPT ![p] = IF transcribes THEN kind[p] = "parakeet" ELSE @]
          /\ UNCHANGED <<loaded, holder, used, then, lost>>
    /\ UNCHANGED <<kind, infer, onCpu, appVars, shown, with, uses>>

\* The listener drops the event of a provider that is not wired, and publishes
\* another.
Checks(t, telling, publishing) ==
    /\ at[t] = telling /\ with[t] = wired /\ Goes(t, publishing)
    /\ UNCHANGED <<kind, provVars, appVars, shown, then, with, uses>>

\* It is told with the lock held, which is let go after that.  Only a parakeet
\* arms its timer here.
Told(t) ==
    /\ holder' = [holder EXCEPT ![with[t]] = Free]
    /\ timer' = [timer EXCEPT ![with[t]] = @ \/ kind[with[t]] = "parakeet"]
    /\ at' = [at EXCEPT ![t] = then[t]] /\ then' = [then EXCEPT ![t] = "out"]

TellsLoaded(t) ==
    \/ Checks(t, "telling", "publishing")
    \/ /\ \/ at[t] = "telling" /\ with[t] # wired /\ shown' = shown
          \/ at[t] = "publishing" /\ shown' = with[t]
       /\ Told(t)
       /\ UNCHANGED <<kind, loaded, infer, onCpu, used, lost, appVars, with, uses>>

\* A whisper decodes one at a time.  (Mutant: it does not.)
DecodesFreely(c) ==
    /\ at[c] = "decoding" /\ Goes(c, "inferring")
    /\ UNCHANGED <<kind, provVars, appVars, shown, then, with, uses>>
Decodes(c) ==
    LET p == with[c] IN
    /\ at[c] = "decoding" /\ Goes(c, "inferring")
    /\ kind[p] = "whisper" => infer[p] = Free
    /\ infer' = [infer EXCEPT ![p] = IF kind[p] = "whisper" THEN c ELSE @]
    /\ UNCHANGED <<kind, loaded, timer, holder, onCpu, used, lost, appVars, shown, then, with,
                   uses>>

\* A CUDA failure while it decodes: the model is loaded anew, for the CPU, and
\* the decoding starts over; or that load fails as well.
Degrades(c) ==
    LET p == with[c] IN
    /\ at[c] = "inferring" /\ kind[p] = "whisper" /\ ~onCpu[p] /\ holder[p] = Free
    /\ onCpu' = [onCpu EXCEPT ![p] = TRUE] /\ timer' = [timer EXCEPT ![p] = FALSE]
    /\ \/ /\ loaded' = [loaded EXCEPT ![p] = TRUE] /\ used' = [used EXCEPT ![p] = TRUE]
          /\ lost' = [lost EXCEPT ![p] = FALSE]
          /\ Locks(c) /\ Goes(c, "telling") /\ then' = [then EXCEPT ![c] = "inferring"]
       \/ /\ LoadMayFail /\ loaded' = [loaded EXCEPT ![p] = FALSE]
          /\ lost' = [lost EXCEPT ![p] = TRUE]
          /\ Goes(c, "failed") /\ UNCHANGED <<used, holder, then>>
    /\ UNCHANGED <<kind, infer, appVars, shown, with, uses>>

\* The end of transcribe(), whether it has succeeded or not.  A whisper takes
\* its lock to arm the timer.
Finishes(c) ==
    LET p == with[c] IN
    /\ at[c] \in {"inferring", "failed"} /\ Goes(c, "out")
    /\ infer' = [infer EXCEPT ![p] = IF @ = c THEN Free ELSE @]
    /\ kind[p] = "whisper" => holder[p] = Free
    /\ Rearms(p)
    /\ UNCHANGED <<kind, loaded, holder, onCpu, used, lost, appVars, shown, then, with, uses>>

-----------------------------------------------------------------------------
(* unload(): by the idle timer, by update_runtime, and once more in a thread *)
(* of its own when the provider was replaced.                                *)

Fires(p) ==
    /\ timer[p] /\ timer' = [timer EXCEPT ![p] = FALSE]
    /\ at[p] = "out" /\ Goes(p, "unloading") /\ with' = [with EXCEPT ![p] = p]
    /\ UNCHANGED <<kind, loaded, holder, infer, onCpu, used, lost, appVars, shown, then, uses>>

Rest(t) == IF t = Reloader THEN "detaching" ELSE "out"

\* Nothing is said of a model that was not there.
Unloads(t) ==
    LET p == with[t] IN
    /\ at[t] = "unloading" /\ holder[p] = Free
    /\ loaded' = [loaded EXCEPT ![p] = FALSE] /\ timer' = [timer EXCEPT ![p] = FALSE]
    /\ used' = [used EXCEPT ![p] = FALSE]
    /\ Goes(t, IF loaded[p] THEN "tellingGone" ELSE Rest(t))
    /\ UNCHANGED <<kind, holder, infer, onCpu, lost, appVars, shown, then, with, uses>>

TellsUnloaded(t) ==
    \/ Checks(t, "tellingGone", "publishingGone")
    \/ /\ \/ at[t] = "tellingGone" /\ with[t] # wired /\ shown' = shown
          \/ at[t] = "publishingGone" /\ shown' = 0
       /\ Goes(t, Rest(t))
       /\ UNCHANGED <<kind, provVars, appVars, then, with, uses>>

-----------------------------------------------------------------------------
(* A changed configuration that needs another model. *)

\* update_runtime gives the pipeline the new provider and unloads the old one.
Replaces ==
    /\ at[Reloader] = "out" /\ at[Releaser] = "out" /\ serving < MaxProviders
    /\ serving' = serving + 1
    /\ with' = [with EXCEPT ![Reloader] = serving] /\ Goes(Reloader, "unloading")
    /\ UNCHANGED <<kind, provVars, wired, shown, then, uses>>

\* Much later in the reload, events of the old provider are dropped, and it is
\* unloaded again.  Whatever raises in between ends the reload before that.
Detaches ==
    /\ at[Reloader] = "detaching"
    /\ \/ /\ wired' = serving
          /\ at' = [at EXCEPT ![Reloader] = "out", ![Releaser] = "unloading"]
          /\ with' = [with EXCEPT ![Releaser] = wired]
       \/ Goes(Reloader, "out") /\ UNCHANGED <<wired, with>>
    /\ UNCHANGED <<kind, provVars, serving, shown, then, uses>>

-----------------------------------------------------------------------------
ClientSteps(c) ==
    Asks(c) \/ Loads(c) \/ TellsLoaded(c) \/ Decodes(c) \/ Degrades(c) \/ Finishes(c)
UnloadSteps(t) == Unloads(t) \/ TellsUnloaded(t)

AsrNext ==
    \/ \E c \in Clients : Takes(c) \/ ClientSteps(c)
    \/ Loads(Starter) \/ TellsLoaded(Starter)
    \/ \E p \in Providers : Fires(p) \/ UnloadSteps(p)
    \/ UnloadSteps(Reloader) \/ UnloadSteps(Releaser)
    \/ Replaces \/ Detaches

\* Every thread goes on and every armed timer fires; nobody need dictate or
\* change the settings.
AsrFairness ==
    /\ \A c \in Clients : WF_asrVars(ClientSteps(c))
    /\ WF_asrVars(Loads(Starter) \/ TellsLoaded(Starter))
    /\ \A p \in Providers : WF_asrVars(Fires(p) \/ UnloadSteps(p))
    /\ WF_asrVars(UnloadSteps(Reloader) \/ Detaches) /\ WF_asrVars(UnloadSteps(Releaser))

AsrSpec == AsrInit /\ [][AsrNext]_asrVars /\ AsrFairness
-----------------------------------------------------------------------------
Places == {"out", "asking", "warming", "loading", "transcribing", "telling", "publishing",
           "decoding", "inferring", "failed", "unloading", "tellingGone", "publishingGone",
           "detaching"}

\* Every variable keeps its type.
AsrTypeOK ==
    /\ kind \in Kinds
    /\ loaded \in [Providers -> BOOLEAN] /\ timer \in [Providers -> BOOLEAN]
    /\ onCpu \in [Providers -> BOOLEAN] /\ used \in [Providers -> BOOLEAN]
    /\ lost \in [Providers -> BOOLEAN]
    /\ holder \in [Providers -> Clients \cup {Starter, Free}]
    /\ infer \in [Providers -> Clients \cup {Free}]
    /\ wired \in Providers /\ serving \in Providers /\ shown \in 0..MaxProviders
    /\ at \in [Threads -> Places]
    /\ then \in [Threads -> {"out", "transcribing", "decoding", "inferring"}]
    /\ with \in [Threads -> Providers]
    /\ uses \in 0..MaxUses

\* "CTranslate2 models are not safe for concurrent transcribe() calls", be it
\* the same model or, after a failure of the accelerator, its replacement.
OneDecode ==
    \A c, d \in Clients :
        c # d /\ at[c] = "inferring" /\ at[d] = "inferring" /\ with[c] = with[d]
            => kind[with[c]] = "parakeet"

\* A tray that says the wired model is ready is right, or is about to be told
\* that it is not: an "unloaded" is never overtaken by an older "loaded".  The
\* exception is a model that failed on the GPU while it decoded, whose load for
\* the CPU then failed as well, until it is loaded again: nobody tells of that.
ReadyIsLoaded ==
    shown = wired /\ ~lost[wired] =>
        \/ loaded[wired]
        \/ \E t \in Threads : at[t] \in {"tellingGone", "publishingGone"} /\ with[t] = wired

\* "Release the loaded model after this many seconds with no utterance", a
\* replaced one that an utterance in flight has loaded again included.  Only
\* the whisper that was loaded and never used stays.
UsedIsReleased == <>[](\A p \in Providers : loaded[p] => kind[p] = "whisper" /\ ~used[p])
=============================================================================
