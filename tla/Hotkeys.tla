------------------------------- MODULE Hotkeys -------------------------------
(***************************************************************************)
(* HotkeyManager (src/src/dcent_voice/hotkeys.py): global push-to-talk     *)
(* chords.  The actors are the keyboard-hook threads (one per listener     *)
(* generation), the watchdog thread, the session-resume monitor and the    *)
(* application thread that stops the manager.  Every actor computes its    *)
(* events under _lock and publishes them on the bus only after releasing   *)
(* it, so events of two actors may be published in either order.           *)
(*                                                                         *)
(* Time is abstract: "aged" says the active chord is older than            *)
(* stuck_timeout_s; when a back-off or the prophylactic age has elapsed is *)
(* the watchdog's choice.  Joins wait for the joined thread (their         *)
(* one-second limits are not modelled: all a hook thread does outside the  *)
(* lock is one SimpleQueue.put per event).                                 *)
(***************************************************************************)
EXTENDS Naturals, Sequences, FiniteSets

CONSTANTS
    Keys,          \* normalised key names
    Modes,         \* the AppModes that have a chord
    NoMode,        \* Python's None
    Chord,         \* Chord[m]: the keys of m's chord; {} when it is off
    Order,         \* Order[m]: m's place in _chords, which breaks ties
    InitialModes,  \* config.mode may start as one of these
    ModeSwitch,    \* whether voice.mode.set is used
    MaxGen,        \* bound on the listener generations of one run
    MaxBus         \* bound on the events queued on the bus

\* max(..., key=len) over the tuple _chords: the longer chord, the first one on
\* a tie.
Beats(m, n) ==
    \/ Cardinality(Chord[m]) > Cardinality(Chord[n])
    \/ /\ Cardinality(Chord[m]) = Cardinality(Chord[n])
       /\ Order[m] <= Order[n]

ASSUME HotkeysAssumption ==
    /\ NoMode \notin Modes
    /\ Chord \in [Modes -> SUBSET Keys]
    /\ Order \in [Modes -> Nat]
    /\ \A some \in SUBSET Modes : some # {} =>
          \E m \in some : \A n \in some : Beats(m, n)
    /\ InitialModes \subseteq {"hold", "toggle"}
    /\ ModeSwitch \in BOOLEAN
    /\ MaxGen \in Nat \ {0}
    /\ MaxBus \in Nat \ {0}

Watchdog == "watchdog"
Session  == "session"
Starter  == "starter"
Binders  == {Watchdog, Session, Starter}
Gens == 1..MaxGen
MaxFails == 3      \* _DEAD_AFTER_FAILURES; more failures change nothing

Pressed(m)  == [kind |-> "pressed", mode |-> m]
Released(m) == [kind |-> "released", mode |-> m]
Wake(m)     == [kind |-> "wake", mode |-> m]
Event == [kind : {"pressed", "released", "wake"}, mode : Modes]

VARIABLES
    mode,            \* config.mode, replaced at run time by voice.mode.set
    pressed,         \* _pressed
    active,          \* _active
    aged,            \* time() - _active_since > stuck_timeout_s
    toggleRecording, \* _toggle_recording
    toggleChordDown, \* _toggle_chord_down
    gen,             \* _listener_generation
    bound,           \* generation of _listener, 0 for None
    live,            \* generations whose hook is installed
    stray,           \* generations whose start() raised after the hook was in:
                     \* fenced, and dropped without being stopped
    late,            \* whether a stray's thread was fenced before it had
                     \* published what it had computed (history)
    started,         \* _started
    stopped,         \* _stopped
    status,          \* _status
    fails,           \* _consecutive_failures, saturated at MaxFails
    lifecycle,       \* holder of _lifecycle_lock
    pc,              \* where start(), the watchdog and the session monitor are
    was,             \* force_rebind's was_active, per caller
    old,             \* force_rebind's old_listener, per caller
    hookOut,         \* events a hook thread has still to publish
    dogOut,          \* the release a watchdog tick has still to publish
    stopper,         \* stop(): what it took, and how far it got
    bus              \* events published and not yet taken

chordVars  == <<pressed, active, aged, toggleRecording, toggleChordDown>>
listenVars == <<gen, bound, live, stray, late>>
lifeVars   == <<started, stopped, lifecycle>>
healthVars == <<status, fails>>
rebindVars == <<pc, was, old>>
outVars    == <<hookOut, dogOut>>
vars == <<mode, pressed, active, aged, toggleRecording, toggleChordDown,
          gen, bound, live, stray, late, started, stopped, status, fails, lifecycle,
          pc, was, old, hookOut, dogOut, stopper, bus>>

Stopper == [at : {"running", "stopping", "stopped"}, finalize : BOOLEAN,
            was : Modes \cup {NoMode}, old : 0..MaxGen]

Init ==
    /\ mode \in InitialModes
    /\ pressed = {} /\ active = NoMode /\ aged = FALSE
    /\ toggleRecording = FALSE /\ toggleChordDown = FALSE
    /\ gen = 0 /\ bound = 0 /\ live = {} /\ stray = {} /\ late = FALSE
    /\ started = FALSE /\ stopped = FALSE
    /\ status = "stopped" /\ fails = 0
    /\ lifecycle = "free"
    /\ pc = [p \in Binders |-> "idle"]
    /\ was = [p \in Binders |-> NoMode]
    /\ old = [p \in Binders |-> 0]
    /\ hookOut = [g \in Gens |-> <<>>]
    /\ dogOut = <<>>
    /\ stopper = [at |-> "running", finalize |-> FALSE, was |-> NoMode, old |-> 0]
    /\ bus = <<>>

-----------------------------------------------------------------------------
\* _best_match: of the chords that are down, the one that beats the others.
BestMatch(down) ==
    LET matches == {m \in Modes : Chord[m] # {} /\ Chord[m] \subseteq down}
    IN  IF matches = {} THEN NoMode
        ELSE CHOOSE m \in matches : \A n \in matches : Beats(m, n)

\* _accept_callback_unlocked: the generation fence.
Accepts(g) == started /\ ~stopped /\ g = gen

\* What a hook thread between two callbacks may deliver.
CallbackReady(g) == g \in live /\ hookOut[g] = <<>> /\ Accepts(g)

BusHasRoom(n) == Len(bus) + n <= MaxBus

\* The status of a bind that failed.
FailStatus(n) == IF n >= MaxFails THEN "dead" ELSE "recovering"

Saturate(n) == IF n > MaxFails THEN MaxFails ELSE n

\* _stop_listener: the hooks that are left.  (Mutant: the hook stays.)
UnhookForgotten(g) == live
Unhook(g) == live \ {g}

\* _join_listener has returned: the thread has published what it computed.
\* (Mutant: nobody waits.)
JoinedTooSoon(g) == TRUE
Joined(g) == g \in Gens => hookOut[g] = <<>>

\* The release of a chord that was dropped, if one was active.  (Mutant: the
\* chord is forgotten.)
PublishNoRelease(m) == bus' = bus
PublishRelease(m) ==
    IF m = NoMode THEN bus' = bus
    ELSE BusHasRoom(1) /\ bus' = Append(bus, Released(m))

-----------------------------------------------------------------------------
(* _on_press, first in hold mode and then in toggle mode. *)

PressHold(g, k) ==
    /\ CallbackReady(g) /\ mode = "hold"
    /\ pressed' = pressed \cup {k}
    /\ LET next == BestMatch(pressed')
       IN  IF next # NoMode /\ next # active
           THEN /\ active' = next /\ aged' = FALSE
                /\ hookOut' = [hookOut EXCEPT ![g] =
                     (IF active = NoMode THEN <<>> ELSE <<Released(active)>>)
                        \o <<Pressed(next)>>]
           ELSE UNCHANGED <<active, aged, hookOut>>
    /\ UNCHANGED <<mode, toggleRecording, toggleChordDown, listenVars, lifeVars,
                   healthVars, rebindVars, dogOut, stopper, bus>>

PressToggle(g, k) ==
    /\ CallbackReady(g) /\ mode = "toggle"
    /\ pressed' = pressed \cup {k}
    /\ LET next == BestMatch(pressed')
           stopping == IF active = NoMode THEN next ELSE active
       IN  IF next # NoMode /\ ~toggleChordDown
           THEN /\ toggleChordDown' = TRUE
                /\ toggleRecording' = ~toggleRecording
                /\ active' = IF toggleRecording THEN NoMode ELSE next
                /\ aged' = FALSE
                /\ hookOut' = [hookOut EXCEPT ![g] =
                     <<IF toggleRecording THEN Released(stopping) ELSE Pressed(next)>>]
           ELSE UNCHANGED <<active, aged, toggleRecording, toggleChordDown, hookOut>>
    /\ UNCHANGED <<mode, listenVars, lifeVars, healthVars, rebindVars, dogOut,
                   stopper, bus>>

(* _on_release: the end of a held chord; in toggle mode only the edge latch. *)

ReleaseHold(g, k) ==
    /\ CallbackReady(g) /\ mode = "hold"
    /\ pressed' = pressed \ {k}
    /\ IF active # NoMode /\ ~(Chord[active] \subseteq pressed')
       THEN /\ active' = NoMode /\ aged' = FALSE
            /\ hookOut' = [hookOut EXCEPT ![g] = <<Released(active)>>]
       ELSE UNCHANGED <<active, aged, hookOut>>
    /\ UNCHANGED <<mode, toggleRecording, toggleChordDown, listenVars, lifeVars,
                   healthVars, rebindVars, dogOut, stopper, bus>>

ReleaseToggle(g, k) ==
    /\ CallbackReady(g) /\ mode = "toggle"
    /\ pressed' = pressed \ {k}
    /\ toggleChordDown' = (toggleChordDown /\ BestMatch(pressed') # NoMode)
    /\ UNCHANGED <<mode, active, aged, toggleRecording, listenVars, lifeVars,
                   healthVars, rebindVars, outVars, stopper, bus>>

\* The publish loop at the end of a callback, one event at a time.
HookPublish(g) ==
    /\ hookOut[g] # <<>> /\ BusHasRoom(1)
    /\ bus' = Append(bus, Head(hookOut[g]))
    /\ hookOut' = [hookOut EXCEPT ![g] = Tail(@)]
    /\ UNCHANGED <<mode, chordVars, listenVars, lifeVars, healthVars, rebindVars,
                   dogOut, stopper>>

\* The active chord outlives stuck_timeout_s.  Seconds pass: no callback is
\* still between its lock and its publish.
ChordAges ==
    /\ active # NoMode /\ ~aged
    /\ \A g \in Gens : hookOut[g] = <<>>
    /\ aged' = TRUE
    /\ UNCHANGED <<mode, pressed, active, toggleRecording, toggleChordDown,
                   listenVars, lifeVars, healthVars, rebindVars, outVars, stopper, bus>>

\* _apply_activation_mode: voice.mode.set swaps config under a running manager.
SetActivationMode(m) ==
    /\ ModeSwitch /\ mode # m /\ started
    /\ mode' = m
    /\ UNCHANGED <<chordVars, listenVars, lifeVars, healthVars, rebindVars, outVars,
                   stopper, bus>>

\* The operating system ends a hook thread (sleep, lock, RDP).
ListenerDies(g) ==
    /\ g \in live /\ hookOut[g] = <<>>
    /\ live' = live \ {g}
    /\ UNCHANGED <<mode, chordVars, gen, bound, stray, late, lifeVars, healthVars,
                   rebindVars, outVars, stopper, bus>>

-----------------------------------------------------------------------------
(* _bind_listener, run by start() and by force_rebind under the lifecycle   *)
(* lock.  It succeeds, or the listener cannot be made, or its start() raises *)
(* when the hook may already be in.                                          *)

\* start(): it binds with nothing to detach and no chord to release.
Start ==
    /\ ~started /\ ~stopped /\ lifecycle = "free" /\ gen + 2 <= MaxGen
    /\ started' = TRUE /\ lifecycle' = Starter
    /\ pc' = [pc EXCEPT ![Starter] = "bind"]
    /\ UNCHANGED <<mode, chordVars, listenVars, stopped, healthVars, was, old, outVars,
                   stopper, bus>>

\* The old hook is stopped and the new one is in: it may call back at once.
BindListener(p) ==
    /\ pc[p] \in {"bind", "bindIdle"}
    /\ gen' = gen + 1
    /\ live' = Unhook(old[p]) \cup {gen'}
    /\ pc' = [pc EXCEPT ![p] = IF @ = "bind" THEN "record" ELSE "recordIdle"]
    /\ UNCHANGED <<mode, chordVars, bound, stray, late, lifeVars, healthVars, was, old,
                   outVars, stopper, bus>>

BindRecords(p) ==
    /\ pc[p] \in {"record", "recordIdle"}
    /\ bound' = gen /\ status' = "ok" /\ fails' = 0
    /\ lifecycle' = "free"
    /\ pc' = [pc EXCEPT ![p] = IF p = Starter THEN "idle" ELSE "join"]
    /\ UNCHANGED <<mode, chordVars, gen, live, stray, late, started, stopped, was, old,
                   outVars, stopper, bus>>

\* The except clause, after the fence: no listener, one more failure.
BindFailed(p) ==
    /\ bound' = 0
    /\ fails' = Saturate(fails + 1) /\ status' = FailStatus(fails + 1)
    /\ lifecycle' = "free"
    /\ pc' = [pc EXCEPT ![p] = IF p = Starter THEN "idle"
                               ELSE IF @ \in {"bind", "record"} THEN "joinFailed"
                               ELSE "join"]
    /\ UNCHANGED <<mode, chordVars, started, stopped, was, old, outVars, stopper, bus>>

\* No hook was installed.
BindFails(p) ==
    /\ pc[p] \in {"bind", "bindIdle"}
    /\ gen' = gen + 2 /\ live' = Unhook(old[p])
    /\ BindFailed(p)
    /\ UNCHANGED <<stray, late>>

\* "Fence a listener that partially started before raising": its callbacks are
\* refused from here on, but it is forgotten and not stopped.
BindStartRaises(p) ==
    /\ pc[p] \in {"record", "recordIdle"}
    /\ gen' = gen + 1
    /\ stray' = stray \cup {gen}
    /\ late' = (late \/ hookOut[gen] # <<>>)
    /\ BindFailed(p)
    /\ UNCHANGED live

(* force_rebind(skip_if_active), called at "rebind" or, skipping, at "rebindIdle". *)

\* (Mutant: stop() is looked for before the lock only, as the code once did.)
RebindRefusedEarly(p) == pc[p] = "rebindIdle" /\ (active # NoMode \/ pressed # {})
RebindRefused(p) ==
    \/ stopped \/ ~started
    \/ pc[p] = "rebindIdle" /\ (active # NoMode \/ pressed # {})

\* The watchdog's tail after a force_rebind that returned False.
GivesUp(p, ok) ==
    IF p = Watchdog /\ ~ok /\ fails >= MaxFails THEN "dead" ELSE status

\* Refused: it returns False at once.
RebindReturns(p) ==
    /\ pc[p] \in {"rebind", "rebindIdle"} /\ lifecycle = "free"
    /\ RebindRefused(p)
    /\ pc' = [pc EXCEPT ![p] = "idle"]
    /\ status' = GivesUp(p, pc[p] = "rebindIdle")
    /\ UNCHANGED <<mode, chordVars, listenVars, lifeVars, fails, was, old, outVars,
                   stopper, bus>>

\* Clear the chord, detach and fence the listener, keep the lifecycle lock.
RebindDetach(p) ==
    /\ pc[p] \in {"rebind", "rebindIdle"} /\ lifecycle = "free"
    /\ ~RebindRefused(p)
    /\ gen + 3 <= MaxGen
    /\ lifecycle' = p
    /\ was' = [was EXCEPT ![p] = active]
    /\ old' = [old EXCEPT ![p] = bound]
    /\ active' = NoMode /\ pressed' = {} /\ aged' = FALSE
    /\ bound' = 0 /\ gen' = gen + 1
    /\ pc' = [pc EXCEPT ![p] = IF @ = "rebind" THEN "bind" ELSE "bindIdle"]
    /\ UNCHANGED <<mode, toggleRecording, toggleChordDown, live, stray, late, started,
                   stopped, healthVars, outVars, stopper, bus>>

\* Join the old hook thread, then publish the release of the chord it left.
RebindRelease(p) ==
    /\ pc[p] \in {"join", "joinFailed"} /\ Joined(old[p])
    /\ PublishRelease(was[p])
    /\ pc' = [pc EXCEPT ![p] = "idle"]
    /\ was' = [was EXCEPT ![p] = NoMode]
    /\ old' = [old EXCEPT ![p] = 0]
    /\ status' = GivesUp(p, pc[p] = "join")
    /\ UNCHANGED <<mode, chordVars, listenVars, lifeVars, fails, outVars, stopper>>

\* SessionResumeMonitor found a resume: force_rebind(reason).  (One found during
\* start() waits for its lock.)
SessionResume ==
    /\ pc[Session] = "idle" /\ started /\ lifecycle # Starter
    /\ pc' = [pc EXCEPT ![Session] = "rebind"]
    /\ UNCHANGED <<mode, chordVars, listenVars, lifeVars, healthVars, was, old, outVars,
                   stopper, bus>>

-----------------------------------------------------------------------------
(* _watchdog_tick. *)

\* Under _lock: an over-age chord becomes a release to publish.  The watchdog
\* runs once start() has bound the first listener, or failed to.
DogClearsStuck ==
    /\ pc[Watchdog] = "idle" /\ gen > 0 /\ lifecycle # Starter /\ ~stopped
    /\ IF active # NoMode /\ aged
       THEN /\ dogOut' = <<Released(active)>>
            /\ active' = NoMode /\ pressed' = {} /\ aged' = FALSE
       ELSE UNCHANGED <<dogOut, active, pressed, aged>>
    /\ pc' = [pc EXCEPT ![Watchdog] = "check"]
    /\ UNCHANGED <<mode, toggleRecording, toggleChordDown, listenVars, lifeVars,
                   healthVars, was, old, hookOut, stopper, bus>>

\* Publish it, then look at _stopped and at the listener.
DogChecks ==
    /\ pc[Watchdog] = "check" /\ BusHasRoom(Len(dogOut))
    /\ bus' = bus \o dogOut /\ dogOut' = <<>>
    /\ pc' = [pc EXCEPT ![Watchdog] =
                IF stopped \/ ~started THEN "idle"
                ELSE IF bound \in live THEN "healthy" ELSE "down"]
    /\ UNCHANGED <<mode, chordVars, listenVars, lifeVars, healthVars, was, old, hookOut,
                   stopper>>

DogRebindsOldListener ==
    /\ pc[Watchdog] = "healthy" /\ active = NoMode /\ pressed = {}
    /\ pc' = [pc EXCEPT ![Watchdog] = "rebindIdle"]
    /\ UNCHANGED <<mode, chordVars, listenVars, lifeVars, healthVars, was, old, outVars,
                   stopper, bus>>

\* status() differs from "ok" though the listener was seen alive.
DogReportsOk ==
    /\ pc[Watchdog] = "healthy"
    /\ status' = "ok"
    /\ fails' = IF status = "ok" THEN fails ELSE 0
    /\ pc' = [pc EXCEPT ![Watchdog] = "idle"]
    /\ UNCHANGED <<mode, chordVars, listenVars, lifeVars, was, old, outVars, stopper, bus>>

DogBacksOff ==
    /\ pc[Watchdog] = "down"
    /\ pc' = [pc EXCEPT ![Watchdog] = "idle"]
    /\ UNCHANGED <<mode, chordVars, listenVars, lifeVars, healthVars, was, old, outVars,
                   stopper, bus>>

DogRestarts ==
    /\ pc[Watchdog] = "down"
    /\ status' = "recovering"
    /\ pc' = [pc EXCEPT ![Watchdog] = "rebind"]
    /\ UNCHANGED <<mode, chordVars, listenVars, lifeVars, fails, was, old, outVars,
                   stopper, bus>>

-----------------------------------------------------------------------------
(* stop(finalize_active).  Shutdown abandons the chord, after the session  *)
(* monitor has been stopped and joined; a settings change finalises it     *)
(* while the monitor may be inside force_rebind.                           *)

StopTakes(finalize) ==
    /\ started /\ ~stopped /\ lifecycle = "free" /\ gen < MaxGen
    /\ finalize \/ pc[Session] = "idle"
    /\ stopped' = TRUE /\ started' = FALSE /\ status' = "stopped"
    /\ stopper' = [at |-> "stopping", finalize |-> finalize, was |-> active, old |-> bound]
    /\ active' = NoMode /\ pressed' = {} /\ aged' = FALSE
    /\ bound' = 0 /\ gen' = gen + 1
    /\ UNCHANGED <<mode, toggleRecording, toggleChordDown, live, stray, late, fails,
                   lifecycle, rebindVars, outVars, bus>>

\* Stop the hook, join the watchdog and the hook thread, finalise.
StopFinishes ==
    /\ stopper.at = "stopping"
    /\ pc[Watchdog] = "idle" /\ Joined(stopper.old)
    /\ live' = Unhook(stopper.old)
    /\ PublishRelease(IF stopper.finalize THEN stopper.was ELSE NoMode)
    /\ stopper' = [stopper EXCEPT !.at = "stopped"]
    /\ UNCHANGED <<mode, chordVars, gen, bound, stray, late, lifeVars, healthVars,
                   rebindVars, outVars>>

-----------------------------------------------------------------------------
HookNext == \E g \in Gens :
    \/ \E k \in Keys : \/ PressHold(g, k) \/ PressToggle(g, k)
                       \/ ReleaseHold(g, k) \/ ReleaseToggle(g, k)
    \/ HookPublish(g)
    \/ ListenerDies(g)

RebindNext == \E p \in Binders :
    \/ RebindReturns(p) \/ RebindDetach(p) \/ RebindRelease(p)
    \/ BindListener(p) \/ BindRecords(p) \/ BindFails(p) \/ BindStartRaises(p)

DogNext ==
    \/ DogClearsStuck \/ DogChecks \/ DogRebindsOldListener
    \/ DogReportsOk \/ DogBacksOff \/ DogRestarts

StopNext == (\E f \in BOOLEAN : StopTakes(f)) \/ StopFinishes

\* Everything that drives the manager, apart from the reader of the bus.
ManagerNext ==
    \/ Start \/ HookNext \/ ChordAges
    \/ \E m \in {"hold", "toggle"} : SetActivationMode(m)
    \/ SessionResume \/ RebindNext \/ DogNext \/ StopNext

\* EventBus._run hands the oldest event to the subscribers.
BusDelivers ==
    /\ bus # <<>>
    /\ bus' = Tail(bus)
    /\ UNCHANGED <<mode, chordVars, listenVars, lifeVars, healthVars, rebindVars,
                   outVars, stopper>>

Next == ManagerNext \/ BusDelivers

Spec == Init /\ [][Next]_vars

-----------------------------------------------------------------------------
\* Every variable of the manager keeps its type.
TypeOK ==
    /\ mode \in {"hold", "toggle"}
    /\ pressed \in SUBSET Keys
    /\ active \in Modes \cup {NoMode}
    /\ aged \in BOOLEAN /\ toggleRecording \in BOOLEAN /\ toggleChordDown \in BOOLEAN
    /\ gen \in 0..MaxGen /\ bound \in 0..MaxGen /\ live \in SUBSET Gens
    /\ stray \in SUBSET Gens /\ late \in BOOLEAN
    /\ started \in BOOLEAN /\ stopped \in BOOLEAN
    /\ status \in {"ok", "recovering", "dead", "stopped"}
    /\ fails \in 0..MaxFails
    /\ lifecycle \in Binders \cup {"free"}
    /\ pc \in [Binders -> {"idle", "check", "healthy", "down", "rebind",
                           "rebindIdle", "bind", "bindIdle", "record",
                           "recordIdle", "join", "joinFailed"}]
    /\ was \in [Binders -> Modes \cup {NoMode}]
    /\ old \in [Binders -> 0..MaxGen]
    /\ hookOut \in [Gens -> Seq(Event)]
    /\ dogOut \in Seq(Event)
    /\ stopper \in Stopper
    /\ bus \in Seq(Event)

\* A hook that a rebind or a stop is replacing or has replaced never outlives
\* it: whatever rebinds race with stop(), once stop() has returned no keyboard
\* hook is installed but the ones whose start() had raised, which the manager
\* dropped without stopping.
NoListenerAfterStop == stopper.at = "stopped" => live \subseteq stray

\* At most the current listener and the one being detached are installed, and
\* only the current one's callbacks count.  A listener whose start() raised may
\* stay installed beside them, but it never is the one that counts.
OneCurrentListener ==
    /\ gen \notin stray
    /\ \A g \in live \ stray : g = gen \/ lifecycle # "free" \/ stopper.at = "stopping"

\* Application shutdown must not synthesize a release (or let a late press
\* through): once stop() without finalisation has returned, no step of the
\* manager, late hooks and rebinds included, publishes a press or a release.
\* Only what a hook had computed before its start() raised may still follow:
\* nobody waits for its thread.
ShutdownIsSilent ==
    [][stopper.at = "stopped" /\ ~stopper.finalize /\ ManagerNext
           => \/ Len(bus') <= Len(bus)
              \/ \E g \in stray : HookPublish(g)]_vars
=============================================================================
