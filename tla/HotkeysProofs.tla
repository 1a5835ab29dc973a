---------------------------- MODULE HotkeysProofs ----------------------------
(***************************************************************************)
(* Theorems about Hotkeys and about the loop that PushToTalk makes of it,  *)
(* for every set of keys, modes and chords and every bound.                *)
(*                                                                         *)
(* The safety argument of the manager is about the lifecycle lock: a       *)
(* rebinder holds it from the moment it detaches the old listener until    *)
(* the new one is recorded, so a hook that is installed always belongs to  *)
(* the current binding, to the rebind in progress or to the stop in        *)
(* progress; and whoever detached a hook waits for its last events.        *)
(*                                                                         *)
(* That of the loop is about releases that are owed: whoever takes the     *)
(* active chord away carries its release until it is on the bus, behind    *)
(* every press of the same mode, so that the worker, which reads the bus   *)
(* in order, meets it last.                                                *)
(***************************************************************************)
EXTENDS PushToTalk, TLAPS, SequenceTheorems

\* Where a rebinder holds the lifecycle lock.
Binding == {"bind", "bindIdle"}
Recording == {"record", "recordIdle"}
Holding == Binding \cup Recording
Joining == {"join", "joinFailed"}

\* The lock is held by whoever is binding a listener, never before start() or after
\* stop(); the fencing steps to come are within the bound.
LockInv ==
    /\ \A p \in Binders : lifecycle = p <=> pc[p] \in Holding
    /\ \A p \in Binders : pc[p] \in Binding => gen + 2 <= MaxGen
    /\ \A p \in Binders : pc[p] \in Recording => gen > 0 /\ gen + 1 <= MaxGen
    /\ pc[Starter] \in {"idle", "bind", "record"} /\ was[Starter] = NoMode /\ old[Starter] = 0
    /\ started => ~stopped
    /\ stopped <=> stopper.at # "running"
    /\ ~started => lifecycle = "free" /\ bound = 0

\* Whose every installed hook is, but those of the listeners that were dropped when
\* their start() raised: these are of an older generation.
HookInv ==
    /\ \A g \in live \ stray :
          \/ lifecycle = "free" /\ ~stopped /\ g = bound
          \/ stopper.at = "stopping" /\ g = stopper.old
          \/ \E p \in Binders : pc[p] \in Binding /\ g = old[p]
          \/ \E p \in Binders : pc[p] \in Recording /\ g = gen
    /\ \A g \in stray : g < gen
    /\ lifecycle = "free" /\ bound # 0 => bound = gen

ListenerInv == TypeOK /\ LockInv /\ HookInv

LEMMA BestMatchType ==
    \A down : BestMatch(down) \in Modes \cup {NoMode}
<1> SUFFICES ASSUME NEW down PROVE BestMatch(down) \in Modes \cup {NoMode}
    OBVIOUS
<1> DEFINE matches == {m \in Modes : Chord[m] # {} /\ Chord[m] \subseteq down}
<1>1. CASE matches = {}
    BY <1>1 DEF BestMatch
<1>2. CASE matches # {}
  <2>1. matches \in SUBSET Modes
    OBVIOUS
  <2>2. \E m \in matches : \A n \in matches : Beats(m, n)
    BY <1>2, <2>1, HotkeysAssumption
  <2> QED
    BY <1>2, <2>2 DEF BestMatch
<1> QED
    BY <1>1, <1>2

LEMMA EventTypes ==
    ASSUME NEW m \in Modes
    PROVE  Pressed(m) \in Event /\ Released(m) \in Event
    BY DEF Pressed, Released, Event

\* The release of a dropped chord keeps the bus a queue of events.
LEMMA PublishType ==
    ASSUME TypeOK, NEW m \in Modes \cup {NoMode}, PublishRelease(m)
    PROVE  bus' \in Seq(Event)
<1>1. CASE m = NoMode
    BY <1>1 DEF PublishRelease, TypeOK
<1>2. CASE m # NoMode
  <2>1. Released(m) \in Event
    BY <1>2, EventTypes
  <2>2. bus' = Append(bus, Released(m))
    BY <1>2 DEF PublishRelease
  <2> QED
    BY <2>1, <2>2 DEF TypeOK
<1> QED
    BY <1>1, <1>2

-----------------------------------------------------------------------------
(* Type correctness *)

LEMMA TypeInit == Init => TypeOK
<1> SUFFICES ASSUME Init PROVE TypeOK
    OBVIOUS
<1>1. hookOut \in [Gens -> Seq(Event)] /\ dogOut \in Seq(Event) /\ bus \in Seq(Event)
    BY DEF Init
<1>2. stopper \in Stopper
    BY HotkeysAssumption DEF Init, Stopper
<1>3. pc \in [Binders -> {"idle", "check", "healthy", "down", "rebind", "rebindIdle",
                            "bind", "bindIdle", "record", "recordIdle", "join", "joinFailed"}]
    BY DEF Init
<1>4. 0 \in 0..MaxGen /\ 0 \in 0..MaxFails
    BY HotkeysAssumption DEF MaxFails
<1>5. was \in [Binders -> Modes \cup {NoMode}] /\ old \in [Binders -> 0..MaxGen]
    BY <1>4 DEF Init
<1>6. mode \in {"hold", "toggle"}
    BY HotkeysAssumption DEF Init
<1> QED
    BY <1>1, <1>2, <1>3, <1>4, <1>5, <1>6 DEF Init, TypeOK

\* A hook callback: chords and the events it computes.
LEMMA TypeHook ==
    ASSUME TypeOK, NEW g \in Gens, NEW k \in Keys,
           PressHold(g, k) \/ PressToggle(g, k) \/ ReleaseHold(g, k) \/ ReleaseToggle(g, k)
    PROVE  TypeOK'
<1> DEFINE next == BestMatch(pressed')
<1>1. next \in Modes \cup {NoMode}
    BY BestMatchType
<1>2. \A m \in Modes : Pressed(m) \in Event /\ Released(m) \in Event
    BY EventTypes
<1>3. CASE PressHold(g, k)
  <2> DEFINE events == (IF active = NoMode THEN <<>> ELSE <<Released(active)>>)
                          \o <<Pressed(next)>>
  <2>1. next # NoMode => events \in Seq(Event)
    BY <1>1, <1>2 DEF TypeOK
  <2>2. hookOut' \in [Gens -> Seq(Event)]
    BY <1>3, <2>1 DEF PressHold, TypeOK
  <2>3. pressed' \in SUBSET Keys /\ active' \in Modes \cup {NoMode} /\ aged' \in BOOLEAN
    BY <1>1, <1>3 DEF PressHold, TypeOK
  <2> QED
    BY <1>3, <2>2, <2>3 DEF PressHold, TypeOK, listenVars, lifeVars, healthVars, rebindVars
<1>4. CASE PressToggle(g, k)
  <2> DEFINE stopping == IF active = NoMode THEN next ELSE active
             event == IF toggleRecording THEN Released(stopping) ELSE Pressed(next)
  <2>1. next # NoMode => <<event>> \in Seq(Event)
    BY <1>1, <1>2 DEF TypeOK
  <2>2. hookOut' \in [Gens -> Seq(Event)]
    BY <1>4, <2>1 DEF PressToggle, TypeOK
  <2>3. /\ pressed' \in SUBSET Keys /\ active' \in Modes \cup {NoMode} /\ aged' \in BOOLEAN
        /\ toggleRecording' \in BOOLEAN /\ toggleChordDown' \in BOOLEAN
    BY <1>1, <1>4 DEF PressToggle, TypeOK
  <2> QED
    BY <1>4, <2>2, <2>3 DEF PressToggle, TypeOK, listenVars, lifeVars, healthVars, rebindVars
<1>5. CASE ReleaseHold(g, k)
  <2>1. active # NoMode => <<Released(active)>> \in Seq(Event)
    BY <1>2 DEF TypeOK
  <2>2. hookOut' \in [Gens -> Seq(Event)]
    BY <1>5, <2>1 DEF ReleaseHold, TypeOK
  <2> QED
    BY <1>5, <2>2 DEF ReleaseHold, TypeOK, listenVars, lifeVars, healthVars, rebindVars
<1>6. CASE ReleaseToggle(g, k)
    BY <1>6 DEF ReleaseToggle, TypeOK, listenVars, lifeVars, healthVars, rebindVars, outVars
<1> QED
    BY <1>3, <1>4, <1>5, <1>6

\* What the threads of the manager publish, and the reader of the bus.
LEMMA TypePublish ==
    ASSUME TypeOK,
           \/ \E g \in Gens : HookPublish(g)
           \/ \E p \in Binders : RebindRelease(p)
           \/ DogChecks \/ StopFinishes \/ BusDelivers
    PROVE  TypeOK'
<1>3. ASSUME NEW g \in Gens, HookPublish(g) PROVE TypeOK'
  <2>1. Head(hookOut[g]) \in Event /\ Tail(hookOut[g]) \in Seq(Event)
    BY <1>3 DEF HookPublish, TypeOK
  <2> QED
    BY <1>3, <2>1 DEF HookPublish, TypeOK, chordVars, listenVars, lifeVars, healthVars,
                      rebindVars
<1>4. ASSUME NEW p \in Binders, RebindRelease(p) PROVE TypeOK'
  <2>1. bus' \in Seq(Event)
    BY <1>4, PublishType DEF RebindRelease, TypeOK
  <2>2. status' \in {"ok", "recovering", "dead", "stopped"}
    BY <1>4 DEF RebindRelease, GivesUp, TypeOK
  <2> QED
    BY <1>4, <2>1, <2>2, HotkeysAssumption
    DEF RebindRelease, TypeOK, chordVars, listenVars, lifeVars, outVars
<1>5. CASE DogChecks
    BY <1>5 DEF DogChecks, TypeOK, chordVars, listenVars, lifeVars, healthVars, Binders,
                Watchdog
<1>6. CASE StopFinishes
  <2>1. bus' \in Seq(Event)
    <3>1. (IF stopper.finalize THEN stopper.was ELSE NoMode) \in Modes \cup {NoMode}
      BY DEF TypeOK, Stopper
    <3> QED
      BY <1>6, <3>1, PublishType DEF StopFinishes
  <2>2. stopper' \in Stopper
    BY <1>6 DEF StopFinishes, TypeOK, Stopper
  <2> QED
    BY <1>6, <2>1, <2>2
    DEF StopFinishes, Unhook, TypeOK, chordVars, lifeVars, healthVars, rebindVars, outVars
<1>7. CASE BusDelivers
    BY <1>7 DEF BusDelivers, TypeOK, chordVars, listenVars, lifeVars, healthVars,
                rebindVars, outVars
<1> QED
    BY <1>3, <1>4, <1>5, <1>6, <1>7

\* What moves the manager through its life: chord age, mode, start, rebind.
LEMMA TypeLifecycle ==
    ASSUME TypeOK, LockInv,
           \/ ChordAges \/ (\E m \in {"hold", "toggle"} : SetActivationMode(m))
           \/ (\E g \in Gens : ListenerDies(g)) \/ Start \/ SessionResume
           \/ (\E f \in BOOLEAN : StopTakes(f))
           \/ \E p \in Binders : \/ RebindReturns(p) \/ RebindDetach(p) \/ BindListener(p)
                                   \/ BindRecords(p) \/ BindFails(p) \/ BindStartRaises(p)
    PROVE  TypeOK'
<1>0. MaxGen \in Nat \ {0}
    BY HotkeysAssumption
<1>f. Saturate(fails + 1) \in 0..MaxFails
    BY DEF Saturate, TypeOK, MaxFails
<1>s. FailStatus(fails + 1) \in {"ok", "recovering", "dead", "stopped"}
    BY DEF FailStatus
<1>1. CASE ChordAges
    BY <1>1 DEF ChordAges, TypeOK, listenVars, lifeVars, healthVars, rebindVars, outVars
<1>2. CASE \E m \in {"hold", "toggle"} : SetActivationMode(m)
    BY <1>2 DEF SetActivationMode, TypeOK, chordVars, listenVars, lifeVars, healthVars,
                rebindVars, outVars
<1>3. CASE \E g \in Gens : ListenerDies(g)
    BY <1>3 DEF ListenerDies, TypeOK, chordVars, lifeVars, healthVars, rebindVars, outVars
<1>4. CASE Start
    BY <1>4 DEF Start, TypeOK, chordVars, listenVars, healthVars, outVars, Binders, Starter
<1>5. CASE SessionResume
    BY <1>5 DEF SessionResume, TypeOK, chordVars, listenVars, lifeVars, healthVars, outVars,
                Binders, Session
<1>6. ASSUME NEW f \in BOOLEAN, StopTakes(f) PROVE TypeOK'
  <2>1. gen' \in 0..MaxGen /\ bound' \in 0..MaxGen
    BY <1>0, <1>6 DEF StopTakes, TypeOK
  <2>2. stopper' \in Stopper
    BY <1>6 DEF StopTakes, TypeOK, Stopper
  <2> QED
    BY <1>6, <2>1, <2>2 DEF StopTakes, TypeOK, rebindVars, outVars
<1>7. ASSUME NEW p \in Binders, RebindReturns(p) PROVE TypeOK'
  <2>1. status' \in {"ok", "recovering", "dead", "stopped"}
    BY <1>7 DEF RebindReturns, GivesUp, TypeOK
  <2> QED
    BY <1>7, <2>1 DEF RebindReturns, TypeOK, chordVars, listenVars, lifeVars, outVars
<1>8. ASSUME NEW p \in Binders, RebindDetach(p) PROVE TypeOK'
  <2>1. gen' \in 0..MaxGen /\ bound' \in 0..MaxGen
    BY <1>0, <1>8 DEF RebindDetach, TypeOK
  <2>2. /\ was' \in [Binders -> Modes \cup {NoMode}]
        /\ old' \in [Binders -> 0..MaxGen]
    BY <1>8 DEF RebindDetach, TypeOK
  <2> QED
    BY <1>8, <2>1, <2>2 DEF RebindDetach, TypeOK, healthVars, outVars
<1>9. ASSUME NEW p \in Binders, BindListener(p) PROVE TypeOK'
  <2>0. gen + 1 \in Gens /\ gen + 1 \in 0..MaxGen
    BY <1>0, <1>9 DEF BindListener, TypeOK, LockInv, Binding, Gens
  <2>1. gen' \in 0..MaxGen /\ live' \in SUBSET Gens
    BY <1>9, <2>0 DEF BindListener, Unhook, TypeOK
  <2> QED
    BY <1>9, <2>1 DEF BindListener, TypeOK, chordVars, lifeVars, healthVars, outVars
<1>10. ASSUME NEW p \in Binders, BindRecords(p) PROVE TypeOK'
  <2>1. pc' \in [Binders -> {"idle", "check", "healthy", "down", "rebind", "rebindIdle",
                              "bind", "bindIdle", "record", "recordIdle", "join", "joinFailed"}]
    BY <1>10 DEF BindRecords, TypeOK
  <2> QED
    BY <1>10, <2>1 DEF BindRecords, TypeOK, chordVars, outVars, MaxFails
<1>11. ASSUME NEW p \in Binders, BindFailed(p),
              gen' \in 0..MaxGen, live' \in SUBSET Gens, stray' \in SUBSET Gens, late' \in BOOLEAN
       PROVE  TypeOK'
  <2>1. pc' \in [Binders -> {"idle", "check", "healthy", "down", "rebind", "rebindIdle",
                              "bind", "bindIdle", "record", "recordIdle", "join", "joinFailed"}]
    BY <1>11 DEF BindFailed, TypeOK
  <2>2. fails' \in 0..MaxFails /\ status' \in {"ok", "recovering", "dead", "stopped"}
    BY <1>11, <1>f, <1>s DEF BindFailed
  <2>3. bound' \in 0..MaxGen
    BY <1>0, <1>11 DEF BindFailed
  <2> QED
    BY <1>11, <2>1, <2>2, <2>3 DEF BindFailed, TypeOK, chordVars, outVars
<1>12. ASSUME NEW p \in Binders, BindFails(p) PROVE TypeOK'
  <2>1. gen + 2 \in 0..MaxGen
    BY <1>0, <1>12 DEF BindFails, TypeOK, LockInv, Binding
  <2> QED
    BY <1>11, <1>12, <2>1 DEF BindFails, Unhook, TypeOK
<1>13. ASSUME NEW p \in Binders, BindStartRaises(p) PROVE TypeOK'
  <2>1. gen + 1 \in 0..MaxGen /\ gen \in Gens
    BY <1>0, <1>13 DEF BindStartRaises, TypeOK, LockInv, Recording, Gens
  <2>2. late' \in BOOLEAN
    BY <1>13 DEF BindStartRaises, TypeOK
  <2> QED
    BY <1>11, <1>13, <2>1, <2>2 DEF BindStartRaises, TypeOK
<1> QED
    BY <1>1, <1>2, <1>3, <1>4, <1>5, <1>6, <1>7, <1>8, <1>9, <1>10, <1>12,
       <1>13

\* The watchdog's own steps.
LEMMA TypeDog ==
    ASSUME TypeOK,
           \/ DogClearsStuck \/ DogRebindsOldListener \/ DogReportsOk
           \/ DogBacksOff \/ DogRestarts
    PROVE  TypeOK'
<1>0. Watchdog \in Binders
    BY DEF Binders
<1>1. CASE DogClearsStuck
  <2>1. dogOut' \in Seq(Event)
    <3>1. CASE active # NoMode /\ aged
      <4>1. Released(active) \in Event
        BY <3>1, EventTypes DEF TypeOK
      <4>2. dogOut' = <<Released(active)>>
        BY <1>1, <3>1 DEF DogClearsStuck
      <4> QED
        BY <4>1, <4>2
    <3>2. CASE ~(active # NoMode /\ aged)
      BY <1>1, <3>2 DEF DogClearsStuck, TypeOK
    <3> QED
      BY <3>1, <3>2
  <2>2. pressed' \in SUBSET Keys /\ active' \in Modes \cup {NoMode} /\ aged' \in BOOLEAN
    BY <1>1 DEF DogClearsStuck, TypeOK
  <2> QED
    BY <1>0, <1>1, <2>1, <2>2 DEF DogClearsStuck, TypeOK, listenVars, lifeVars, healthVars
<1>2. CASE DogRebindsOldListener
    BY <1>0, <1>2
    DEF DogRebindsOldListener, TypeOK, chordVars, listenVars, lifeVars, healthVars, outVars
<1>3. CASE DogReportsOk
    BY <1>0, <1>3
    DEF DogReportsOk, TypeOK, chordVars, listenVars, lifeVars, outVars, MaxFails
<1>4. CASE DogBacksOff
    BY <1>0, <1>4
    DEF DogBacksOff, TypeOK, chordVars, listenVars, lifeVars, healthVars, outVars
<1>5. CASE DogRestarts
    BY <1>0, <1>5 DEF DogRestarts, TypeOK, chordVars, listenVars, lifeVars, outVars
<1> QED
    BY <1>1, <1>2, <1>3, <1>4, <1>5

LEMMA TypeStep == TypeOK /\ LockInv /\ [Next]_vars => TypeOK'
<1> SUFFICES ASSUME TypeOK, LockInv, [Next]_vars PROVE TypeOK'
    OBVIOUS
<1>1. CASE UNCHANGED vars
    BY <1>1 DEF TypeOK, vars
<1>2. CASE HookNext
    BY <1>2, TypeHook, TypePublish, TypeLifecycle DEF HookNext
<1>3. CASE RebindNext
    BY <1>3, TypePublish, TypeLifecycle DEF RebindNext
<1>4. CASE DogNext
    BY <1>4, TypePublish, TypeDog DEF DogNext
<1>5. CASE StopNext
    BY <1>5, TypePublish, TypeLifecycle DEF StopNext
<1>6. CASE Start \/ ChordAges \/ (\E m \in {"hold", "toggle"} : SetActivationMode(m))
             \/ SessionResume
    BY <1>6, TypeLifecycle
<1>7. CASE BusDelivers
    BY <1>7, TypePublish
<1> QED
    BY <1>1, <1>2, <1>3, <1>4, <1>5, <1>6, <1>7 DEF Next, ManagerNext

-----------------------------------------------------------------------------
(* The lifecycle lock and the installed hooks *)

LEMMA ListenerInit == Init => ListenerInv
<1> SUFFICES ASSUME Init PROVE ListenerInv
    OBVIOUS
<1>1. TypeOK
    BY TypeInit
<1>2. LockInv
    BY DEF Init, LockInv, Binding, Recording, Holding, Binders, Watchdog, Session, Starter
<1>3. HookInv
    BY DEF Init, HookInv
<1> QED
    BY <1>1, <1>2, <1>3 DEF ListenerInv

\* Steps that do not touch the listener: callbacks, publishing, the bus, the
\* watchdog outside force_rebind, a settings change.
LEMMA OtherSteps ==
    ASSUME ListenerInv,
           \/ UNCHANGED vars \/ ChordAges \/ SessionResume \/ DogNext \/ BusDelivers
           \/ (\E m \in {"hold", "toggle"} : SetActivationMode(m))
           \/ (\E g \in Gens : HookPublish(g) \/ ListenerDies(g)
                  \/ \E k \in Keys : \/ PressHold(g, k) \/ PressToggle(g, k)
                                     \/ ReleaseHold(g, k) \/ ReleaseToggle(g, k))
           \/ (\E p \in Binders : RebindReturns(p) \/ RebindRelease(p))
    PROVE  LockInv' /\ HookInv'
<1>2. ASSUME gen' = gen, bound' = bound, started' = started, stopped' = stopped,
             lifecycle' = lifecycle, stopper' = stopper, live' \subseteq live, stray' = stray,
             \A p \in Binders : \/ UNCHANGED <<pc[p], old[p], was[p]>>
                                \/ /\ p # Starter
                                   /\ pc[p] \notin Holding /\ pc'[p] \notin Holding,
             UNCHANGED <<was[Starter], old[Starter]>>
      PROVE  LockInv' /\ HookInv'
  <2>0. Starter \in Binders
    BY DEF Binders
  <2>1. \A p \in Binders : /\ pc'[p] \in Holding <=> pc[p] \in Holding
                           /\ pc'[p] \in Binding => pc[p] \in Binding
                           /\ pc'[p] \in Recording => pc[p] \in Recording
    BY <1>2 DEF Holding
  <2>2. \A p \in Binders : /\ pc[p] \in Binding => pc'[p] \in Binding /\ old'[p] = old[p]
                           /\ pc[p] \in Recording => pc'[p] \in Recording
    BY <1>2 DEF Holding
  <2>3. LockInv'
    BY <1>2, <2>0, <2>1 DEF ListenerInv, LockInv
  <2>4. ASSUME NEW g \in live' \ stray'
        PROVE  \/ lifecycle' = "free" /\ ~stopped' /\ g = bound'
               \/ stopper'.at = "stopping" /\ g = stopper'.old
               \/ \E p \in Binders : pc'[p] \in Binding /\ g = old'[p]
               \/ \E p \in Binders : pc'[p] \in Recording /\ g = gen'
    <3>1. g \in live \ stray
      BY <1>2, <2>4
    <3>2. CASE lifecycle = "free" /\ ~stopped /\ g = bound
      BY <1>2, <3>2
    <3>3. CASE stopper.at = "stopping" /\ g = stopper.old
      BY <1>2, <3>3
    <3>4. CASE \E p \in Binders : pc[p] \in Binding /\ g = old[p]
      BY <2>2, <3>4
    <3>5. CASE \E p \in Binders : pc[p] \in Recording /\ g = gen
      BY <1>2, <2>2, <3>5
    <3> QED
      BY <3>1, <3>2, <3>3, <3>4, <3>5 DEF ListenerInv, HookInv
  <2>5. HookInv'
    BY <1>2, <2>4 DEF ListenerInv, HookInv
  <2> QED
    BY <2>3, <2>5
<1>1. ASSUME gen' = gen, bound' = bound, started' = started, stopped' = stopped,
             lifecycle' = lifecycle, stopper' = stopper, live' \subseteq live,
             stray' = stray, pc' = pc, old' = old, was' = was
      PROVE  LockInv' /\ HookInv'
    BY <1>1, <1>2
<1>3. CASE UNCHANGED vars
    BY <1>1, <1>3 DEF vars
<1>4. CASE ChordAges \/ BusDelivers \/ (\E m \in {"hold", "toggle"} : SetActivationMode(m))
    BY <1>1, <1>4 DEF ChordAges, BusDelivers, SetActivationMode, listenVars, lifeVars, rebindVars
<1>5. CASE \E g \in Gens : HookPublish(g) \/ ListenerDies(g)
                \/ \E k \in Keys : \/ PressHold(g, k) \/ PressToggle(g, k)
                                   \/ ReleaseHold(g, k) \/ ReleaseToggle(g, k)
    BY <1>1, <1>5 DEF HookPublish, ListenerDies, PressHold, PressToggle, ReleaseHold,
                      ReleaseToggle, listenVars, lifeVars, rebindVars
<1>6. CASE SessionResume
    BY <1>2, <1>6 DEF SessionResume, listenVars, lifeVars, ListenerInv, TypeOK, Holding, Binding, Recording,
        LockInv, Binders, Watchdog, Session, Starter
<1>7. CASE DogNext
    BY <1>2, <1>7
    DEF DogNext, DogClearsStuck, DogChecks, DogRebindsOldListener, DogReportsOk, DogBacksOff,
        DogRestarts, listenVars, lifeVars, ListenerInv, TypeOK, Holding, Binding, Recording,
        LockInv, Binders, Watchdog, Session, Starter
<1>8. CASE \E p \in Binders : RebindReturns(p) \/ RebindRelease(p)
    BY <1>2, <1>8
    DEF RebindReturns, RebindRelease, listenVars, lifeVars, ListenerInv, TypeOK, Holding, Binding, Recording,
        LockInv, Binders, Watchdog, Session, Starter
<1> QED
    BY <1>3, <1>4, <1>5, <1>6, <1>7, <1>8

LEMMA ListenerStep == ListenerInv /\ [Next]_vars => ListenerInv'
<1> SUFFICES ASSUME ListenerInv, [Next]_vars PROVE ListenerInv'
    OBVIOUS
<1> USE DEF ListenerInv
<1>t. TypeOK'
    BY TypeStep
<1>g. gen \in Nat /\ MaxGen \in Nat
    BY HotkeysAssumption DEF TypeOK
<1>1. CASE Start
  <2>1. lifecycle = "free" /\ bound = 0 /\ live \subseteq stray /\ stopper.at = "running"
    BY <1>1 DEF Start, LockInv, HookInv, TypeOK, Gens, Binding, Recording, Holding, Binders,
                Watchdog, Session, Starter
  <2>2. \A p \in Binders : pc[p] \notin Holding
    BY <2>1 DEF LockInv, Binders, Watchdog, Session, Starter
  <2>3. /\ lifecycle' = Starter /\ pc'[Starter] = "bind"
        /\ \A p \in {Watchdog, Session} : pc'[p] = pc[p]
    BY <1>1 DEF Start, TypeOK, Binders, Watchdog, Session, Starter
  <2>4. LockInv'
    BY <1>1, <2>1, <2>2, <2>3
    DEF Start, LockInv, listenVars, Holding, Binding, Recording, Binders, Watchdog, Session, Starter
  <2>5. HookInv'
    BY <1>1, <2>1, <2>3 DEF Start, HookInv, listenVars, Starter
  <2> QED
    BY <1>t, <2>4, <2>5
<1>2. ASSUME NEW f \in BOOLEAN, StopTakes(f) PROVE ListenerInv'
  <2>1. \A g \in live \ stray : g = bound
    BY <1>2 DEF StopTakes, LockInv, HookInv, TypeOK, Binding, Recording, Holding, Binders, Watchdog,
                Session, Starter
  <2>2. LockInv'
    BY <1>2 DEF StopTakes, LockInv, rebindVars, Holding, Binding, Recording, Binders, Watchdog, Session, Starter
  <2>3. HookInv'
    BY <1>2, <1>g, <2>1 DEF StopTakes, HookInv, TypeOK, Gens
  <2> QED
    BY <1>t, <2>2, <2>3
<1>3. CASE StopFinishes
  <2>1. LockInv'
    BY <1>3 DEF StopFinishes, LockInv, rebindVars, lifeVars, TypeOK, Stopper
  <2>2. lifecycle = "free"
    BY <1>3 DEF StopFinishes, LockInv, TypeOK
  <2>3. HookInv'
    BY <1>3, <2>2 DEF StopFinishes, Unhook, HookInv, rebindVars, lifeVars, LockInv, TypeOK, Holding,
                      Binding, Recording, Binders, Watchdog, Session, Starter
  <2> QED
    BY <1>t, <2>1, <2>3
<1>4. ASSUME NEW p \in Binders, RebindDetach(p) PROVE ListenerInv'
  <2>1. started /\ ~stopped /\ lifecycle = "free" /\ stopper.at = "running"
    BY <1>4 DEF RebindDetach, RebindRefused, LockInv, TypeOK
  <2>2. \A g \in live \ stray : g = bound
    BY <2>1 DEF HookInv, LockInv, TypeOK, Binding, Recording, Holding, Binders, Watchdog, Session, Starter
  <2>3. pc'[p] \in Binding /\ old'[p] = bound /\ lifecycle' = p /\ p # Starter
    BY <1>4 DEF RebindDetach, Binding, TypeOK, LockInv
  <2>4. \A q \in Binders \ {p} : pc'[q] = pc[q] /\ pc[q] \notin Holding
    BY <1>4, <2>1 DEF RebindDetach, LockInv, TypeOK, Binders, Watchdog, Session, Starter
  <2>5. Starter \in Binders /\ UNCHANGED <<was[Starter], old[Starter]>>
    BY <1>4, <2>3 DEF RebindDetach, TypeOK, Binders
  <2>6. LockInv'
    BY <1>4, <1>g, <2>1, <2>3, <2>4, <2>5 DEF RebindDetach, LockInv, Holding, Binding, Recording
  <2>7. HookInv'
    BY <1>4, <1>g, <2>2, <2>3 DEF RebindDetach, HookInv, TypeOK, Gens
  <2> QED
    BY <1>t, <2>6, <2>7
<1>5. ASSUME NEW p \in Binders, pc[p] \in Holding
      PROVE  /\ lifecycle = p /\ lifecycle # "free"
             /\ \A q \in Binders \ {p} : pc[q] \notin Holding
             /\ started /\ ~stopped /\ stopper.at = "running"
             /\ pc[p] \in Binding => \A g \in live \ stray : g = old[p]
             /\ pc[p] \in Recording => \A g \in live \ stray : g = gen
  <2>1. lifecycle = p /\ lifecycle # "free"
    BY <1>5 DEF LockInv, Binders, Watchdog, Session, Starter
  <2>2. \A q \in Binders \ {p} : pc[q] \notin Holding
    BY <2>1 DEF LockInv
  <2>3. started /\ ~stopped /\ stopper.at = "running"
    BY <2>1 DEF LockInv, TypeOK
  <2>4. \A g \in live \ stray : (pc[p] \in Binding /\ g = old[p]) \/ (pc[p] \in Recording /\ g = gen)
    BY <2>1, <2>2, <2>3 DEF HookInv, Holding
  <2> QED
    BY <2>1, <2>2, <2>3, <2>4 DEF Binding, Recording
<1>6. ASSUME NEW p \in Binders, BindListener(p) PROVE ListenerInv'
  <2>1. pc[p] \in Binding /\ pc[p] \in Holding
    BY <1>6 DEF BindListener, Binding, Holding
  <2>2. \A q \in Binders \ {p} : pc'[q] = pc[q] /\ old'[q] = old[q] /\ pc[q] \notin Holding
    BY <1>5, <1>6, <2>1 DEF BindListener, TypeOK
  <2>3. /\ pc'[p] \in Recording /\ live' \ stray' \subseteq {gen'}
        /\ pc'[p] = "record" \/ pc[p] = "bindIdle"
    BY <1>5, <1>6, <2>1 DEF BindListener, Unhook, TypeOK, Recording
  <2>4. LockInv'
    BY <1>5, <1>6, <1>g, <2>1, <2>2, <2>3
    DEF BindListener, LockInv, Holding, Binding, Recording, lifeVars, Binders
  <2>5. HookInv'
    BY <1>6, <1>g, <2>1, <2>3, <1>5 DEF BindListener, HookInv, lifeVars, TypeOK, Gens
  <2> QED
    BY <1>t, <2>4, <2>5
<1>7. ASSUME NEW p \in Binders, pc[p] \in Holding, pc'[p] \notin Holding,
             p = Starter => pc'[p] = "idle", \A q \in Binders \ {p} : pc'[q] = pc[q],
             lifecycle' = "free", UNCHANGED <<started, stopped, stopper, was, old>>
      PROVE  LockInv'
    BY <1>5, <1>7 DEF LockInv, Holding, Binders, Watchdog, Session, Starter
<1>9. ASSUME NEW p \in Binders, BindRecords(p) PROVE ListenerInv'
  <2>1. pc[p] \in Recording /\ pc[p] \in Holding
    BY <1>9 DEF BindRecords, Recording, Holding
  <2>2. pc'[p] \notin Holding /\ lifecycle' = "free" /\ bound' = gen
    BY <1>9 DEF BindRecords, TypeOK, Holding, Binding, Recording
  <2>3. LockInv'
    BY <1>7, <1>9, <2>1, <2>2 DEF BindRecords, TypeOK
  <2>4. HookInv'
    BY <1>5, <1>9, <2>1, <2>2 DEF BindRecords, HookInv
  <2> QED
    BY <1>t, <2>3, <2>4
<1>10. ASSUME NEW p \in Binders, BindFails(p) \/ BindStartRaises(p) PROVE ListenerInv'
  <2>1. pc[p] \in Holding /\ BindFailed(p)
    BY <1>10 DEF BindFails, BindStartRaises, Recording, Binding, Holding
  <2>2. pc'[p] \notin Holding /\ lifecycle' = "free" /\ bound' = 0
    BY <2>1 DEF BindFailed, TypeOK, Holding, Binding, Recording
  <2>3. LockInv'
    BY <1>7, <2>1, <2>2 DEF BindFailed, TypeOK
  <2>4. live' \subseteq stray'
    <3>1. CASE BindFails(p)
      BY <1>5, <2>1, <3>1 DEF BindFails, Binding, Unhook
    <3>2. CASE BindStartRaises(p)
      BY <1>5, <2>1, <3>2 DEF BindStartRaises, Recording
    <3> QED
      BY <1>10, <3>1, <3>2
  <2>5. \A g \in stray' : g < gen'
    <3>1. stray \subseteq Nat /\ \A g \in stray : g < gen
      BY DEF HookInv, TypeOK, Gens
    <3>2. gen' \in Nat /\ gen < gen' /\ stray' \subseteq stray \cup {gen}
      BY <1>10, <1>g DEF BindFails, BindStartRaises
    <3> QED
      BY <1>g, <3>1, <3>2
  <2>6. HookInv'
    BY <2>2, <2>4, <2>5 DEF HookInv
  <2> QED
    BY <1>t, <2>3, <2>6
<1>8. CASE \/ UNCHANGED vars \/ ChordAges \/ SessionResume \/ DogNext \/ BusDelivers
           \/ (\E m \in {"hold", "toggle"} : SetActivationMode(m))
           \/ HookNext
           \/ (\E p \in Binders : RebindReturns(p) \/ RebindRelease(p))
    BY <1>8, <1>t, OtherSteps DEF HookNext
<1> QED
    BY <1>1, <1>2, <1>3, <1>4, <1>6, <1>8, <1>9, <1>10
    DEF Next, ManagerNext, RebindNext, StopNext

LEMMA ListenerAlways == Spec => []ListenerInv
<1> QED
    BY ListenerInit, ListenerStep, PTL DEF Spec

\* Every variable of the hotkey manager keeps its type.
THEOREM TypeCorrect == Spec => []TypeOK
<1>1. ListenerInv => TypeOK
    BY DEF ListenerInv
<1> QED
    BY <1>1, ListenerAlways, PTL

LEMMA StopRemoves == ListenerInv => NoListenerAfterStop
    BY DEF ListenerInv, LockInv, HookInv, TypeOK, NoListenerAfterStop, Holding,
           Recording, Binders,
           Watchdog, Session, Starter

\* Once stop() has returned no keyboard hook is installed, whichever rebinds
\* raced with it, but those whose start() had raised.
THEOREM StopRemovesHooks == Spec => []NoListenerAfterStop
<1> QED
    BY StopRemoves, ListenerAlways, PTL

\* Outside a rebind and a stop at most the current generation is installed, and
\* beside it those whose start() had raised, which are of older generations.
THEOREM CurrentListenerOnly == Spec => []OneCurrentListener
<1>1. ListenerInv => OneCurrentListener
    BY DEF ListenerInv, LockInv, HookInv, TypeOK, Gens, OneCurrentListener, Holding,
           Recording,
           Binders, Watchdog, Session, Starter
<1> QED
    BY <1>1, ListenerAlways, PTL

-----------------------------------------------------------------------------
(* Shutdown is silent: whoever still has an event to publish is waited for *)

\* A hook thread with events to publish is installed, or somebody waits for it, or
\* its listener was dropped.
PendingInv ==
    \A g \in Gens : hookOut[g] # <<>> =>
        \/ g \in live \cup stray
        \/ \E p \in Binders : pc[p] \in Joining \cup Recording /\ g = old[p]

\* A stop without finalisation begins with the session monitor idle, and no
\* stop ends before the watchdog does.
QuietInv ==
    /\ stopper.at # "running" /\ ~stopper.finalize => pc[Session] = "idle"
    /\ stopper.at = "stopped" => pc[Watchdog] = "idle"

SilentInv == ListenerInv /\ PendingInv /\ QuietInv

LEMMA SilentInit == Init => SilentInv
    BY ListenerInit DEF Init, SilentInv, PendingInv, QuietInv

LEMMA QuietStep == SilentInv /\ [Next]_vars => QuietInv'
<1> SUFFICES ASSUME SilentInv, [Next]_vars PROVE QuietInv'
    OBVIOUS
<1> USE DEF SilentInv, ListenerInv
<1>0. Watchdog \in Binders /\ Session \in Binders /\ Watchdog # Session
    BY DEF Binders, Watchdog, Session, Starter
<1>1. CASE \/ UNCHANGED vars \/ ChordAges \/ BusDelivers \/ HookNext
           \/ (\E m \in {"hold", "toggle"} : SetActivationMode(m))
    BY <1>1 DEF vars, ChordAges, BusDelivers, SetActivationMode, HookNext, HookPublish,
                ListenerDies, PressHold, PressToggle, ReleaseHold, ReleaseToggle, rebindVars,
                QuietInv
<1>2. CASE Start \/ SessionResume
    BY <1>0, <1>2 DEF Start, SessionResume, QuietInv, LockInv, TypeOK, Watchdog, Session, Starter
<1>3. ASSUME NEW p \in Binders, RebindReturns(p) \/ RebindRelease(p) PROVE QuietInv'
    BY <1>0, <1>3 DEF RebindReturns, RebindRelease, QuietInv, TypeOK
<1>4. ASSUME NEW p \in Binders,
             \/ RebindDetach(p) \/ BindListener(p) \/ BindRecords(p)
             \/ BindFails(p) \/ BindStartRaises(p)
      PROVE  QuietInv'
  <2>1. lifecycle = "free" \/ lifecycle = p
    BY <1>4 DEF RebindDetach, BindListener, BindRecords, BindFails, BindFailed, BindStartRaises, LockInv, Holding,
                Binding, Recording
  <2>2. stopper.at = "running"
    <3>1. CASE RebindDetach(p)
      BY <3>1 DEF RebindDetach, RebindRefused, LockInv, TypeOK
    <3>2. CASE BindListener(p) \/ BindRecords(p) \/ BindFails(p) \/ BindStartRaises(p)
      <4>1. lifecycle = p /\ lifecycle # "free"
        BY <3>2 DEF BindListener, BindRecords, BindFails, BindFailed, BindStartRaises, LockInv, Holding, Binding,
                    Recording, Binders, Watchdog, Session, Starter
      <4> QED
        BY <4>1 DEF LockInv, TypeOK
    <3> QED
      BY <1>4, <3>1, <3>2
  <2>3. stopper' = stopper
    BY <1>4 DEF RebindDetach, BindListener, BindRecords, BindFails, BindStartRaises, BindFailed
  <2> QED
    BY <2>2, <2>3 DEF QuietInv
<1>5. CASE DogNext
    BY <1>0, <1>5
    DEF DogNext, DogClearsStuck, DogChecks, DogRebindsOldListener, DogReportsOk, DogBacksOff,
        DogRestarts, QuietInv, LockInv, TypeOK
<1>6. ASSUME NEW f \in BOOLEAN, StopTakes(f) PROVE QuietInv'
    BY <1>6 DEF StopTakes, rebindVars, QuietInv
<1>7. CASE StopFinishes
    BY <1>7 DEF StopFinishes, rebindVars, QuietInv, TypeOK, Stopper
<1> QED
    BY <1>1, <1>2, <1>3, <1>4, <1>5, <1>6, <1>7
    DEF Next, ManagerNext, RebindNext, StopNext

LEMMA PendingStep == SilentInv /\ [Next]_vars => PendingInv'
<1> SUFFICES ASSUME SilentInv, [Next]_vars PROVE PendingInv'
    OBVIOUS
<1> USE DEF SilentInv, ListenerInv
<1>0. Watchdog \in Binders /\ Session \in Binders /\ Watchdog # Session
    BY DEF Binders, Watchdog, Session, Starter
<1>1. ASSUME live \subseteq live',
             \A g \in Gens : hookOut'[g] # <<>> => hookOut[g] # <<>>,
             stray \subseteq stray',
             \A p \in Binders : pc[p] \in Joining \cup Recording =>
                \/ p = Starter
                \/ pc'[p] \in Joining \cup Recording /\ old'[p] = old[p]
      PROVE  PendingInv'
    BY <1>1 DEF PendingInv, Gens, LockInv
<1>2. CASE \/ UNCHANGED vars \/ ChordAges \/ BusDelivers \/ Start
           \/ (\E m \in {"hold", "toggle"} : SetActivationMode(m))
           \/ (\E f \in BOOLEAN : StopTakes(f))
    BY <1>1, <1>2 DEF vars, ChordAges, BusDelivers, Start, SetActivationMode, StopTakes,
                      listenVars, rebindVars, outVars, TypeOK
<1>3. ASSUME NEW g \in Gens,
             \E k \in Keys : \/ PressHold(g, k) \/ PressToggle(g, k)
                             \/ ReleaseHold(g, k) \/ ReleaseToggle(g, k)
      PROVE  PendingInv'
  <2>1. g \in live /\ live' = live /\ stray' = stray /\ pc' = pc /\ old' = old
    BY <1>3 DEF PressHold, PressToggle, ReleaseHold, ReleaseToggle, CallbackReady, listenVars,
                rebindVars
  <2>2. \A h \in Gens \ {g} : hookOut'[h] = hookOut[h]
    BY <1>3 DEF PressHold, PressToggle, ReleaseHold, ReleaseToggle, TypeOK, outVars
  <2> QED
    BY <2>1, <2>2 DEF PendingInv, Gens
<1>4. ASSUME NEW g \in Gens, HookPublish(g) PROVE PendingInv'
  <2>1. \A h \in Gens : hookOut'[h] # <<>> => hookOut[h] # <<>>
    BY <1>4 DEF HookPublish, TypeOK
  <2> QED
    BY <1>1, <1>4, <2>1 DEF HookPublish, listenVars, rebindVars
<1>5. ASSUME NEW g \in Gens, ListenerDies(g) PROVE PendingInv'
    BY <1>5 DEF ListenerDies, PendingInv, rebindVars, outVars, Gens
<1>6. CASE SessionResume \/ DogNext
    BY <1>0, <1>1, <1>6
    DEF SessionResume, DogNext, DogClearsStuck, DogChecks, DogRebindsOldListener,
        DogReportsOk, DogBacksOff, DogRestarts, listenVars, outVars, TypeOK, Joining, Recording
<1>7. ASSUME NEW p \in Binders, RebindReturns(p) PROVE PendingInv'
    BY <1>1, <1>7 DEF RebindReturns, listenVars, outVars, TypeOK, Joining, Recording
<1>8. ASSUME NEW p \in Binders, RebindDetach(p) PROVE PendingInv'
    BY <1>1, <1>8 DEF RebindDetach, outVars, TypeOK, Joining, Recording
<1>9. ASSUME NEW p \in Binders, BindListener(p) \/ BindFails(p) PROVE PendingInv'
  <2>1. live \ {old[p]} \subseteq live' /\ old' = old /\ hookOut' = hookOut /\ stray' = stray
    BY <1>9 DEF BindListener, BindFails, BindFailed, Unhook, outVars
  <2>2. p # Starter => pc'[p] \in Joining \cup Recording
    BY <1>9 DEF BindListener, BindFails, BindFailed, TypeOK, Joining, Recording
  <2>3. \A q \in Binders \ {p} : pc'[q] = pc[q]
    BY <1>9 DEF BindListener, BindFails, BindFailed, TypeOK
  <2>4. \A g \in Gens : g # old[Starter]
    BY DEF LockInv, Gens
  <2>5. CASE p = Starter
    BY <2>1, <2>3, <2>4, <2>5 DEF PendingInv
  <2>6. CASE p # Starter
    BY <2>1, <2>2, <2>3, <2>6 DEF PendingInv
  <2> QED
    BY <2>5, <2>6
<1>10. ASSUME NEW p \in Binders, BindRecords(p) \/ BindStartRaises(p) PROVE PendingInv'
    BY <1>1, <1>10
    DEF BindRecords, BindStartRaises, BindFailed, outVars, TypeOK, Joining, Recording
<1>11. ASSUME NEW p \in Binders, RebindRelease(p) PROVE PendingInv'
  <2>1. old[p] \in Gens => hookOut[old[p]] = <<>>
    BY <1>11 DEF RebindRelease, Joined
  <2>2. hookOut' = hookOut /\ live' = live /\ stray' = stray
    BY <1>11 DEF RebindRelease, listenVars, outVars
  <2>3. \A q \in Binders \ {p} : pc'[q] = pc[q] /\ old'[q] = old[q]
    BY <1>11 DEF RebindRelease, TypeOK
  <2> QED
    BY <2>1, <2>2, <2>3 DEF PendingInv, Gens
<1>12. CASE StopFinishes
    BY <1>12 DEF StopFinishes, Joined, Unhook, PendingInv, rebindVars, outVars, Gens
<1> QED
    BY <1>2, <1>3, <1>4, <1>5, <1>6, <1>7, <1>8, <1>9, <1>10, <1>11, <1>12
    DEF Next, ManagerNext, HookNext, RebindNext, StopNext

LEMMA SilentAlways == Spec => []SilentInv
<1>1. SilentInv /\ [Next]_vars => SilentInv'
    BY ListenerStep, PendingStep, QuietStep DEF SilentInv
<1> QED
    BY <1>1, SilentInit, PTL DEF Spec

\* After a stop that abandons the chord (application shutdown) nothing is
\* published any more, no late press, and no release made up for the chord, but what
\* the hook of a listener whose start() raised had computed before that.
THEOREM ShutdownStaysSilent == Spec => ShutdownIsSilent
<1>1. SilentInv /\ [Next]_vars =>
        (stopper.at = "stopped" /\ ~stopper.finalize /\ ManagerNext
             => Len(bus') <= Len(bus) \/ \E g \in stray : HookPublish(g))
  <2> SUFFICES ASSUME SilentInv, ManagerNext, stopper.at = "stopped", ~stopper.finalize,
                      \A g \in stray : ~HookPublish(g)
               PROVE  Len(bus') <= Len(bus)
    OBVIOUS
  <2> USE DEF SilentInv, ListenerInv
  <2>1. \A p \in Binders : pc[p] = "idle"
    BY DEF QuietInv, LockInv, Holding, Binding, Recording, Binders, Watchdog, Session, Starter
  <2>2. live \subseteq stray /\ ~started
    BY StopRemoves DEF LockInv, NoListenerAfterStop
  <2>3. \A g \in Gens : ~HookPublish(g)
    BY <2>1, <2>2 DEF PendingInv, Joining, Recording, HookPublish
  <2>4. bus' = bus
    BY <2>1, <2>2, <2>3
    DEF ManagerNext, HookNext, RebindNext, DogNext, StopNext, vars, ChordAges,
        Start, SetActivationMode, SessionResume, PressHold, PressToggle, ReleaseHold,
        ReleaseToggle, ListenerDies, CallbackReady, Accepts, RebindReturns,
        RebindDetach, BindListener, BindRecords, BindFails, BindStartRaises, BindFailed,
        RebindRelease, DogClearsStuck, DogChecks, DogRebindsOldListener, DogReportsOk,
        DogBacksOff, DogRestarts, StopTakes, StopFinishes, Binders
  <2> QED
    BY <2>4 DEF TypeOK
<1> QED
    BY <1>1, SilentAlways, PTL DEF Spec, ShutdownIsSilent

-----------------------------------------------------------------------------
(* The push-to-talk loop: the manager and the worker that reads its events *)

\* An event is somewhere in a queue; a press of a mode is there, and no release of
\* it behind it.
Has(s, e) == \E i \in DOMAIN s : s[i] = e
Unanswered(s, m) ==
    \E i \in DOMAIN s : s[i] = Pressed(m) /\ \A j \in DOMAIN s : j > i => s[j] # Released(m)

\* A press is not a release, and each of them tells its mode.
LEMMA EventsDiffer ==
    \A m, n : /\ Pressed(m) # Released(n)
              /\ Pressed(m) = Pressed(n) => m = n
              /\ Released(m) = Released(n) => m = n
              /\ Wake(m) # Pressed(n) /\ Wake(m) # Released(n)
BY DEF Pressed, Released, Wake

\* What an append to a queue adds to it.
LEMMA AppendAdds ==
    ASSUME NEW s \in Seq(Event), NEW e \in Event
    PROVE  /\ \A x : Has(Append(s, e), x) <=> Has(s, x) \/ x = e
           /\ \A m : Unanswered(Append(s, e), m) =>
                 /\ Unanswered(s, m) \/ e = Pressed(m)
                 /\ e # Released(m)
<1>1. /\ Len(Append(s, e)) = Len(s) + 1 /\ Append(s, e)[Len(s) + 1] = e
      /\ \A i \in 1..Len(s) : Append(s, e)[i] = s[i]
      /\ DOMAIN s = 1..Len(s) /\ DOMAIN Append(s, e) = 1..(Len(s) + 1)
      /\ Len(s) \in Nat
    OBVIOUS
<1>2. ASSUME NEW x PROVE Has(Append(s, e), x) <=> Has(s, x) \/ x = e
    BY <1>1 DEF Has
<1>3. ASSUME NEW m, Unanswered(Append(s, e), m)
      PROVE  (Unanswered(s, m) \/ e = Pressed(m)) /\ e # Released(m)
  <2>1. PICK i \in DOMAIN Append(s, e) :
           /\ Append(s, e)[i] = Pressed(m)
           /\ \A j \in DOMAIN Append(s, e) : j > i => Append(s, e)[j] # Released(m)
    BY <1>3 DEF Unanswered
  <2>2. CASE i = Len(s) + 1
    BY <1>1, <2>1, <2>2, EventsDiffer
  <2>3. CASE i \in DOMAIN s
    <3>1. e # Released(m)
      BY <1>1, <2>1, <2>3
    <3>2. s[i] = Pressed(m) /\ \A j \in DOMAIN s : j > i => s[j] # Released(m)
      BY <1>1, <2>1, <2>3
    <3> QED
      BY <2>3, <3>1, <3>2 DEF Unanswered
  <2> QED
    BY <1>1, <2>1, <2>2, <2>3
<1> QED
    BY <1>2, <1>3

\* What taking the oldest event leaves in a queue.
LEMMA TailLeaves ==
    ASSUME NEW s \in Seq(Event), s # <<>>
    PROVE  /\ \A x : /\ Has(s, x) => Has(Tail(s), x) \/ Head(s) = x
                     /\ Has(Tail(s), x) => Has(s, x)
           /\ Has(s, Head(s))
           /\ \A m : /\ Unanswered(Tail(s), m) => Unanswered(s, m)
                     /\ Head(s) = Pressed(m) => Unanswered(s, m) \/ Has(Tail(s), Released(m))
<1>1. /\ Len(s) \in Nat \ {0} /\ Head(s) = s[1]
      /\ DOMAIN s = 1..Len(s) /\ DOMAIN Tail(s) = 1..(Len(s) - 1)
      /\ \A i \in 1..(Len(s) - 1) : Tail(s)[i] = s[i + 1]
    OBVIOUS
<1>2. ASSUME NEW i \in DOMAIN s, i > 1 PROVE i - 1 \in DOMAIN Tail(s) /\ Tail(s)[i - 1] = s[i]
    BY <1>1, <1>2
<1>3. ASSUME NEW x, Has(s, x), Head(s) # x PROVE Has(Tail(s), x)
  <2>1. PICK i \in DOMAIN s : s[i] = x
    BY <1>3 DEF Has
  <2>2. i > 1
    BY <1>1, <1>3, <2>1
  <2> QED
    BY <1>2, <2>1, <2>2 DEF Has
<1>4. ASSUME NEW x, Has(Tail(s), x) PROVE Has(s, x)
  <2>1. PICK i \in DOMAIN Tail(s) : Tail(s)[i] = x
    BY <1>4 DEF Has
  <2>2. i + 1 \in DOMAIN s /\ s[i + 1] = x
    BY <1>1, <2>1
  <2> QED
    BY <2>2 DEF Has
<1>5. ASSUME NEW m, Unanswered(Tail(s), m) PROVE Unanswered(s, m)
  <2>1. PICK i \in DOMAIN Tail(s) :
           /\ Tail(s)[i] = Pressed(m)
           /\ \A j \in DOMAIN Tail(s) : j > i => Tail(s)[j] # Released(m)
    BY <1>5 DEF Unanswered
  <2>2. i + 1 \in DOMAIN s /\ s[i + 1] = Pressed(m)
    BY <1>1, <2>1
  <2>3. ASSUME NEW j \in DOMAIN s, j > i + 1 PROVE s[j] # Released(m)
    <3>1. j - 1 \in DOMAIN Tail(s) /\ Tail(s)[j - 1] = s[j] /\ j - 1 > i
      BY <1>1, <1>2, <2>1, <2>3
    <3> QED
      BY <2>1, <3>1
  <2> QED
    BY <2>2, <2>3 DEF Unanswered
<1>6. ASSUME NEW m, Head(s) = Pressed(m), ~Has(Tail(s), Released(m)) PROVE Unanswered(s, m)
  <2>1. ASSUME NEW j \in DOMAIN s, j > 1 PROVE s[j] # Released(m)
    BY <1>2, <1>6, <2>1 DEF Has
  <2>2. 1 \in DOMAIN s /\ s[1] = Pressed(m)
    BY <1>1, <1>6
  <2> QED
    BY <2>1, <2>2 DEF Unanswered
<1>7. Has(s, Head(s))
    BY <1>1 DEF Has
<1> QED
    BY <1>3, <1>4, <1>5, <1>6, <1>7

\* Every step is one of the manager, which leaves the worker alone, or one of the
\* worker and its timers, which takes from the bus, puts on it, or leaves it.
LEMMA LoopSteps ==
    ASSUME PttTypeOK, PttNext
    PROVE  \/ ManagerNext /\ UNCHANGED workerVars
           \/ UNCHANGED managerVars /\ bus' \in Seq(Event)
<1>0. bus \in Seq(Event) /\ Dictation \in Modes
    BY PushToTalkAssumption DEF PttTypeOK, TypeOK
<1>1. bus # <<>> => Tail(bus) \in Seq(Event)
    BY <1>0
<1>2. \A m \in Modes : Append(bus, Released(m)) \in Seq(Event) /\ Append(bus, Wake(m)) \in Seq(Event)
  <2> TAKE m \in Modes
  <2>1. Released(m) \in Event /\ Wake(m) \in Event
    BY DEF Released, Wake, Event
  <2> QED
    BY <1>0, <2>1
<1>3. ASSUME WorkerNext PROVE UNCHANGED managerVars /\ bus' \in Seq(Event)
    BY <1>0, <1>1, <1>3 DEF WorkerNext, HandlePress, HandleRelease, HandleWake, FinishProcessing,
       Takes, vars, managerVars, chordVars, listenVars, lifeVars, healthVars, rebindVars, outVars
<1>4. ASSUME TimerNext \/ WakeWordDetected PROVE UNCHANGED managerVars /\ bus' \in Seq(Event)
    BY <1>0, <1>2, <1>4 DEF TimerNext, TimerFires, TimerPublishes, WatchEnds, WakeWordDetected, vars,
       managerVars, chordVars, listenVars, lifeVars, healthVars, rebindVars, outVars
<1> QED
    BY <1>3, <1>4 DEF PttNext

\* The worker's reading of the bus does not touch the listener.
LEMMA PttListenerStep == PttTypeOK /\ ListenerInv /\ [PttNext]_pttVars => ListenerInv'
<1> SUFFICES ASSUME PttTypeOK, ListenerInv, [PttNext]_pttVars PROVE ListenerInv'
    OBVIOUS
<1>1. CASE UNCHANGED managerVars /\ bus' \in Seq(Event)
    BY <1>1 DEF ListenerInv, TypeOK, LockInv, HookInv, managerVars, chordVars, listenVars, lifeVars,
       healthVars, rebindVars, outVars
<1>2. CASE ManagerNext
    BY <1>2, ListenerStep DEF Next
<1>3. CASE UNCHANGED pttVars
    BY <1>3, ListenerStep DEF pttVars
<1> QED
    BY <1>1, <1>2, <1>3, LoopSteps

\* The worker's own variables keep their types.
LEMMA PttTypeStep == PttTypeOK /\ ListenerInv /\ [PttNext]_pttVars => PttTypeOK'
<1> SUFFICES ASSUME PttTypeOK, ListenerInv, [PttNext]_pttVars PROVE PttTypeOK'
    OBVIOUS
<1>1. TypeOK'
    BY PttListenerStep DEF ListenerInv
<1>2. /\ rec' \in Modes \cup {NoMode} /\ busy' \in BOOLEAN /\ timer' \in Modes \cup {NoMode}
      /\ firing' \in SUBSET Modes /\ watch' \in BOOLEAN
  <2> USE DEF PttTypeOK
  <2>1. CASE UNCHANGED workerVars
    BY <2>1 DEF workerVars
  <2>2. CASE WorkerNext
    BY <2>2, PushToTalkAssumption DEF WorkerNext, HandlePress, HandleRelease, HandleWake,
       FinishProcessing, Record
  <2>3. CASE TimerNext
    BY <2>3 DEF TimerNext, TimerFires, TimerPublishes, WatchEnds
  <2> QED
    BY <2>1, <2>2, <2>3 DEF PttNext, pttVars, WakeWordDetected
<1> QED
    BY <1>1, <1>2 DEF PttTypeOK

PttBase == PttTypeOK /\ ListenerInv

LEMMA PttBaseInit == PttInit => PttBase
    BY ListenerInit DEF PttInit, PttBase, PttTypeOK, ListenerInv

LEMMA PttBaseStep == PttBase /\ [PttNext]_pttVars => PttBase'
    BY PttTypeStep, PttListenerStep DEF PttBase

\* Every variable of the manager and of the worker keeps its type.
THEOREM PttTypes == PttSpec => []PttTypeOK
<1>1. PttBase => PttTypeOK
    BY DEF PttBase
<1> QED
    BY <1>1, PttBaseInit, PttBaseStep, PTL DEF PttSpec

\* The reader of the bus and its timers do not disturb what the theorems above say
\* of the manager: they hold of the whole loop.
THEOREM LoopKeepsHooks == PttSpec => [](NoListenerAfterStop /\ OneCurrentListener)
<1>1. ListenerInv => OneCurrentListener
    BY DEF ListenerInv, LockInv, HookInv, TypeOK, Gens, OneCurrentListener, Holding,
           Recording,
           Binders, Watchdog, Session, Starter
<1>2. PttBase => NoListenerAfterStop /\ OneCurrentListener
    BY <1>1, StopRemoves DEF PttBase
<1> QED
    BY <1>2, PttBaseInit, PttBaseStep, PTL DEF PttSpec

-----------------------------------------------------------------------------
(* A recording that no active chord will end is about to be ended *)

\* Without voice.mode.set, or with one chord only, a chord that is active is never
\* taken for another one.
OneMode == \A m, n \in Modes : m = n
Steady == ModeSwitch => OneMode

\* What the threads of the manager carry from their lock to their publish: the chord
\* that a rebind took until it has published, one release of the watchdog; and an
\* active chord belongs to the current hook, whose events an aged one has outlived,
\* or to one that was dropped when its start() raised.
CarryInv ==
    /\ \A p \in Binders : pc[p] \notin Holding \cup Joining => was[p] = NoMode
    /\ \A p \in Binders : pc[p] \in Binding => old[p] < gen \/ old[p] = 0
    /\ \A g \in Gens : g > gen => hookOut[g] = <<>>
    /\ dogOut # <<>> => pc[Watchdog] = "check" /\ \E m \in Modes : dogOut = <<Released(m)>>
    /\ aged => \A g \in Gens : hookOut[g] = <<>>
    /\ active # NoMode =>
          /\ started /\ \A p \in Binders : pc[p] \notin Binding
          /\ \/ bound = gen
             \/ \E p \in Binders : pc[p] \in Recording
             \/ bound = 0 /\ (gen \in Gens => hookOut[gen] = <<>>)
    /\ ~ModeSwitch => (mode = "toggle" /\ active # NoMode => toggleRecording)

\* The manager steps that touch neither the listener nor the bus's readers.
LEMMA CarryStep == PttBase /\ CarryInv /\ [Next]_vars => CarryInv'
<1> SUFFICES ASSUME TypeOK, ListenerInv, CarryInv, [Next]_vars PROVE CarryInv'
    BY DEF PttBase, ListenerInv
<1>0. /\ Watchdog \in Binders /\ Session \in Binders /\ Starter \in Binders
      /\ Watchdog # Session /\ Starter # Watchdog /\ Starter # Session
      /\ gen \in Nat /\ bound \in Nat /\ hookOut \in [Gens -> Seq(Event)] /\ Gens \subseteq Nat \ {0}
      /\ pc \in [Binders -> {"idle", "check", "healthy", "down", "rebind", "rebindIdle",
                               "bind", "bindIdle", "record", "recordIdle", "join", "joinFailed"}]
      /\ was \in [Binders -> Modes \cup {NoMode}] /\ old \in [Binders -> 0..MaxGen]
      /\ Binders = {Watchdog, Session, Starter} /\ NoMode \notin Modes
    BY HotkeysAssumption DEF Binders, Watchdog, Session, Starter, TypeOK, Gens
<1> USE DEF Holding, Binding, Recording, Joining
<1>1. CASE UNCHANGED vars \/ BusDelivers
    BY <1>1 DEF CarryInv, vars, BusDelivers, chordVars, listenVars, lifeVars, healthVars, rebindVars,
       outVars
<1>2. ASSUME NEW g \in Gens, NEW k \in Keys, PressHold(g, k) \/ PressToggle(g, k)
      PROVE  CarryInv'
  <2>1. /\ g \in live /\ started /\ ~stopped /\ g = gen /\ hookOut[g] = <<>>
        /\ UNCHANGED <<listenVars, lifeVars, rebindVars, dogOut, mode>>
    BY <1>2 DEF PressHold, PressToggle, CallbackReady, Accepts
  <2>2. \/ lifecycle = "free" /\ g = bound
        \/ \E p \in Binders : pc[p] \in Recording
    BY <1>0, <2>1 DEF ListenerInv, HookInv, LockInv, TypeOK, CarryInv
  <2>3. \A p \in Binders : pc[p] \notin Binding
    BY <1>0, <2>1, <2>2 DEF ListenerInv, HookInv, LockInv, CarryInv, Binders, Watchdog, Session, Starter
  <2>4. \/ UNCHANGED <<active, aged, hookOut>>
        \/ aged' = FALSE /\ \A h \in Gens \ {g} : hookOut'[h] = hookOut[h]
    BY <1>0, <1>2 DEF PressHold, PressToggle
  <2>5. ~ModeSwitch => (mode' = "toggle" /\ active' # NoMode => toggleRecording')
    BY <1>2 DEF PressHold, PressToggle, CarryInv, TypeOK
  <2>6. bound = gen \/ \E p \in Binders : pc[p] \in Recording
    BY <1>0, <2>1, <2>2
  <2> QED
    BY <1>0, <2>1, <2>3, <2>4, <2>5, <2>6 DEF CarryInv, listenVars, lifeVars, rebindVars
<1>3. ASSUME NEW g \in Gens, NEW k \in Keys, ReleaseHold(g, k) \/ ReleaseToggle(g, k)
      PROVE  CarryInv'
  <2>1. g = gen /\ UNCHANGED <<listenVars, lifeVars, rebindVars, dogOut, mode, toggleRecording>>
    BY <1>3 DEF ReleaseHold, ReleaseToggle, CallbackReady, Accepts, outVars
  <2>2. \/ UNCHANGED <<active, aged, hookOut>>
        \/ /\ active' = NoMode /\ aged' = FALSE
           /\ \A h \in Gens \ {g} : hookOut'[h] = hookOut[h]
    BY <1>0, <1>3 DEF ReleaseHold, ReleaseToggle, outVars
  <2> QED
    BY <1>0, <2>1, <2>2 DEF CarryInv, listenVars, lifeVars, rebindVars
<1>4. ASSUME NEW g \in Gens, HookPublish(g) \/ ListenerDies(g) PROVE CarryInv'
  <2>1. \A h \in Gens : hookOut[h] = <<>> => hookOut'[h] = <<>>
    BY <1>0, <1>4 DEF HookPublish, ListenerDies, outVars
  <2> QED
    BY <1>4, <2>1 DEF HookPublish, ListenerDies, CarryInv, chordVars, listenVars, lifeVars,
       rebindVars, outVars
<1>5. CASE ChordAges
    BY <1>5 DEF ChordAges, CarryInv, listenVars, lifeVars, rebindVars, outVars
<1>6. CASE \E m \in {"hold", "toggle"} : SetActivationMode(m)
    BY <1>6 DEF SetActivationMode, CarryInv, chordVars, listenVars, lifeVars, rebindVars, outVars
<1>7. CASE Start
  <2>1. active = NoMode /\ lifecycle = "free"
    BY <1>7 DEF Start, CarryInv
  <2>2. \A p \in Binders : pc[p] \notin Holding
    BY <1>0, <2>1 DEF ListenerInv, LockInv, Binders, Watchdog, Session, Starter
  <2> QED
    BY <1>0, <1>7, <2>1, <2>2
    DEF Start, CarryInv, chordVars, listenVars, outVars, ListenerInv, LockInv
<1>8. CASE SessionResume
    BY <1>0, <1>8 DEF SessionResume, CarryInv, chordVars, listenVars, lifeVars, outVars
<1>9. ASSUME NEW p \in Binders, RebindReturns(p) PROVE CarryInv'
    BY <1>0, <1>9 DEF RebindReturns, CarryInv, chordVars, listenVars, lifeVars, outVars
<1>10. ASSUME NEW p \in Binders, RebindDetach(p) PROVE CarryInv'
  <2>1. bound <= gen
    BY <1>0, <1>10 DEF RebindDetach, ListenerInv, HookInv
  <2>2. \A q \in Binders \ {p} : pc[q] \notin Holding
    BY <1>0, <1>10 DEF RebindDetach, ListenerInv, LockInv, Binders, Watchdog, Session, Starter
  <2>3. dogOut = <<>> \/ p # Watchdog
    BY <1>10 DEF RebindDetach, CarryInv
  <2> QED
    BY <1>0, <1>10, <2>1, <2>2, <2>3 DEF RebindDetach, CarryInv, outVars
<1>11. ASSUME NEW p \in Binders, BindListener(p) \/ BindFails(p) PROVE CarryInv'
  <2>1. active = NoMode
    BY <1>11 DEF BindListener, BindFails, CarryInv
  <2>2. \A q \in Binders \ {p} : pc[q] \notin Holding
    BY <1>0, <1>11 DEF BindListener, BindFails, ListenerInv, LockInv, Binders, Watchdog, Session, Starter
  <2>3. dogOut = <<>> \/ p # Watchdog
    BY <1>11 DEF BindListener, BindFails, CarryInv
  <2>4. /\ pc'[p] \in Joining \cup Recording \/ p = Starter
        /\ pc'[p] \notin Binding /\ \A q \in Binders \ {p} : pc'[q] = pc[q]
        /\ UNCHANGED <<mode, active, aged, toggleRecording, was, old, dogOut, hookOut>>
        /\ gen' \in Nat /\ gen' > gen
    BY <1>0, <1>11 DEF BindListener, BindFails, BindFailed, chordVars, outVars
  <2> QED
    BY <1>0, <2>1, <2>2, <2>3, <2>4 DEF CarryInv, ListenerInv, LockInv
<1>12. ASSUME NEW p \in Binders, BindRecords(p) PROVE CarryInv'
  <2>1. dogOut = <<>> \/ p # Watchdog
    BY <1>12 DEF BindRecords, CarryInv
  <2> QED
    BY <1>0, <1>12, <2>1 DEF BindRecords, CarryInv, chordVars, outVars, ListenerInv, LockInv
<1>18. ASSUME NEW p \in Binders, BindStartRaises(p) PROVE CarryInv'
  <2>1. dogOut = <<>> \/ p # Watchdog
    BY <1>18 DEF BindStartRaises, CarryInv
  <2>2. \A q \in Binders \ {p} : pc[q] \notin Holding
    BY <1>0, <1>18 DEF BindStartRaises, ListenerInv, LockInv, Binders, Watchdog, Session, Starter
  <2>3. /\ pc'[p] \in Joining \/ p = Starter
        /\ pc'[p] \notin Holding /\ \A q \in Binders \ {p} : pc'[q] = pc[q]
        /\ UNCHANGED <<mode, active, aged, toggleRecording, was, old, dogOut, hookOut, started>>
        /\ gen' = gen + 1 /\ bound' = 0
    BY <1>0, <1>18 DEF BindStartRaises, BindFailed, chordVars, outVars
  <2> QED
    BY <1>0, <2>1, <2>2, <2>3 DEF CarryInv, ListenerInv, LockInv
<1>13. ASSUME NEW p \in Binders, RebindRelease(p) PROVE CarryInv'
  <2>1. dogOut = <<>> \/ p # Watchdog
    BY <1>13 DEF RebindRelease, CarryInv
  <2> QED
    BY <1>0, <1>13, <2>1 DEF RebindRelease, CarryInv, chordVars, listenVars, lifeVars, outVars
<1>14. CASE DogClearsStuck
  <2>1. dogOut = <<>>
    BY <1>14 DEF DogClearsStuck, CarryInv
  <2>2. active # NoMode /\ aged => dogOut' = <<Released(active)>> /\ active \in Modes
    BY <1>14 DEF DogClearsStuck, TypeOK
  <2> QED
    BY <1>0, <1>14, <2>1, <2>2 DEF DogClearsStuck, CarryInv, listenVars, lifeVars
<1>15. CASE \/ DogChecks \/ DogRebindsOldListener \/ DogReportsOk \/ DogBacksOff \/ DogRestarts
  <2>1. /\ UNCHANGED <<chordVars, listenVars, lifeVars, was, old, hookOut, mode>>
        /\ dogOut' = <<>>
        /\ pc[Watchdog] \notin Holding \cup Joining /\ pc'[Watchdog] \notin Holding \cup Joining
        /\ \A p \in Binders \ {Watchdog} : pc'[p] = pc[p]
    BY <1>0, <1>15 DEF DogChecks, DogRebindsOldListener, DogReportsOk, DogBacksOff, DogRestarts,
       outVars, CarryInv
  <2> QED
    BY <1>0, <2>1 DEF CarryInv, chordVars, listenVars, lifeVars
<1>16. ASSUME NEW f \in BOOLEAN, StopTakes(f) PROVE CarryInv'
  <2>1. \A p \in Binders : pc[p] \notin Holding
    BY <1>0, <1>16 DEF StopTakes, ListenerInv, LockInv, Binders, Watchdog, Session, Starter
  <2> QED
    BY <1>0, <1>16, <2>1 DEF StopTakes, CarryInv, rebindVars, outVars
<1>17. CASE StopFinishes
    BY <1>17 DEF StopFinishes, CarryInv, chordVars, lifeVars, rebindVars, outVars
<1> QED
    BY <1>1, <1>2, <1>3, <1>4, <1>5, <1>6, <1>7, <1>8, <1>9, <1>10, <1>11, <1>12, <1>13, <1>14,
       <1>15, <1>16, <1>17, <1>18
    DEF Next, ManagerNext, HookNext, RebindNext, DogNext, StopNext

\* A stop that finalises still has the release of its chord to publish.
Finalising(m) == stopper.at = "stopping" /\ stopper.finalize /\ stopper.was = m

\* A press that a hook thread has still to publish is of the active chord, or of
\* one whose release waits for that thread; for nobody waits for the thread of a
\* listener that was dropped, this needs that none was fenced with an event to publish.
PressedInv ==
    Serving /\ Timely => \A g \in Gens, m \in Modes : Has(hookOut[g], Pressed(m)) =>
        \/ active = m /\ g = gen
        \/ \E p \in Binders : was[p] = m /\ old[p] = g
        \/ Finalising(m) /\ stopper.old = g

\* A recording of this mode will be ended: the chord is active, or its release is
\* under way to the bus.
Owed(m) ==
    \/ active = m
    \/ \E g \in Gens : Has(hookOut[g], Released(m))
    \/ Has(dogOut, Released(m))
    \/ \E p \in Binders : was[p] = m
    \/ Finalising(m)

\* Short queues, event by event.
LEMMA HasShort ==
    /\ \A x : ~Has(<<>>, x)
    /\ \A e, x : Has(<<e>>, x) <=> x = e
    /\ \A d, e, x : Has(<<d, e>>, x) <=> x = d \/ x = e
BY DEF Has

\* What a callback adds: its events are of the chord that it ends or makes active.
LEMMA CallbackEvents ==
    ASSUME TypeOK, NEW g \in Gens, NEW k \in Keys,
           \/ PressHold(g, k) \/ PressToggle(g, k) \/ ReleaseHold(g, k) \/ ReleaseToggle(g, k)
    PROVE  /\ g = gen /\ started /\ hookOut[g] = <<>>
           /\ UNCHANGED <<gen, listenVars, lifeVars, rebindVars, dogOut, stopper, bus>>
           /\ \A h \in Gens \ {g} : hookOut'[h] = hookOut[h]
           /\ \A m \in Modes : Has(hookOut'[g], Pressed(m)) => active' = m
           /\ \A m \in Modes : ~Has(hookOut'[g], Wake(m))
           /\ active' # active /\ active # NoMode =>
                 \/ Has(hookOut'[g], Released(active))
                 \/ mode = "toggle" /\ ~toggleRecording /\ active' # NoMode
<1>0. hookOut \in [Gens -> Seq(Event)] /\ NoMode \notin Modes
    BY HotkeysAssumption DEF TypeOK
<1> USE DEF listenVars, rebindVars, outVars
<1>1. CASE PressHold(g, k)
  <2>1. CASE UNCHANGED <<active, hookOut>>
    BY <1>0, <1>1, <2>1, HasShort DEF PressHold, CallbackReady, Accepts
  <2>2. CASE ~(UNCHANGED <<active, hookOut>>)
    <3> DEFINE next == BestMatch(pressed')
    <3>1. /\ active' = next
          /\ hookOut' = [hookOut EXCEPT ![g] =
                (IF active = NoMode THEN <<>> ELSE <<Released(active)>>) \o <<Pressed(next)>>]
      BY <1>1, <2>2 DEF PressHold
    <3>2. hookOut'[g] = IF active = NoMode THEN <<Pressed(next)>>
                        ELSE <<Released(active), Pressed(next)>>
      BY <1>0, <3>1
    <3>3. /\ \A m \in Modes : Has(hookOut'[g], Pressed(m)) => active' = m
          /\ \A m \in Modes : ~Has(hookOut'[g], Wake(m))
          /\ active # NoMode => Has(hookOut'[g], Released(active))
      BY <3>1, <3>2, HasShort, EventsDiffer
    <3> QED
      BY <1>0, <1>1, <3>1, <3>3 DEF PressHold, CallbackReady, Accepts
  <2> QED
    BY <2>1, <2>2
<1>2. CASE PressToggle(g, k)
  <2>1. CASE UNCHANGED <<active, hookOut>>
    BY <1>0, <1>2, <2>1, HasShort DEF PressToggle, CallbackReady, Accepts
  <2>2. CASE ~(UNCHANGED <<active, hookOut>>)
    <3> DEFINE next == BestMatch(pressed')
               stopping == IF active = NoMode THEN next ELSE active
    <3>1. /\ active' = IF toggleRecording THEN NoMode ELSE next
          /\ hookOut' = [hookOut EXCEPT ![g] =
                <<IF toggleRecording THEN Released(stopping) ELSE Pressed(next)>>]
      BY <1>2, <2>2 DEF PressToggle
    <3>2. hookOut'[g] = IF toggleRecording THEN <<Released(stopping)>> ELSE <<Pressed(next)>>
      BY <1>0, <3>1
    <3>3. /\ \A m \in Modes : Has(hookOut'[g], Pressed(m)) => active' = m
          /\ \A m \in Modes : ~Has(hookOut'[g], Wake(m))
          /\ active # NoMode /\ toggleRecording => Has(hookOut'[g], Released(active))
      BY <3>1, <3>2, HasShort, EventsDiffer
    <3>4. next # NoMode
      BY <1>2, <2>2 DEF PressToggle
    <3> QED
      BY <1>0, <1>2, <3>1, <3>3, <3>4 DEF PressToggle, CallbackReady, Accepts
  <2> QED
    BY <2>1, <2>2
<1>3. CASE ReleaseHold(g, k)
  <2>1. CASE UNCHANGED <<active, hookOut>>
    BY <1>0, <1>3, <2>1, HasShort DEF ReleaseHold, CallbackReady, Accepts
  <2>2. CASE active' = NoMode /\ hookOut' = [hookOut EXCEPT ![g] = <<Released(active)>>]
    <3>1. hookOut'[g] = <<Released(active)>>
      BY <1>0, <2>2
    <3>2. /\ \A m \in Modes : ~Has(hookOut'[g], Pressed(m)) /\ ~Has(hookOut'[g], Wake(m))
          /\ Has(hookOut'[g], Released(active))
      BY <3>1, HasShort, EventsDiffer
    <3> QED
      BY <1>0, <1>3, <2>2, <3>2 DEF ReleaseHold, CallbackReady, Accepts
  <2> QED
    BY <1>3, <2>1, <2>2 DEF ReleaseHold
<1>4. CASE ReleaseToggle(g, k)
    BY <1>0, <1>4, HasShort DEF ReleaseToggle, CallbackReady, Accepts
<1> QED
    BY <1>1, <1>2, <1>3, <1>4

\* Publishing takes from the front of what a hook thread holds, and dying keeps it.
LEMMA PublishKeeps ==
    ASSUME TypeOK, NEW g \in Gens, HookPublish(g)
    PROVE  /\ hookOut[g] # <<>> /\ bus' = Append(bus, Head(hookOut[g]))
           /\ Head(hookOut[g]) \in Event /\ Has(hookOut[g], Head(hookOut[g]))
           /\ \A x : \A h \in Gens :
                 /\ Has(hookOut'[h], x) => Has(hookOut[h], x)
                 /\ Has(hookOut[h], x) =>
                       Has(hookOut'[h], x) \/ (h = g /\ x = Head(hookOut[g]))
<1>1. /\ hookOut[g] # <<>> /\ hookOut[g] \in Seq(Event) /\ bus' = Append(bus, Head(hookOut[g]))
      /\ hookOut'[g] = Tail(hookOut[g]) /\ \A h \in Gens \ {g} : hookOut'[h] = hookOut[h]
    BY DEF HookPublish, TypeOK
<1>2. Head(hookOut[g]) \in Event
    BY <1>1
<1> QED
    BY <1>1, <1>2, TailLeaves

\* What was fenced with an event to publish stays so.
LEMMA TimelyBefore == ManagerNext /\ Timely' => Timely
    BY DEF Timely, ManagerNext, HookNext, RebindNext, DogNext, StopNext, PressHold, PressToggle,
       ReleaseHold, ReleaseToggle, HookPublish, ListenerDies, ChordAges, SessionResume,
       SetActivationMode, Start, RebindReturns, RebindDetach, RebindRelease, BindListener,
       BindRecords, BindFails, BindFailed, BindStartRaises, DogClearsStuck, DogChecks,
       DogRebindsOldListener, DogReportsOk, DogBacksOff, DogRestarts, StopTakes, StopFinishes,
       listenVars

\* Whoever takes the chord from a hook takes the hook with it, and waits for its
\* events before the release.
LEMMA PressedStep ==
    PttBase /\ CarryInv /\ PressedInv /\ ManagerNext => PressedInv'
<1> SUFFICES ASSUME TypeOK, ListenerInv, CarryInv, PressedInv, ManagerNext, Serving', Timely'
             PROVE  \A g \in Gens, m \in Modes : Has(hookOut'[g], Pressed(m)) =>
                       \/ active' = m /\ g = gen'
                       \/ \E p \in Binders : was'[p] = m /\ old'[p] = g
                       \/ Finalising(m)' /\ stopper'.old = g
    BY DEF PttBase, ListenerInv, PressedInv
<1> DEFINE Covered(g, m) ==
        \/ active' = m /\ g = gen'
        \/ \E p \in Binders : was'[p] = m /\ old'[p] = g
        \/ Finalising(m)' /\ stopper'.old = g
<1>0. /\ Watchdog \in Binders /\ Session \in Binders /\ Watchdog # Session
      /\ gen \in Nat /\ bound \in Nat /\ hookOut \in [Gens -> Seq(Event)] /\ Gens \subseteq Nat \ {0}
      /\ was \in [Binders -> Modes \cup {NoMode}] /\ old \in [Binders -> 0..MaxGen]
      /\ NoMode \notin Modes /\ stopper \in Stopper /\ stopped \in BOOLEAN
    BY HotkeysAssumption DEF Binders, Watchdog, Session, Starter, TypeOK, Gens
<1>t. Timely
    BY TimelyBefore
<1> USE DEF Finalising, Holding, Binding, Recording, Joining
<1>a. ASSUME Serving, UNCHANGED <<active, gen, was, old, stopper>>,
             \A g \in Gens, m \in Modes : Has(hookOut'[g], Pressed(m)) => Has(hookOut[g], Pressed(m))
      PROVE  \A g \in Gens, m \in Modes : Has(hookOut'[g], Pressed(m)) => Covered(g, m)
    BY <1>t, <1>a DEF PressedInv
<1>b. ASSUME Serving, UNCHANGED hookOut, UNCHANGED <<was, old, stopper>>, active = NoMode
      PROVE  \A g \in Gens, m \in Modes : Has(hookOut'[g], Pressed(m)) => Covered(g, m)
    BY <1>t, <1>0, <1>b DEF PressedInv
<1>1. ASSUME NEW h \in Gens, NEW k \in Keys,
             \/ PressHold(h, k) \/ PressToggle(h, k) \/ ReleaseHold(h, k) \/ ReleaseToggle(h, k),
             NEW g \in Gens, NEW m \in Modes, Has(hookOut'[g], Pressed(m))
      PROVE  Covered(g, m)
  <2>1. CASE g = h
    BY <1>1, <2>1, CallbackEvents
  <2>2. CASE g # h
    BY <1>t, <1>1, <2>2, CallbackEvents DEF PressedInv, Serving, lifeVars, rebindVars
  <2> QED
    BY <2>1, <2>2
<1>2. ASSUME NEW h \in Gens, HookPublish(h) \/ ListenerDies(h)
      PROVE  \A g \in Gens, m \in Modes : Has(hookOut'[g], Pressed(m)) => Covered(g, m)
    BY <1>a, <1>2, PublishKeeps DEF HookPublish, ListenerDies, Serving, chordVars, listenVars, lifeVars,
       rebindVars, outVars
<1>3. CASE \/ ChordAges \/ SessionResume \/ (\E m \in {"hold", "toggle"} : SetActivationMode(m))
    BY <1>a, <1>3 DEF ChordAges, SessionResume, SetActivationMode, Serving, chordVars, listenVars,
       lifeVars, rebindVars, outVars
<1>4. CASE Start
    BY <1>b, <1>4 DEF Start, CarryInv, Serving, chordVars, listenVars, outVars
<1>5. ASSUME NEW p \in Binders, RebindReturns(p) \/ BindRecords(p)
      PROVE  \A g \in Gens, m \in Modes : Has(hookOut'[g], Pressed(m)) => Covered(g, m)
    BY <1>a, <1>5 DEF RebindReturns, BindRecords, Serving, chordVars, listenVars, lifeVars, outVars
<1>6. ASSUME NEW p \in Binders, RebindDetach(p), NEW g \in Gens, NEW m \in Modes,
             Has(hookOut'[g], Pressed(m))
      PROVE  Covered(g, m)
  <2>1. /\ UNCHANGED <<hookOut, stopper, stopped>> /\ was[p] = NoMode
        /\ was'[p] = active /\ old'[p] = bound
        /\ \A q \in Binders \ {p} : was'[q] = was[q] /\ old'[q] = old[q]
    BY <1>0, <1>6 DEF RebindDetach, outVars, CarryInv
  <2>2. active # NoMode => bound = gen \/ (gen \in Gens => hookOut[gen] = <<>>)
    BY <1>0, <1>6 DEF RebindDetach, CarryInv, ListenerInv, LockInv, Binders, Watchdog, Session, Starter
  <2>3. \/ active = m /\ g = gen
        \/ \E q \in Binders : was[q] = m /\ old[q] = g
        \/ Finalising(m) /\ stopper.old = g
    BY <1>t, <1>6, <2>1 DEF PressedInv, Serving
  <2>4. CASE active = m /\ g = gen
    BY <1>0, <1>6, <2>1, <2>2, <2>4, HasShort
  <2>5. CASE \E q \in Binders : was[q] = m /\ old[q] = g
    BY <1>0, <1>6, <2>1, <2>5
  <2>6. CASE Finalising(m) /\ stopper.old = g
    BY <2>1, <2>6
  <2> QED
    BY <2>3, <2>4, <2>5, <2>6
<1>7. ASSUME NEW p \in Binders, BindListener(p) \/ BindFails(p)
      PROVE  \A g \in Gens, m \in Modes : Has(hookOut'[g], Pressed(m)) => Covered(g, m)
    BY <1>b, <1>7 DEF BindListener, BindFails, BindFailed, CarryInv, Serving, lifeVars, outVars
<1>13. ASSUME NEW p \in Binders, BindStartRaises(p), NEW g \in Gens, NEW m \in Modes,
              Has(hookOut'[g], Pressed(m))
       PROVE  Covered(g, m)
  <2>1. /\ UNCHANGED <<active, hookOut, was, old, stopper, stopped>>
        /\ gen \in Gens => hookOut[gen] = <<>>
    BY <1>13 DEF BindStartRaises, BindFailed, chordVars, outVars, Timely
  <2>2. g # gen
    BY <1>13, <2>1, HasShort
  <2> QED
    BY <1>t, <1>13, <2>1, <2>2 DEF PressedInv, Serving
<1>8. ASSUME NEW p \in Binders, RebindRelease(p), NEW g \in Gens, NEW m \in Modes,
             Has(hookOut'[g], Pressed(m))
      PROVE  Covered(g, m)
  <2>1. /\ UNCHANGED <<active, gen, stopper, stopped, hookOut>>
        /\ old[p] \in Gens => hookOut[old[p]] = <<>>
        /\ \A q \in Binders \ {p} : was'[q] = was[q] /\ old'[q] = old[q]
    BY <1>0, <1>8 DEF RebindRelease, Joined, chordVars, listenVars, lifeVars, outVars
  <2>2. g # old[p]
    BY <1>8, <2>1, HasShort
  <2> QED
    BY SMTT(30), <1>t, <1>0, <1>8, <2>1, <2>2 DEF PressedInv, Serving
<1>9. CASE DogClearsStuck
  <2>1. CASE active # NoMode /\ aged
    BY <1>9, <2>1, HasShort DEF DogClearsStuck, CarryInv
  <2>2. CASE ~(active # NoMode /\ aged)
    BY <1>a, <1>9, <2>2 DEF DogClearsStuck, Serving, listenVars, lifeVars
  <2> QED
    BY <2>1, <2>2
<1>10. CASE \/ DogChecks \/ DogRebindsOldListener \/ DogReportsOk \/ DogBacksOff \/ DogRestarts
    BY <1>a, <1>10 DEF DogChecks, DogRebindsOldListener, DogReportsOk, DogBacksOff, DogRestarts,
       Serving, chordVars, listenVars, lifeVars, outVars
<1>11. ASSUME NEW f \in BOOLEAN, StopTakes(f), NEW g \in Gens, NEW m \in Modes,
              Has(hookOut'[g], Pressed(m))
       PROVE  Covered(g, m)
  <2>1. /\ UNCHANGED <<hookOut, was, old>> /\ f /\ ~stopped
        /\ stopper'.at = "stopping" /\ stopper'.finalize /\ stopper'.was = active
        /\ stopper'.old = bound
    BY <1>11 DEF StopTakes, rebindVars, outVars, Serving
  <2>2. active # NoMode => bound = gen \/ (gen \in Gens => hookOut[gen] = <<>>)
    BY <1>0, <1>11 DEF StopTakes, CarryInv, ListenerInv, LockInv, Binders, Watchdog, Session, Starter
  <2>3. ~(stopper.at = "stopping")
    BY <2>1 DEF ListenerInv, LockInv
  <2> QED
    BY <1>t, <1>0, <1>11, <2>1, <2>2, <2>3, HasShort DEF PressedInv, Serving
<1>12. ASSUME StopFinishes, NEW g \in Gens, NEW m \in Modes, Has(hookOut'[g], Pressed(m))
       PROVE  Covered(g, m)
  <2>1. /\ UNCHANGED <<active, gen, hookOut, was, old, stopped>>
        /\ stopper.old \in Gens => hookOut[stopper.old] = <<>>
        /\ stopper'.finalize = stopper.finalize
    BY <1>0, <1>12 DEF StopFinishes, Joined, chordVars, lifeVars, rebindVars, outVars, Stopper
  <2>2. g # stopper.old
    BY <1>12, <2>1, HasShort
  <2> QED
    BY <1>t, <1>12, <2>1, <2>2 DEF PressedInv, Serving
<1> QED
    BY <1>1, <1>2, <1>3, <1>4, <1>5, <1>6, <1>7, <1>8, <1>9, <1>10, <1>11, <1>12,
       <1>13
    DEF ManagerNext, HookNext, RebindNext, DogNext, StopNext

\* No hook thread publishes a wake event.
WakesInv == \A g \in Gens, m \in Modes : ~Has(hookOut[g], Wake(m))

LEMMA WakesStep == PttBase /\ CarryInv /\ WakesInv /\ ManagerNext => WakesInv'
<1> SUFFICES ASSUME TypeOK, WakesInv, ManagerNext PROVE WakesInv'
    BY DEF PttBase, ListenerInv
<1>1. ASSUME NEW h \in Gens, NEW k \in Keys,
             \/ PressHold(h, k) \/ PressToggle(h, k) \/ ReleaseHold(h, k) \/ ReleaseToggle(h, k)
      PROVE  WakesInv'
  <2>1. \A g \in Gens \ {h} : hookOut'[g] = hookOut[g]
    BY <1>1, CallbackEvents
  <2>2. \A m \in Modes : ~Has(hookOut'[h], Wake(m))
    BY <1>1, CallbackEvents
  <2> QED
    BY <2>1, <2>2 DEF WakesInv
<1>2. ASSUME NEW h \in Gens, HookPublish(h) PROVE WakesInv'
    BY <1>2, PublishKeeps DEF WakesInv
<1>3. CASE UNCHANGED hookOut
    BY <1>3 DEF WakesInv
<1> QED
    BY <1>1, <1>2, <1>3
    DEF ManagerNext, HookNext, RebindNext, DogNext, StopNext, ListenerDies, ChordAges, SessionResume,
        SetActivationMode, Start, RebindReturns, BindRecords, RebindDetach, BindListener,
        BindFails, BindFailed, BindStartRaises, RebindRelease, DogClearsStuck, DogChecks, DogRebindsOldListener,
        DogReportsOk, DogBacksOff, DogRestarts, StopTakes, StopFinishes, outVars

\* The manager only ever adds one event to the bus: a hook thread's next one, or
\* the release of a chord that was taken from the hook.
LEMMA ManagerAppends ==
    ASSUME PttBase, CarryInv, ManagerNext
    PROVE  \/ bus' = bus
           \/ \E m \in Modes : bus' = Append(bus, Released(m))
           \/ \E g \in Gens : HookPublish(g)
<1>0. /\ TypeOK /\ bus \in Seq(Event) /\ was \in [Binders -> Modes \cup {NoMode}]
      /\ stopper.was \in Modes \cup {NoMode}
    BY DEF PttBase, PttTypeOK, TypeOK, Stopper
<1>1. ASSUME NEW p \in Binders, RebindRelease(p)
      PROVE  bus' = bus \/ \E m \in Modes : bus' = Append(bus, Released(m))
    BY <1>0, <1>1 DEF RebindRelease, PublishRelease
<1>2. CASE StopFinishes
    BY <1>0, <1>2 DEF StopFinishes, PublishRelease
<1>3. CASE DogChecks
  <2>1. CASE dogOut = <<>>
    BY <1>0, <1>3, <2>1 DEF DogChecks
  <2>2. CASE \E m \in Modes : dogOut = <<Released(m)>>
    <3>1. PICK m \in Modes : dogOut = <<Released(m)>>
      BY <2>2
    <3>2. bus' = bus \o <<Released(m)>> /\ Released(m) \in Event
      BY <1>3, <3>1, EventTypes DEF DogChecks
    <3>3. bus' = Append(bus, Released(m))
      BY <1>0, <3>2
    <3> QED
      BY <3>3
  <2> QED
    BY <2>1, <2>2 DEF CarryInv
<1>4. CASE \E g \in Gens : HookPublish(g)
    BY <1>4
<1>5. CASE UNCHANGED bus
    BY <1>5
<1> QED
    BY <1>1, <1>2, <1>3, <1>4, <1>5
    DEF ManagerNext, HookNext, RebindNext, DogNext, StopNext, PressHold, PressToggle, ReleaseHold,
        ReleaseToggle, ListenerDies, ChordAges, SessionResume, SetActivationMode, Start,
        RebindReturns, BindRecords, RebindDetach, BindListener, BindFails, BindFailed, BindStartRaises, DogClearsStuck,
        DogRebindsOldListener, DogReportsOk, DogBacksOff, DogRestarts, StopTakes

\* A stop that finalises was preceded by a manager that served.
LEMMA ServesBefore == PttBase /\ ManagerNext /\ Serving' => Serving
<1> SUFFICES ASSUME ListenerInv, ManagerNext, Serving', stopped PROVE stopper.finalize
    BY DEF PttBase, Serving
<1>1. CASE UNCHANGED <<stopped, stopper>>
    BY <1>1 DEF Serving
<1>2. CASE StopFinishes
    BY <1>2 DEF StopFinishes, lifeVars, Serving, ListenerInv, TypeOK, Stopper
<1> QED
    BY <1>1, <1>2
    DEF ManagerNext, HookNext, RebindNext, DogNext, StopNext, PressHold, PressToggle, ReleaseHold,
        ReleaseToggle, HookPublish, ListenerDies, ChordAges, SessionResume, SetActivationMode, Start,
        RebindReturns, BindRecords, RebindDetach, BindListener, BindFails, BindFailed, BindStartRaises, RebindRelease,
        DogClearsStuck, DogChecks, DogRebindsOldListener, DogReportsOk, DogBacksOff, DogRestarts,
        StopTakes, lifeVars

\* An owed release stays owed until it is on the bus.
LEMMA OwedStep ==
    ASSUME PttBase, CarryInv, Steady, ManagerNext, Serving', NEW m \in Modes, Owed(m)
    PROVE  Owed(m)' \/ bus' = Append(bus, Released(m))
<1>0. /\ TypeOK /\ ListenerInv /\ TypeOK' /\ m # NoMode
      /\ Watchdog \in Binders /\ hookOut \in [Gens -> Seq(Event)] /\ bus \in Seq(Event)
      /\ was \in [Binders -> Modes \cup {NoMode}] /\ stopper \in Stopper
  <2>1. ListenerInv'
    BY ListenerStep DEF PttBase, Next
  <2> QED
    BY <2>1, HotkeysAssumption DEF PttBase, ListenerInv, TypeOK, Binders, Watchdog
<1> USE DEF Finalising
<1>a. ASSUME UNCHANGED <<active, dogOut, was, stopper>>,
             \A g \in Gens : Has(hookOut[g], Released(m)) => Has(hookOut'[g], Released(m))
      PROVE  Owed(m)'
    BY <1>a DEF Owed
<1>1. ASSUME NEW h \in Gens, NEW k \in Keys,
             \/ PressHold(h, k) \/ PressToggle(h, k) \/ ReleaseHold(h, k) \/ ReleaseToggle(h, k)
      PROVE  Owed(m)'
  <2>1. /\ UNCHANGED <<rebindVars, dogOut, stopper>> /\ hookOut[h] = <<>>
        /\ \A g \in Gens \ {h} : hookOut'[g] = hookOut[g]
    BY <1>0, <1>1, CallbackEvents
  <2>2. \A g \in Gens : Has(hookOut[g], Released(m)) => Has(hookOut'[g], Released(m))
    BY <2>1, HasShort
  <2>3. CASE active = m
    <3>1. ~(mode = "toggle" /\ ~toggleRecording /\ active' # NoMode) \/ active' = active
      BY <1>0, <2>3 DEF Steady, OneMode, CarryInv, TypeOK
    <3>2. active' = active \/ Has(hookOut'[h], Released(m))
      BY <1>0, <1>1, <2>3, <3>1, CallbackEvents
    <3> QED
      BY <2>3, <3>2 DEF Owed
  <2>4. CASE active # m
    BY <2>1, <2>2, <2>4 DEF Owed, rebindVars
  <2> QED
    BY <2>3, <2>4
<1>2. ASSUME NEW h \in Gens, HookPublish(h)
      PROVE  Owed(m)' \/ bus' = Append(bus, Released(m))
  <2>1. /\ bus' = Append(bus, Head(hookOut[h]))
        /\ \A g \in Gens : Has(hookOut[g], Released(m)) =>
              Has(hookOut'[g], Released(m)) \/ Released(m) = Head(hookOut[h])
    BY <1>0, <1>2, PublishKeeps
  <2>2. UNCHANGED <<active, dogOut, was, stopper>>
    BY <1>2 DEF HookPublish, chordVars, rebindVars
  <2> QED
    BY <1>a, <2>1, <2>2
<1>3. CASE UNCHANGED <<active, outVars, was, stopper>>
    BY <1>3 DEF Owed, outVars
<1>4. ASSUME NEW p \in Binders, RebindDetach(p) PROVE Owed(m)'
  <2>1. was[p] = NoMode
    BY <1>4 DEF RebindDetach, CarryInv, Holding, Binding, Recording, Joining
  <2>2. /\ was'[p] = active /\ \A q \in Binders \ {p} : was'[q] = was[q]
        /\ UNCHANGED <<outVars, stopper>>
    BY <1>0, <1>4 DEF RebindDetach
  <2> QED
    BY <1>0, <2>1, <2>2 DEF Owed, outVars
<1>5. ASSUME NEW p \in Binders, RebindRelease(p)
      PROVE  Owed(m)' \/ bus' = Append(bus, Released(m))
  <2>1. /\ \A q \in Binders \ {p} : was'[q] = was[q] /\ UNCHANGED <<active, outVars, stopper>>
        /\ was[p] = m => bus' = Append(bus, Released(m))
    BY <1>0, <1>5 DEF RebindRelease, PublishRelease, chordVars
  <2>2. UNCHANGED <<active, outVars, stopper>>
    BY <1>5 DEF RebindRelease, chordVars
  <2> QED
    BY <2>1, <2>2 DEF Owed, outVars
<1>6. CASE DogClearsStuck
  <2>1. dogOut = <<>>
    BY <1>6 DEF DogClearsStuck, CarryInv
  <2>2. CASE active # NoMode /\ aged
    BY <1>0, <1>6, <2>1, <2>2, HasShort DEF DogClearsStuck, Owed
  <2>3. CASE ~(active # NoMode /\ aged)
    BY <1>6, <2>3 DEF DogClearsStuck, Owed
  <2> QED
    BY <2>2, <2>3
<1>7. CASE DogChecks
  <2>1. UNCHANGED <<active, hookOut, was, stopper>>
    BY <1>7 DEF DogChecks, chordVars
  <2>2. CASE Has(dogOut, Released(m))
    <3>1. dogOut = <<Released(m)>>
      BY <2>2, HasShort, EventsDiffer DEF CarryInv
    <3>2. bus' = Append(bus, Released(m))
      BY <1>0, <1>7, <3>1, EventTypes DEF DogChecks
    <3> QED
      BY <3>2
  <2>3. CASE ~Has(dogOut, Released(m))
    BY <2>1, <2>3 DEF Owed
  <2> QED
    BY <2>2, <2>3
<1>8. CASE DogRebindsOldListener \/ DogReportsOk \/ DogBacksOff \/ DogRestarts
    BY <1>3, <1>8 DEF DogRebindsOldListener, DogReportsOk, DogBacksOff, DogRestarts, chordVars
<1>9. ASSUME NEW f \in BOOLEAN, StopTakes(f) PROVE Owed(m)'
  <2>1. UNCHANGED <<outVars, was>> /\ f /\ ~stopped
    BY <1>9 DEF StopTakes, rebindVars, Serving
  <2>2. stopper'.at = "stopping" /\ stopper'.finalize /\ stopper'.was = active
    BY <1>9, <2>1 DEF StopTakes
  <2>3. ~(stopper.at = "stopping")
    BY <1>0, <2>1 DEF ListenerInv, LockInv
  <2> QED
    BY <2>1, <2>2, <2>3 DEF Owed, outVars
<1>10. CASE StopFinishes
  <2>1. UNCHANGED <<active, outVars, was>>
    BY <1>10 DEF StopFinishes, chordVars, rebindVars
  <2>2. Finalising(m) => bus' = Append(bus, Released(m))
    BY <1>0, <1>10 DEF StopFinishes, PublishRelease
  <2> QED
    BY <2>1, <2>2 DEF Owed, outVars
<1> QED
    BY <1>1, <1>2, <1>3, <1>4, <1>5, <1>6, <1>7, <1>8, <1>9, <1>10
    DEF ManagerNext, HookNext, RebindNext, DogNext, StopNext, ListenerDies, ChordAges, SessionResume,
        SetActivationMode, Start, RebindReturns, BindRecords, BindListener, BindFails, BindFailed, BindStartRaises,
        chordVars, rebindVars

\* A press is published while its release is owed.
LEMMA PressIsOwed ==
    ASSUME PttBase, PressedInv, Serving, Timely, NEW g \in Gens, HookPublish(g),
           NEW m \in Modes, Head(hookOut[g]) = Pressed(m)
    PROVE  Owed(m)'
<1>1. Has(hookOut[g], Pressed(m))
    BY PublishKeeps DEF PttBase, ListenerInv
<1>2. active = m \/ (\E p \in Binders : was[p] = m) \/ Finalising(m)
    BY <1>1 DEF PressedInv
<1> QED
    BY <1>2 DEF HookPublish, chordVars, rebindVars, Owed, Finalising

\* No wake word: every press that the bus still holds with no release behind it, and
\* the recording that is on, are of a mode whose release is owed or on the bus.
BusInv ==
    Serving /\ Timely /\ ~WakeWord =>
        /\ \A m \in Modes : ~Has(bus, Wake(m))
        /\ \A m \in Modes : Unanswered(bus, m) => Owed(m)
RecInv ==
    Serving /\ Timely /\ ~WakeWord /\ rec # NoMode => Owed(rec) \/ Has(bus, Released(rec))

LoopInv == PttBase /\ CarryInv /\ PressedInv /\ WakesInv /\ BusInv /\ RecInv

LEMMA LoopInit == PttInit => LoopInv
<1> SUFFICES ASSUME PttInit PROVE LoopInv
    OBVIOUS
<1>1. PttBase
    BY PttBaseInit
<1>2. /\ active = NoMode /\ ~aged /\ dogOut = <<>> /\ bus = <<>> /\ rec = NoMode
      /\ \A g \in Gens : hookOut[g] = <<>>
      /\ \A p \in Binders : was[p] = NoMode /\ pc[p] = "idle"
    BY DEF PttInit, Init
<1>3. CarryInv
    BY <1>2 DEF CarryInv, Holding, Binding, Recording, Joining
<1>4. PressedInv /\ WakesInv
    BY <1>2, HasShort DEF PressedInv, WakesInv
<1>5. BusInv /\ RecInv
    BY <1>2 DEF BusInv, RecInv, Has, Unanswered
<1> QED
    BY <1>1, <1>3, <1>4, <1>5 DEF LoopInv

\* One append changes a queue, and tells what was appended.
LEMMA AppendsAgree ==
    ASSUME NEW s \in Seq(Event), NEW d \in Event, NEW e \in Event
    PROVE  Append(s, d) # s /\ (Append(s, d) = Append(s, e) => d = e)
<1>1. /\ Len(Append(s, d)) = Len(s) + 1 /\ Len(s) \in Nat
      /\ Append(s, d)[Len(s) + 1] = d /\ Append(s, e)[Len(s) + 1] = e
    OBVIOUS
<1> QED
    BY <1>1

\* A step of the manager: what it adds to the bus.
LEMMA ManagerLoopStep ==
    ASSUME Steady, LoopInv, ManagerNext, UNCHANGED workerVars
    PROVE  BusInv' /\ RecInv'
<1> SUFFICES ASSUME Serving', Timely', ~WakeWord
             PROVE  /\ \A m \in Modes : ~Has(bus', Wake(m))
                    /\ \A m \in Modes : Unanswered(bus', m) => Owed(m)'
                    /\ rec # NoMode => Owed(rec)' \/ Has(bus', Released(rec))
    BY DEF BusInv, RecInv, workerVars, Owed, Finalising
<1>1. Serving /\ Timely
    BY ServesBefore, TimelyBefore DEF LoopInv
<1>2. /\ \A m \in Modes : ~Has(bus, Wake(m))
      /\ \A m \in Modes : Unanswered(bus, m) => Owed(m)
      /\ rec # NoMode => Owed(rec) \/ Has(bus, Released(rec))
    BY <1>1 DEF LoopInv, BusInv, RecInv
<1>3. /\ TypeOK /\ bus \in Seq(Event) /\ rec \in Modes \cup {NoMode}
      /\ PttBase /\ CarryInv /\ PressedInv /\ WakesInv /\ rec' = rec
    BY DEF LoopInv, PttBase, PttTypeOK, TypeOK, workerVars
<1>4. \A m \in Modes : Owed(m) => Owed(m)' \/ bus' = Append(bus, Released(m))
    BY <1>3, OwedStep
<1>5. CASE bus' = bus
  <2>1. \A m \in Modes : Append(bus, Released(m)) # bus
    BY <1>3, EventTypes, AppendsAgree
  <2> QED
    BY <1>2, <1>3, <1>4, <1>5, <2>1
<1>6. ASSUME NEW e \in Event, bus' = Append(bus, e), \A m \in Modes : e # Wake(m),
             \A m \in Modes : e = Pressed(m) => Owed(m)'
      PROVE  /\ \A m \in Modes : ~Has(bus', Wake(m))
             /\ \A m \in Modes : Unanswered(bus', m) => Owed(m)'
             /\ rec # NoMode => Owed(rec)' \/ Has(bus', Released(rec))
  <2>1. /\ \A x : Has(bus', x) <=> Has(bus, x) \/ x = e
        /\ \A m : Unanswered(bus', m) => (Unanswered(bus, m) \/ e = Pressed(m)) /\ e # Released(m)
    BY <1>3, <1>6, AppendAdds
  <2>2. \A m \in Modes : bus' = Append(bus, Released(m)) => e = Released(m)
    <3> TAKE m \in Modes
    <3>1. Released(m) \in Event
      BY EventTypes
    <3> QED
      BY <1>3, <1>6, <3>1, AppendsAgree
  <2>3. \A m \in Modes : ~Has(bus', Wake(m))
    BY <1>2, <1>6, <2>1
  <2>4. ASSUME NEW m \in Modes, Unanswered(bus', m) PROVE Owed(m)'
    BY <1>2, <1>4, <1>6, <2>1, <2>2, <2>4
  <2>5. rec # NoMode => Owed(rec)' \/ Has(bus', Released(rec))
    BY <1>2, <1>3, <1>4, <2>1, <2>2
  <2> QED
    BY <2>3, <2>4, <2>5
<1>7. ASSUME NEW m \in Modes, bus' = Append(bus, Released(m))
      PROVE  /\ \A n \in Modes : ~Has(bus', Wake(n))
             /\ \A n \in Modes : Unanswered(bus', n) => Owed(n)'
             /\ rec # NoMode => Owed(rec)' \/ Has(bus', Released(rec))
    BY <1>6, <1>7, EventTypes, EventsDiffer
<1>8. ASSUME NEW g \in Gens, HookPublish(g)
      PROVE  /\ \A n \in Modes : ~Has(bus', Wake(n))
             /\ \A n \in Modes : Unanswered(bus', n) => Owed(n)'
             /\ rec # NoMode => Owed(rec)' \/ Has(bus', Released(rec))
  <2> DEFINE e == Head(hookOut[g])
  <2>1. e \in Event /\ bus' = Append(bus, e) /\ Has(hookOut[g], e)
    BY <1>3, <1>8, PublishKeeps
  <2>2. \A m \in Modes : e # Wake(m)
    BY <1>3, <2>1 DEF WakesInv
  <2>3. \A m \in Modes : e = Pressed(m) => Owed(m)'
    BY <1>1, <1>3, <1>8, PressIsOwed
  <2> HIDE DEF e
  <2> QED
    BY <1>6, <2>1, <2>2, <2>3
<1> QED
    BY <1>3, <1>5, <1>7, <1>8, ManagerAppends

\* The worker takes the oldest event: after a press its recording is owed a release,
\* or the release is behind it on the bus.
LEMMA WorkerLoopStep ==
    ASSUME LoopInv, UNCHANGED managerVars,
           WorkerNext \/ TimerNext \/ WakeWordDetected \/ UNCHANGED <<bus, rec>>
    PROVE  BusInv' /\ RecInv'
<1> SUFFICES ASSUME Serving, Timely, ~WakeWord
             PROVE  /\ \A m \in Modes : ~Has(bus', Wake(m))
                    /\ \A m \in Modes : Unanswered(bus', m) => Owed(m)
                    /\ rec' # NoMode => Owed(rec') \/ Has(bus', Released(rec'))
    BY DEF BusInv, RecInv, Owed, Finalising, Serving, Timely, managerVars, chordVars, listenVars,
       lifeVars, rebindVars, outVars
<1> DEFINE Goal == /\ \A m \in Modes : ~Has(bus', Wake(m))
                   /\ \A m \in Modes : Unanswered(bus', m) => Owed(m)
                   /\ rec' # NoMode => Owed(rec') \/ Has(bus', Released(rec'))
<1>1. /\ \A m \in Modes : ~Has(bus, Wake(m))
      /\ \A m \in Modes : Unanswered(bus, m) => Owed(m)
      /\ rec # NoMode => Owed(rec) \/ Has(bus, Released(rec))
    BY DEF LoopInv, BusInv, RecInv
<1>2. bus \in Seq(Event) /\ rec \in Modes \cup {NoMode} /\ Dictation \in Modes
    BY PushToTalkAssumption DEF LoopInv, PttBase, PttTypeOK, TypeOK
<1>3. CASE UNCHANGED <<bus, rec>>
    BY <1>1, <1>3
<1>4. ASSUME NEW m \in Modes, bus' = Append(bus, Released(m)), UNCHANGED rec
      PROVE  Goal
  <2>1. /\ \A x : Has(bus', x) <=> Has(bus, x) \/ x = Released(m)
        /\ \A n : Unanswered(bus', n) => Unanswered(bus, n) \/ Released(m) = Pressed(n)
    BY <1>2, <1>4, EventTypes, AppendAdds
  <2> QED
    BY <1>1, <1>4, <2>1, EventsDiffer
<1>5. ASSUME NEW m \in Modes, HandlePress(m) \/ HandleRelease(m) \/ HandleWake
      PROVE  Goal
  <2>1. /\ bus # <<>> /\ bus' = Tail(bus)
    BY <1>5 DEF HandlePress, HandleRelease, HandleWake, Takes
  <2>2. /\ \A x : (Has(bus, x) => Has(bus', x) \/ Head(bus) = x) /\ (Has(bus', x) => Has(bus, x))
        /\ Has(bus, Head(bus))
        /\ \A n : Unanswered(bus', n) => Unanswered(bus, n)
        /\ \A n : Head(bus) = Pressed(n) => Unanswered(bus, n) \/ Has(bus', Released(n))
    BY <1>2, <2>1, TailLeaves
  <2>3. /\ \A n \in Modes : ~Has(bus', Wake(n))
        /\ \A n \in Modes : Unanswered(bus', n) => Owed(n)
    BY <1>1, <2>2
  <2>4. ASSUME HandlePress(m) PROVE rec' # NoMode => Owed(rec') \/ Has(bus', Released(rec'))
    <3>1. Head(bus) = Pressed(m)
      BY <2>4 DEF HandlePress, Takes, Pressed
    <3>2. rec' \in {m, NoMode} \/ rec' = rec
      BY <2>4 DEF HandlePress, Record
    <3>3. Owed(m) \/ Has(bus', Released(m))
      BY <1>1, <2>2, <3>1
    <3>4. rec # NoMode => Owed(rec) \/ Has(bus', Released(rec))
      BY <1>1, <2>2, <3>1, EventsDiffer
    <3> QED
      BY <3>2, <3>3, <3>4
  <2>5. ASSUME HandleRelease(m) PROVE rec' # NoMode => Owed(rec') \/ Has(bus', Released(rec'))
    <3>1. Head(bus) = Released(m)
      BY <2>5 DEF HandleRelease, Takes, Released
    <3>2. rec' # NoMode => rec' = rec /\ rec # m
      BY <2>5 DEF HandleRelease
    <3>3. rec # NoMode /\ rec # m => Owed(rec) \/ Has(bus', Released(rec))
      BY <1>1, <2>2, <3>1, EventsDiffer
    <3> QED
      BY <3>2, <3>3
  <2>6. ~HandleWake
    <3>1. HandleWake => Head(bus) = Wake(Dictation)
      BY DEF HandleWake, Takes, Wake
    <3> QED
      BY <1>1, <1>2, <2>2, <3>1
  <2> QED
    BY <1>5, <2>3, <2>4, <2>5, <2>6
<1>6. CASE TimerNext
    BY <1>2, <1>3, <1>4, <1>6 DEF TimerNext, TimerFires, TimerPublishes, WatchEnds, vars
<1>7. ~WakeWordDetected
    BY DEF WakeWordDetected
<1>8. CASE WorkerNext
  <2>1. CASE FinishProcessing
    BY <1>3, <2>1 DEF FinishProcessing, vars
  <2> QED
    BY <1>2, <1>5, <1>8, <2>1 DEF WorkerNext
<1> QED
    BY <1>3, <1>6, <1>7, <1>8

LEMMA LoopStep == Steady /\ LoopInv /\ [PttNext]_pttVars => LoopInv'
<1> SUFFICES ASSUME Steady, LoopInv, [PttNext]_pttVars PROVE LoopInv'
    OBVIOUS
<1>1. PttBase'
    BY PttBaseStep DEF LoopInv
<1>2. CASE ManagerNext /\ UNCHANGED workerVars
  <2>1. CarryInv'
    BY <1>2, CarryStep DEF LoopInv, Next
  <2>2. PressedInv' /\ WakesInv'
    BY <1>2, PressedStep, WakesStep DEF LoopInv
  <2> QED
    BY <1>1, <1>2, <2>1, <2>2, ManagerLoopStep DEF LoopInv
<1>3. CASE /\ UNCHANGED managerVars
           /\ WorkerNext \/ TimerNext \/ WakeWordDetected \/ UNCHANGED <<bus, rec>>
  <2>1. CarryInv' /\ PressedInv' /\ WakesInv'
    BY <1>3 DEF LoopInv, CarryInv, PressedInv, WakesInv, Finalising, Serving, Timely, managerVars, chordVars,
       listenVars, lifeVars, rebindVars, outVars
  <2> QED
    BY <1>1, <1>3, <2>1, WorkerLoopStep DEF LoopInv
<1>4. PttNext => \/ ManagerNext /\ UNCHANGED workerVars
                 \/ UNCHANGED managerVars /\ (WorkerNext \/ TimerNext \/ WakeWordDetected)
    BY DEF PttNext, WorkerNext, TimerNext, HandlePress, HandleRelease, HandleWake, FinishProcessing,
       TimerFires, TimerPublishes, WatchEnds, WakeWordDetected, vars, managerVars, chordVars,
       listenVars, lifeVars, healthVars, rebindVars, outVars
<1>5. CASE UNCHANGED pttVars
    BY <1>3, <1>5 DEF pttVars, vars, managerVars, chordVars, listenVars, lifeVars, healthVars,
       rebindVars, outVars, workerVars
<1> QED
    BY <1>2, <1>3, <1>4, <1>5

\* Without a wake word the microphone is not left open: with no chord active and
\* nothing on its way to the bus nothing is recorded, however hooks died, were
\* rebound or timed out, and whatever the order in which their threads published;
\* unless a listener was dropped that still had an event to publish.
\* With voice.mode.set it is stated of a single chord: see the README.
THEOREM ReleasesEndRecordings ==
    ASSUME Steady
    PROVE  PttSpec => []ReleaseEndsRecording
<1>1. LoopInv => ReleaseEndsRecording
  <2> SUFFICES ASSUME LoopInv, Serving, Timely, Quiet, ~WakeWord, rec # NoMode PROVE active = rec
      BY DEF ReleaseEndsRecording
  <2>1. Owed(rec)
    BY DEF LoopInv, RecInv, Quiet, Has
  <2>2. \A p \in Binders : was[p] = NoMode
    BY DEF LoopInv, CarryInv, Quiet, Holding, Binding, Recording, Joining
  <2> QED
    BY <2>1, <2>2, HasShort DEF Owed, Finalising, Quiet
<1> QED
    BY <1>1, LoopInit, LoopStep, PTL DEF PttSpec

-----------------------------------------------------------------------------
(* The auto-stop timer *)

\* With one chord the timer of a recording is armed, or has fired and its release is
\* under way; with several, a release of another one cancels it.
BoundedInv ==
    OneMode /\ rec # NoMode => timer = rec \/ rec \in firing \/ Has(bus, Released(rec))

LEMMA BoundedStep ==
    PttBase /\ CarryInv /\ BoundedInv /\ [PttNext]_pttVars => BoundedInv'
<1> SUFFICES ASSUME PttBase, CarryInv, BoundedInv, [PttNext]_pttVars, OneMode, rec' # NoMode
             PROVE  timer' = rec' \/ rec' \in firing' \/ Has(bus', Released(rec'))
    BY DEF BoundedInv
<1>0. /\ TypeOK /\ bus \in Seq(Event) /\ rec \in Modes \cup {NoMode} /\ Dictation \in Modes
      /\ rec # NoMode => timer = rec \/ rec \in firing \/ Has(bus, Released(rec))
    BY PushToTalkAssumption DEF PttBase, PttTypeOK, TypeOK, BoundedInv
<1>a. ASSUME NEW e \in Event, bus' = Append(bus, e) PROVE \A x : Has(bus', x) <=> Has(bus, x) \/ x = e
    BY <1>0, <1>a, AppendAdds
<1>1. CASE ManagerNext /\ UNCHANGED workerVars
  <2>1. \A x : Has(bus, x) => Has(bus', x)
    <3>1. ASSUME NEW m \in Modes, bus' = Append(bus, Released(m)) PROVE \A x : Has(bus, x) => Has(bus', x)
      BY <1>a, <3>1, EventTypes
    <3>2. ASSUME NEW g \in Gens, HookPublish(g) PROVE \A x : Has(bus, x) => Has(bus', x)
      BY <1>0, <1>a, <3>2, PublishKeeps
    <3> QED
      BY <1>1, <3>1, <3>2, ManagerAppends
  <2> QED
    BY <1>0, <1>1, <2>1 DEF workerVars
<1>2. ASSUME NEW m \in Modes, HandlePress(m) \/ HandleRelease(m) \/ HandleWake
      PROVE  timer' = rec' \/ rec' \in firing' \/ Has(bus', Released(rec'))
  <2>1. CASE rec \in {NoMode, m} /\ HandlePress(m)
    BY <2>1 DEF HandlePress, Record
  <2>2. CASE rec = NoMode /\ HandleWake
    BY <2>2 DEF HandleWake, Record
  <2>3. CASE HandleRelease(m)
    BY <1>0, <2>3 DEF HandleRelease, OneMode
  <2>4. CASE (HandlePress(m) /\ rec \notin {NoMode, m}) \/ (HandleWake /\ rec # NoMode)
    <3>1. /\ bus # <<>> /\ bus' = Tail(bus) /\ UNCHANGED <<rec, timer, firing>>
          /\ Head(bus) = Pressed(m) \/ Head(bus) = Wake(Dictation)
      BY <2>4 DEF HandlePress, HandleWake, Takes, Pressed, Wake
    <3>2. Has(bus, Released(rec)) => Has(bus', Released(rec))
      BY <1>0, <3>1, TailLeaves, EventsDiffer
    <3> QED
      BY <1>0, <3>1, <3>2
  <2> QED
    BY <1>2, <2>1, <2>2, <2>3, <2>4
<1>3. CASE FinishProcessing \/ TimerFires
    BY <1>0, <1>3 DEF FinishProcessing, TimerFires, vars
<1>4. ASSUME NEW m \in Modes, TimerPublishes(m)
      PROVE  timer' = rec' \/ rec' \in firing' \/ Has(bus', Released(rec'))
  <2>1. \A x : Has(bus', x) <=> Has(bus, x) \/ x = Released(m)
    BY <1>a, <1>4, EventTypes DEF TimerPublishes
  <2> QED
    BY <1>0, <1>4, <2>1 DEF TimerPublishes
<1>5. CASE WatchEnds
  <2>1. \A x : Has(bus', x) <=> Has(bus, x) \/ x = Released(Dictation)
    BY <1>0, <1>a, <1>5, EventTypes DEF WatchEnds
  <2> QED
    BY <1>0, <1>5, <2>1 DEF WatchEnds
<1>6. CASE WakeWordDetected
  <2>1. Wake(Dictation) \in Event
    BY <1>0 DEF Wake, Event
  <2>2. \A x : Has(bus', x) <=> Has(bus, x) \/ x = Wake(Dictation)
    BY <1>a, <1>6, <2>1 DEF WakeWordDetected
  <2> QED
    BY <1>0, <1>6, <2>2 DEF WakeWordDetected, workerVars
<1>7. CASE UNCHANGED pttVars
    BY <1>0, <1>7 DEF pttVars, vars, workerVars
<1> QED
    BY <1>0, <1>1, <1>2, <1>3, <1>4, <1>5, <1>6, <1>7 DEF PttNext, WorkerNext, TimerNext

\* A recording that no active chord will end is bounded by its own timer: with one
\* chord; and with several when only chords can start a recording, the activation
\* mode stays, and no listener was dropped that still had an event to publish.
THEOREM RecordingsAreBounded ==
    ASSUME OneMode \/ (~WakeWord /\ ~ModeSwitch)
    PROVE  PttSpec => [](OneMode \/ Timely => RecordingIsBounded)
<1> DEFINE Inv == LoopInv /\ BoundedInv
<1>1. PttInit => Inv
    BY LoopInit DEF PttInit, BoundedInv
<1>2. Inv /\ [PttNext]_pttVars => Inv'
    BY LoopStep, BoundedStep DEF LoopInv, Steady
<1>3. Inv => (OneMode \/ Timely => RecordingIsBounded)
  <2> SUFFICES ASSUME Inv, OneMode \/ Timely, Serving, Quiet, rec # NoMode, active # rec
               PROVE  timer = rec
      BY DEF RecordingIsBounded
  <2>1. CASE OneMode
    BY <2>1 DEF BoundedInv, Quiet, Has
  <2>2. CASE ~WakeWord /\ Timely
    <3>1. Owed(rec)
      BY <2>2 DEF LoopInv, RecInv, Quiet, Has
    <3>2. \A p \in Binders : was[p] = NoMode
      BY DEF LoopInv, CarryInv, Quiet, Holding, Binding, Recording, Joining
    <3> QED
      BY <3>1, <3>2, HasShort DEF Owed, Finalising, Quiet
  <2> QED
    BY <2>1, <2>2
<1> QED
    BY <1>1, <1>2, <1>3, PTL DEF PttSpec
=============================================================================
