--------------------------- MODULE CaptureProofs ---------------------------
(***************************************************************************)
(* Theorems of Capture, for any inputs, any number of watchers and holds,  *)
(* whether or not opening an input may fail and watchers outlive a join.   *)
(***************************************************************************)
EXTENDS Capture, TLAPS

\* The input that the settings name is the next to be opened and the only one open.
DeviceInv == configured # Default => device = configured /\ stream \in {configured, Closed}

\* While the generation is valid, the ring of a hold has no block of an earlier one, and
\* no callback that may still write to the ring carries one.
BlockInv ==
    /\ OwnAudio
    /\ at \in {"closing", "closed"} => stopped
    /\ ~stopped =>
        /\ Held => ring \subseteq {0, hold}
        /\ Held /\ callback.on /\ callback.bound => callback.block \in {0, hold}
        /\ ~Held /\ stream # Closed /\ callback.on /\ callback.bound => callback.block = 0

\* As long as nothing has outlived its join: a hold has one watcher and ends with it, and
\* an input that is left for another has been silent and stays closed meanwhile.
WatcherInv ==
    ~late =>
        /\ \A v, w \in Watchers : watcher[v].at # "off" /\ watcher[w].at # "off" => v = w
        /\ at \notin {"recording", "joining"} => \A w \in Watchers : watcher[w].at = "off"
        /\ \A w \in Watchers : watcher[w].at = "listing" => stream = Closed /\ ring = {}
        /\ stream # Closed => Held
        /\ at = "listing" => ~reopens

CaptureInv == TypeOK /\ DeviceInv /\ BlockInv /\ WatcherInv

Callbacks == [on : BOOLEAN, bound : BOOLEAN, block : 0..MaxHolds]
Unbound == [callback EXCEPT !.bound = FALSE]

---------------------------------------------------------------------------
(* What the methods of the microphone do *)

\* Opening an input changes nothing when one is open; else the ring and its callback are new.
LEMMA StartEffect ==
    ASSUME TypeOK, NEW d \in Inputs, StartLocked(d)
    PROVE  /\ stream' \in {stream, d} /\ ring' \in {ring, {}}
           /\ callback' \in {callback, Unbound}
           /\ stream # Closed => stream' = stream /\ ring' = ring /\ callback' = callback
           /\ stream = Closed => callback' = Unbound
<1>1. CASE stream # Closed
  BY <1>1 DEF StartLocked
<1>2. CASE stream = Closed
  BY <1>2 DEF StartLocked, Unbound
<1>. QED BY <1>1, <1>2

\* A failover opens an input only where it found one open, and only while none is; an input
\* that the settings have named meanwhile is the only one it may open.
LEMMA FailoverEffect ==
    ASSUME TypeOK, NEW open \in BOOLEAN, FailoverEnds(open)
    PROVE  /\ device' \in Inputs /\ stream' \in Inputs \cup {Closed} /\ ring' \in {ring, {}}
           /\ callback' \in {callback, Unbound}
           /\ resolution' \in {"none", "auto", "dead"} /\ tried' \in SUBSET Alternates
           /\ configured # Default => device' = device /\ stream' \in {stream, device}
           /\ stream' # stream => open /\ stream = Closed /\ callback' = Unbound
           /\ ~open => ring' = ring
<1>. USE DEF Inputs
<1>0. device \in Inputs /\ Default \in Inputs /\ stream \in Inputs \cup {Closed}
      /\ tried \in SUBSET Alternates /\ resolution \in {"none", "auto", "dead"}
  BY DEF TypeOK
<1>1. CASE KeepsConfigured(open)
  <2>1. UNCHANGED <<device, resolution, tried>> /\ configured # Default
    BY <1>1 DEF KeepsConfigured
  <2>2. IF open THEN StartLocked(device) ELSE UNCHANGED <<stream, ring, callback>>
    BY <1>1 DEF KeepsConfigured
  <2>3. /\ stream' \in {stream, device} /\ ring' \in {ring, {}}
        /\ callback' \in {callback, Unbound}
        /\ stream' # stream => open /\ stream = Closed /\ callback' = Unbound
        /\ ~open => ring' = ring
    BY <1>0, <2>2, StartEffect
  <2>. QED BY <1>0, <2>1, <2>3
<1>2. CASE Selects(open)
  <2>1. PICK c \in Alternates \ tried, failed \in SUBSET (Alternates \ tried) :
            tried' = tried \cup failed \cup {c} /\ device' = c
    BY <1>2 DEF Selects, Chooses
  <2>2. /\ configured = Default /\ resolution' = "auto"
        /\ ring' = IF open THEN {} ELSE ring
        /\ \/ open /\ stream = Closed /\ stream' = device' /\ callback' = Unbound
           \/ UNCHANGED <<stream, callback>>
    BY <1>2 DEF Selects, Chooses, Unbound
  <2>. QED BY <1>0, <2>1, <2>2
<1>3. CASE GivesUp(open)
  <2>1. PICK failed \in SUBSET (Alternates \ tried) : tried' = tried \cup failed
    BY <1>3 DEF GivesUp
  <2>2. configured = Default /\ device' = Default /\ resolution' = "dead"
    BY <1>3 DEF GivesUp
  <2>3. IF open THEN StartLocked(Default) ELSE UNCHANGED <<stream, ring, callback>>
    BY <1>3 DEF GivesUp
  <2>4. /\ stream' \in {stream, Default} /\ ring' \in {ring, {}}
        /\ callback' \in {callback, Unbound}
        /\ stream' # stream => open /\ stream = Closed /\ callback' = Unbound
        /\ ~open => ring' = ring
    BY <1>0, <2>3, StartEffect
  <2>. QED BY <1>0, <2>1, <2>2, <2>4
<1>. QED BY <1>1, <1>2, <1>3 DEF FailoverEnds

LEMMA UnboundType ==
    ASSUME TypeOK
    PROVE  Unbound \in Callbacks /\ ~Unbound.bound /\ callback \in Callbacks
BY DEF TypeOK, Unbound, Callbacks

LEMMA InitCapture == Init => CaptureInv
<1> SUFFICES ASSUME Init PROVE CaptureInv
  OBVIOUS
<1> USE CaptureAssumption DEF Init, NoCallback, Off
<1>1. TypeOK
  <2>1. 0 \in 0..MaxHolds
    OBVIOUS
  <2>2. callback \in [on : BOOLEAN, bound : BOOLEAN, block : 0..MaxHolds]
    BY <2>1
  <2>3. reopens \in BOOLEAN /\ stopped \in BOOLEAN /\ late \in BOOLEAN
    BY Zenon
  <2>. QED BY <2>1, <2>2, <2>3 DEF TypeOK, Inputs
<1>2. DeviceInv /\ BlockInv /\ WatcherInv
  BY DEF DeviceInv, BlockInv, WatcherInv, OwnAudio, Held
<1>. QED BY <1>1, <1>2 DEF CaptureInv

---------------------------------------------------------------------------
(* The actions *)

LEMMA CallbackChecksKeeps == ASSUME CaptureInv, CallbackChecks PROVE CaptureInv'
<1> USE DEF CaptureInv, CallbackChecks, workerVars
<1>1. TypeOK'
  <2>1. (IF Held THEN hold ELSE 0) \in 0..MaxHolds
    BY CaptureAssumption DEF TypeOK
  <2>2. callback' \in [on : BOOLEAN, bound : BOOLEAN, block : 0..MaxHolds]
    BY <2>1
  <2>. QED BY <2>2 DEF TypeOK
<1>2. DeviceInv' /\ WatcherInv'
  BY DEF DeviceInv, WatcherInv, Held
<1>3. BlockInv'
  BY DEF BlockInv, OwnAudio, Held
<1>. QED BY <1>1, <1>2, <1>3

LEMMA CallbackWritesKeeps == ASSUME CaptureInv, CallbackWrites PROVE CaptureInv'
<1> USE DEF CaptureInv
<1>. /\ callback.on /\ callback' = NoCallback
     /\ ring' = IF callback.bound THEN ring \cup {callback.block} ELSE ring
     /\ UNCHANGED <<configured, device, stream, resolution, tried, watcher, hold, at, reopens,
                    utterance, stopped>>
  BY DEF CallbackWrites
<1>0. late' = (late \/ (callback.bound /\ stream = Closed)) /\ late' \in BOOLEAN
  BY DEF CallbackWrites
<1>1. TypeOK'
  <2>1. callback.block \in 0..MaxHolds /\ 0 \in 0..MaxHolds
    BY CaptureAssumption DEF TypeOK
  <2>2. ring' \in SUBSET (0..MaxHolds)
    BY <2>1 DEF TypeOK
  <2>3. callback' \in [on : BOOLEAN, bound : BOOLEAN, block : 0..MaxHolds]
    BY <2>1 DEF NoCallback
  <2>. QED BY <1>0, <2>2, <2>3 DEF TypeOK
<1>2. DeviceInv'
  BY DEF DeviceInv
<1>3. BlockInv'
  BY DEF BlockInv, OwnAudio, Held, NoCallback
<1>4. WatcherInv'
  <2>1. ~late' => ~late /\ (stream = Closed => ring' = ring)
    BY <1>0
  <2>. QED BY <2>1 DEF WatcherInv, Held
<1>. QED BY <1>1, <1>2, <1>3, <1>4

LEMMA SetDeviceKeeps == ASSUME CaptureInv, NEW d \in Inputs, SetDevice(d) PROVE CaptureInv'
<1> USE DEF CaptureInv, SetDevice, workerVars
<1>1. TypeOK'
  BY DEF TypeOK
<1>2. DeviceInv' /\ WatcherInv'
  BY DEF DeviceInv, WatcherInv, Held
<1>3. BlockInv'
  BY DEF BlockInv, OwnAudio, Held
<1>. QED BY <1>1, <1>2, <1>3

LEMMA InterruptKeeps == ASSUME CaptureInv, Interrupt PROVE CaptureInv'
<1> USE DEF CaptureInv, Interrupt, workerVars
<1>1. TypeOK'
  BY DEF TypeOK
<1>2. DeviceInv' /\ WatcherInv'
  BY DEF DeviceInv, WatcherInv, Held
<1>3. BlockInv'
  BY DEF BlockInv, OwnAudio, Held
<1>. QED BY <1>1, <1>2, <1>3

\* A step of a watcher that leaves the microphone alone.
LEMMA WatcherStays ==
    ASSUME CaptureInv, NEW w \in Watchers, NEW place \in {"off", "waiting", "looking"},
           NEW told \in BOOLEAN, NEW open \in BOOLEAN,
           watcher[w].at # "off",
           watcher' = [watcher EXCEPT ![w] = [at |-> place, told |-> told, open |-> open]],
           UNCHANGED <<captureVars, workerVars>>
    PROVE  CaptureInv'
<1> USE DEF CaptureInv, captureVars, workerVars
<1>1. TypeOK'
  BY DEF TypeOK
<1>2. DeviceInv' /\ BlockInv'
  BY DEF DeviceInv, BlockInv, OwnAudio, Held
<1>3. WatcherInv'
  <2>1. watcher'[w].at = place /\ \A v \in Watchers \ {w} : watcher'[v] = watcher[v]
    BY DEF TypeOK
  <2>2. \A v \in Watchers : /\ watcher'[v].at # "off" => watcher[v].at # "off"
                            /\ watcher'[v].at = "listing" => watcher[v].at = "listing"
    BY <2>1
  <2>. QED BY <2>2 DEF WatcherInv, Held
<1>. QED BY <1>1, <1>2, <1>3

LEMMA WatcherKeepsInv ==
    ASSUME CaptureInv, NEW w \in Watchers,
           WatcherLooks(w) \/ WatcherReturns(w) \/ WatcherKeeps(w)
    PROVE  CaptureInv'
<1>1. watcher[w] \in [at : {"off", "waiting", "looking", "listing"}, told : BOOLEAN, open : BOOLEAN]
  BY DEF CaptureInv, TypeOK
<1>2. watcher[w] = [at |-> watcher[w].at, told |-> watcher[w].told, open |-> watcher[w].open]
      /\ watcher[w].told \in BOOLEAN /\ watcher[w].open \in BOOLEAN
  BY <1>1
<1>3. watcher \in [Watchers -> [at : {"off", "waiting", "looking", "listing"},
                                told : BOOLEAN, open : BOOLEAN]]
  BY DEF CaptureInv, TypeOK
<1>4. CASE WatcherLooks(w)
  <2>1. watcher' = [watcher EXCEPT ![w] = [at |-> "looking", told |-> watcher[w].told,
                                           open |-> watcher[w].open]]
    <3>1. [watcher[w] EXCEPT !.at = "looking"] =
              [at |-> "looking", told |-> watcher[w].told, open |-> watcher[w].open]
      BY <1>1
    <3>. QED BY <1>3, <1>4, <3>1 DEF WatcherLooks
  <2>. QED BY <1>2, <1>4, <2>1, WatcherStays DEF WatcherLooks
<1>5. CASE WatcherReturns(w)
  <2>1. watcher' = [watcher EXCEPT ![w] = [at |-> "off", told |-> FALSE, open |-> FALSE]]
    BY <1>5 DEF WatcherReturns, Off
  <2>. QED BY <1>5, <2>1, WatcherStays DEF WatcherReturns
<1>6. CASE WatcherKeeps(w)
  <2>1. watcher' = [watcher EXCEPT ![w] = [at |-> "waiting", told |-> watcher[w].told,
                                           open |-> watcher[w].open]]
    <3>1. [watcher[w] EXCEPT !.at = "waiting"] =
              [at |-> "waiting", told |-> watcher[w].told, open |-> watcher[w].open]
      BY <1>1
    <3>. QED BY <1>3, <1>6, <3>1 DEF WatcherKeeps
  <2>. QED BY <1>2, <1>6, <2>1, WatcherStays DEF WatcherKeeps
<1>. QED BY <1>4, <1>5, <1>6

LEMMA ListingType ==
    ASSUME NEW open \in BOOLEAN,
           NEW r \in [at : {"off", "waiting", "looking", "listing"}, told : BOOLEAN,
                      open : BOOLEAN]
    PROVE  /\ [r EXCEPT !.at = "listing", !.open = open] \in
                  [at : {"off", "waiting", "looking", "listing"}, told : BOOLEAN,
                   open : BOOLEAN]
           /\ [r EXCEPT !.at = "listing", !.open = open].at = "listing"
OBVIOUS

LEMMA WatcherLeavesKeeps ==
    ASSUME CaptureInv, NEW w \in Watchers, WatcherLeaves(w) PROVE CaptureInv'
<1> USE DEF CaptureInv, workerVars
<1>. /\ watcher[w].at = "looking" /\ ring = {} /\ stream' = Closed
     /\ UNCHANGED <<configured, device, ring, callback, resolution, tried, workerVars>>
  BY DEF WatcherLeaves, MayLeave
<1>0. /\ watcher'[w].at = "listing" /\ \A v \in Watchers \ {w} : watcher'[v] = watcher[v]
      /\ watcher' \in [Watchers -> [at : {"off", "waiting", "looking", "listing"},
                                    told : BOOLEAN, open : BOOLEAN]]
  <2>. DEFINE left == [watcher[w] EXCEPT !.at = "listing", !.open = (stream # Closed)]
  <2>1. watcher[w] \in [at : {"off", "waiting", "looking", "listing"}, told : BOOLEAN,
                        open : BOOLEAN]
    BY DEF TypeOK
  <2>2. (stream # Closed) \in BOOLEAN
    BY Zenon
  <2>3. left \in [at : {"off", "waiting", "looking", "listing"}, told : BOOLEAN, open : BOOLEAN]
        /\ left.at = "listing"
    BY <2>1, <2>2, ListingType
  <2>4. watcher' = [watcher EXCEPT ![w] = left]
    BY DEF WatcherLeaves, TypeOK
  <2>. HIDE DEF left
  <2>. QED BY <2>3, <2>4 DEF TypeOK
<1>1. TypeOK'
  BY <1>0 DEF TypeOK
<1>2. DeviceInv' /\ BlockInv'
  BY DEF DeviceInv, BlockInv, OwnAudio, Held
<1>3. WatcherInv'
  BY <1>0 DEF WatcherInv, Held
<1>. QED BY <1>1, <1>2, <1>3

LEMMA WatcherSwitchesKeeps ==
    ASSUME CaptureInv, NEW w \in Watchers, WatcherSwitches(w) PROVE CaptureInv'
<1> USE DEF CaptureInv, workerVars
<1>. /\ watcher[w].at = "listing" /\ FailoverEnds(watcher[w].open)
     /\ UNCHANGED <<configured, workerVars>>
  BY DEF WatcherSwitches
<1>0. /\ watcher'[w].at \in {"off", "waiting"}
      /\ \A v \in Watchers \ {w} : watcher'[v] = watcher[v]
      /\ watcher' \in [Watchers -> [at : {"off", "waiting", "looking", "listing"},
                                    told : BOOLEAN, open : BOOLEAN]]
  BY DEF TypeOK, WatcherSwitches, Off
<1>1. watcher[w].open \in BOOLEAN
  BY DEF TypeOK
<1>2. /\ device' \in Inputs /\ stream' \in Inputs \cup {Closed} /\ ring' \in {ring, {}}
      /\ callback' \in {callback, Unbound}
      /\ resolution' \in {"none", "auto", "dead"} /\ tried' \in SUBSET Alternates
      /\ configured # Default => device' = device /\ stream' \in {stream, device}
      /\ stream' # stream => stream = Closed /\ callback' = Unbound
  BY <1>1, FailoverEffect
<1>3. TypeOK'
  BY <1>0, <1>2, UnboundType DEF TypeOK, Callbacks
<1>4. DeviceInv'
  BY <1>2 DEF DeviceInv
<1>5. BlockInv'
  BY <1>2, UnboundType DEF BlockInv, OwnAudio, Held, TypeOK
<1>6. WatcherInv'
  BY <1>0, <1>2 DEF WatcherInv, Held
<1>. QED BY <1>3, <1>4, <1>5, <1>6

LEMMA PressKeeps == ASSUME CaptureInv, Press PROVE CaptureInv'
<1> USE DEF CaptureInv
<1>. /\ at = "idle" /\ ~stopped /\ hold \in 0..MaxHolds /\ hold < MaxHolds
     /\ hold' = hold + 1 /\ utterance' = {}
     /\ BeginUtterance /\ UNCHANGED <<configured, reopens, stopped, late>>
  BY DEF Press, TypeOK
<1>1. hold' \in 0..MaxHolds
  BY CaptureAssumption
<1>2. /\ device' \in Inputs /\ resolution' \in {"none", "auto", "dead"}
      /\ tried' \in SUBSET Alternates
      /\ configured # Default => device' = device
  BY DEF BeginUtterance, Forgets, TypeOK, Inputs
<1>3. /\ stream' \in {stream, device'} /\ ring' = {} /\ callback' \in {callback, Unbound}
      /\ stream = Closed => callback' = Unbound
      /\ stream # Closed => callback' = callback /\ stream' = stream
  <2>1. CASE stream # Closed
    BY <2>1 DEF BeginUtterance
  <2>2. CASE stream = Closed
    BY <2>2 DEF BeginUtterance, StartLocked, Unbound
  <2>. QED BY <2>1, <2>2
<1>4. \/ stream' = Closed /\ at' = "idle" /\ watcher' = watcher
      \/ /\ stream' # Closed /\ at' = "recording"
         /\ \E w \in Watchers :
                /\ watcher[w].at = "off"
                /\ watcher' = [watcher EXCEPT ![w] = [Off EXCEPT !.at = "waiting"]]
  BY DEF Press
<1>5. TypeOK'
  <2>1. watcher' \in [Watchers -> [at : {"off", "waiting", "looking", "listing"},
                                   told : BOOLEAN, open : BOOLEAN]]
    <3>1. [Off EXCEPT !.at = "waiting"] \in
              [at : {"off", "waiting", "looking", "listing"}, told : BOOLEAN, open : BOOLEAN]
      BY DEF Off
    <3>. QED BY <1>4, <3>1 DEF TypeOK
  <2>2. callback' \in Callbacks /\ stream' \in Inputs \cup {Closed}
    BY <1>2, <1>3, UnboundType DEF TypeOK
  <2>3. ring' \in SUBSET (0..MaxHolds) /\ utterance' \in SUBSET (0..MaxHolds)
    BY <1>3
  <2>4. at' \in {"idle", "recording"}
    BY <1>4
  <2>. QED BY <1>1, <1>2, <2>1, <2>2, <2>3, <2>4 DEF TypeOK, Callbacks
<1>6. DeviceInv'
  BY <1>2, <1>3 DEF DeviceInv
<1>7. BlockInv'
  <2>1. callback'.on /\ callback'.bound /\ stream' # Closed => callback'.block = 0
    BY <1>3, UnboundType DEF BlockInv, Held
  <2>. QED BY <1>3, <1>4, <2>1 DEF BlockInv, OwnAudio, Held
<1>8. WatcherInv'
  <2>1. CASE stream' = Closed
    BY <1>3, <1>4, <2>1 DEF WatcherInv, Held
  <2>2. CASE stream' # Closed
    <3>1. PICK w \in Watchers : watcher' = [watcher EXCEPT ![w] = [Off EXCEPT !.at = "waiting"]]
      BY <1>4, <2>2
    <3>2. watcher'[w].at = "waiting" /\ \A v \in Watchers \ {w} : watcher'[v] = watcher[v]
      BY <3>1 DEF TypeOK, Off
    <3>3. at' = "recording"
      BY <1>4, <2>2
    <3>4. ~late => \A v \in Watchers : watcher[v].at = "off"
      BY DEF WatcherInv
    <3>. QED BY <3>2, <3>3, <3>4 DEF WatcherInv, Held
  <2>. QED BY <2>1, <2>2
<1>. QED BY <1>5, <1>6, <1>7, <1>8

LEMMA ToldEffect ==
    ASSUME TypeOK
    PROVE  /\ Told \in [Watchers -> [at : {"off", "waiting", "looking", "listing"},
                                     told : BOOLEAN, open : BOOLEAN]]
           /\ \A w \in Watchers : Told[w].at = watcher[w].at
BY DEF TypeOK, Told

LEMMA ReleaseKeeps == ASSUME CaptureInv, Release PROVE CaptureInv'
<1> USE ToldEffect DEF CaptureInv, Release, captureVars
<1>1. TypeOK'
  BY DEF TypeOK
<1>2. DeviceInv' /\ BlockInv'
  BY DEF DeviceInv, BlockInv, OwnAudio, Held
<1>3. WatcherInv'
  BY DEF WatcherInv, Held
<1>. QED BY <1>1, <1>2, <1>3

LEMMA StopKeeps == ASSUME CaptureInv, Stop PROVE CaptureInv'
<1> USE ToldEffect DEF CaptureInv, Stop, captureVars
<1>1. TypeOK'
  BY DEF TypeOK
<1>2. DeviceInv' /\ BlockInv'
  BY DEF DeviceInv, BlockInv, OwnAudio, Held
<1>3. WatcherInv'
  BY DEF WatcherInv, Held
<1>. QED BY <1>1, <1>2, <1>3

LEMMA JoinKeeps == ASSUME CaptureInv, Join PROVE CaptureInv'
<1> USE DEF CaptureInv
<1>. /\ at = "joining" /\ at' = "ending"
     /\ UNCHANGED <<captureVars, hold, reopens, utterance, stopped, watcher>>
  BY DEF Join
<1>0. late' = (late \/ \E w \in Watchers : watcher[w].at # "off")
  BY DEF Join
<1>. USE DEF captureVars
<1>1. TypeOK'
  <2>1. late' \in BOOLEAN
    BY <1>0, Zenon DEF TypeOK
  <2>. QED BY <2>1 DEF TypeOK
<1>2. DeviceInv' /\ BlockInv'
  BY DEF DeviceInv, BlockInv, OwnAudio, Held
<1>3. WatcherInv'
  BY <1>0 DEF WatcherInv, Held
<1>. QED BY <1>1, <1>2, <1>3

LEMMA EndUtteranceKeeps == ASSUME CaptureInv, EndUtterance PROVE CaptureInv'
<1> USE DEF CaptureInv
<1>. /\ at = "ending"
     /\ UNCHANGED <<configured, device, ring, callback, resolution, tried, hold, reopens,
                    stopped, watcher, late>>
  BY DEF EndUtterance
<1>0. \/ stopped /\ at' = "closing" /\ stream' = stream /\ utterance' = utterance
      \/ /\ ~stopped /\ stream' = Closed /\ utterance' = ring /\ at' \in {"idle", "silent"}
  BY DEF EndUtterance
<1>1. TypeOK'
  BY <1>0 DEF TypeOK
<1>2. DeviceInv' /\ BlockInv'
  BY <1>0 DEF DeviceInv, BlockInv, OwnAudio, Held
<1>3. WatcherInv'
  BY <1>0 DEF WatcherInv, Held
<1>. QED BY <1>1, <1>2, <1>3

LEMMA WorkerLeavesKeeps == ASSUME CaptureInv, WorkerLeaves PROVE CaptureInv'
<1> USE DEF CaptureInv
<1>. /\ at = "silent"
     /\ UNCHANGED <<configured, device, ring, callback, resolution, tried, hold, utterance,
                    stopped, watcher, late>>
  BY DEF WorkerLeaves
<1>0. \/ at' = "listing" /\ reopens' = (stream # Closed) /\ stream' = Closed
      \/ at' = Rest /\ UNCHANGED <<reopens, stream>>
  BY DEF WorkerLeaves
<1>1. TypeOK'
  <2>1. reopens' \in BOOLEAN
    BY <1>0 DEF TypeOK
  <2>. QED BY <1>0, <2>1 DEF TypeOK, Rest
<1>2. DeviceInv' /\ BlockInv'
  BY <1>0 DEF DeviceInv, BlockInv, OwnAudio, Held, Rest
<1>3. WatcherInv'
  BY <1>0 DEF WatcherInv, Held, Rest
<1>. QED BY <1>1, <1>2, <1>3

LEMMA WorkerSwitchesKeeps == ASSUME CaptureInv, WorkerSwitches PROVE CaptureInv'
<1> USE DEF CaptureInv
<1>. /\ at = "listing" /\ at' = Rest /\ FailoverEnds(reopens)
     /\ UNCHANGED <<configured, hold, reopens, utterance, stopped, watcher, late>>
  BY DEF WorkerSwitches
<1>1. reopens \in BOOLEAN
  BY DEF TypeOK
<1>2. /\ device' \in Inputs /\ stream' \in Inputs \cup {Closed} /\ ring' \in {ring, {}}
      /\ callback' \in {callback, Unbound}
      /\ resolution' \in {"none", "auto", "dead"} /\ tried' \in SUBSET Alternates
      /\ configured # Default => device' = device /\ stream' \in {stream, device}
      /\ stream' # stream => reopens /\ stream = Closed /\ callback' = Unbound
      /\ ~reopens => ring' = ring
  BY <1>1, FailoverEffect
<1>3. TypeOK'
  BY <1>2, UnboundType DEF TypeOK, Callbacks, Rest
<1>4. DeviceInv'
  BY <1>2 DEF DeviceInv
<1>5. BlockInv'
  BY <1>2, UnboundType DEF BlockInv, OwnAudio, Held, Rest
<1>6. WatcherInv'
  BY <1>2 DEF WatcherInv, Held, Rest
<1>. QED BY <1>3, <1>4, <1>5, <1>6

LEMMA StopClosesKeeps == ASSUME CaptureInv, StopCloses PROVE CaptureInv'
<1> USE DEF CaptureInv, StopCloses
<1>1. TypeOK'
  BY DEF TypeOK
<1>2. DeviceInv' /\ BlockInv'
  BY DEF DeviceInv, BlockInv, OwnAudio, Held
<1>3. WatcherInv'
  BY DEF WatcherInv, Held
<1>. QED BY <1>1, <1>2, <1>3

---------------------------------------------------------------------------

\* Every step preserves the invariant.
LEMMA NextCapture == ASSUME CaptureInv, [Next]_vars PROVE CaptureInv'
<1>1. CASE CallbackChecks \/ CallbackWrites \/ Interrupt \/ \E d \in Inputs : SetDevice(d)
  BY <1>1, CallbackChecksKeeps, CallbackWritesKeeps, InterruptKeeps, SetDeviceKeeps
<1>2. ASSUME NEW w \in Watchers, \/ WatcherLooks(w) \/ WatcherReturns(w) \/ WatcherKeeps(w)
                                 \/ WatcherLeaves(w) \/ WatcherSwitches(w)
      PROVE  CaptureInv'
  BY <1>2, WatcherKeepsInv, WatcherLeavesKeeps, WatcherSwitchesKeeps
<1>3. CASE \/ Press \/ Release \/ Join \/ EndUtterance \/ WorkerLeaves \/ WorkerSwitches
           \/ Stop \/ StopCloses
  BY <1>3, PressKeeps, ReleaseKeeps, JoinKeeps, EndUtteranceKeeps, WorkerLeavesKeeps,
     WorkerSwitchesKeeps, StopKeeps, StopClosesKeeps
<1>4. CASE UNCHANGED vars
  <2>. USE <1>4 DEF CaptureInv, vars, captureVars, workerVars
  <2>1. TypeOK'
    BY DEF TypeOK
  <2>2. DeviceInv' /\ BlockInv' /\ WatcherInv'
    BY DEF DeviceInv, BlockInv, OwnAudio, WatcherInv, Held
  <2>. QED BY <2>1, <2>2
<1>. QED BY <1>1, <1>2, <1>3, <1>4 DEF Next

LEMMA CaptureHolds == Spec => []CaptureInv
BY InitCapture, NextCapture, PTL DEF Spec

\* Every variable keeps its type.
THEOREM TypeCorrect == Spec => []TypeOK
BY CaptureHolds, PTL DEF CaptureInv

\* A hold delivers no audio of an earlier one, whichever stream a late callback belongs to
\* (AudioCapture._audio_callback, end_utterance).
THEOREM HoldsKeepApart == Spec => []OwnAudio
BY CaptureHolds, PTL DEF CaptureInv, BlockInv

\* Only the input that the settings name is ever open, from the moment they name it
\* (maybe_failover_dead_default).
THEOREM ExplicitInputStays == Spec => []ExplicitInput
BY CaptureHolds, PTL DEF CaptureInv, DeviceInv, ExplicitInput

\* The microphone is closed between two holds as long as nothing outlives its join.
THEOREM ClosedBetweenHolds == Spec => []ClosedBetween
<1>1. CaptureInv => ClosedBetween
  BY DEF CaptureInv, WatcherInv, ClosedBetween
<1>. QED BY <1>1, CaptureHolds, PTL

\* What the ring has of the present hold stays there until it ends, whatever input is left,
\* named or interrupted meanwhile.
THEOREM WordsOfHoldStay == Spec => WordsStay
<1> DEFINE Stays == ~late /\ Recording /\ hold' = hold /\ hold \in ring => hold \in ring'
<1>1. ASSUME CaptureInv, Next PROVE Stays
  <2>. SUFFICES ASSUME ~late, at \in {"recording", "joining", "ending", "closing"},
                       hold' = hold, hold \in ring
                PROVE  hold \in ring'
    BY DEF Recording, Held
  <2>. USE DEF CaptureInv
  <2>1. ASSUME NEW w \in Watchers, WatcherSwitches(w) PROVE FALSE
    <3>1. watcher[w].at = "listing"
      BY <2>1 DEF WatcherSwitches
    <3>2. \A v \in Watchers : watcher[v].at = "listing" => ring = {}
      BY <1>1 DEF WatcherInv
    <3>. QED BY <3>1, <3>2
  <2>2. CASE Press \/ WorkerSwitches
    BY <2>2 DEF Press, WorkerSwitches
  <2>3. CASE \E w \in Watchers : \/ WatcherLooks(w) \/ WatcherReturns(w) \/ WatcherKeeps(w)
                                 \/ WatcherLeaves(w)
    BY <2>3 DEF WatcherLooks, WatcherReturns, WatcherKeeps, WatcherLeaves, captureVars
  <2>4. CASE \/ CallbackChecks \/ CallbackWrites \/ Interrupt \/ \E d \in Inputs : SetDevice(d)
    BY <2>4 DEF CallbackChecks, CallbackWrites, Interrupt, SetDevice
  <2>5. CASE \/ Release \/ Join \/ EndUtterance \/ WorkerLeaves \/ Stop \/ StopCloses
    BY <2>5 DEF Release, Join, EndUtterance, WorkerLeaves, Stop, StopCloses, captureVars
  <2>. QED BY <1>1, <2>1, <2>2, <2>3, <2>4, <2>5 DEF Next
<1>2. ASSUME CaptureInv, [Next]_vars PROVE [Stays]_vars
  BY <1>1, <1>2
<1>3. []CaptureInv /\ [][Next]_vars => [][Stays]_vars
  BY <1>2, PTL
<1>. QED BY <1>3, CaptureHolds, PTL DEF Spec, WordsStay
=============================================================================
