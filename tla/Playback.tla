------------------------------ MODULE Playback ------------------------------
(***************************************************************************)
(* Spoken replies of one DVAP connection: TtsPlayer, PlaybackEngine and    *)
(* the sound device sink (src/src/dcent_voice/tts/playback.py), driven by  *)
(* the connection (service/dvap.py).  The threads are the synthesis worker *)
(* of the player, the playback worker of the engine, the asyncio loop that *)
(* appends, cancels and closes, and the bus dispatcher, which cancels when *)
(* a local activation finds the engine playing (barge-in).  Each action is *)
(* one section under a lock, or one access to an unlocked attribute.       *)
(*                                                                         *)
(* A text is its number in the order of append; where sentences end is a   *)
(* choice.  The chunks that the device has admitted are in "sounding"; it  *)
(* plays a chunk out by itself, or drops it when its stream is aborted.    *)
(* The sink detaches a stream under its lock and aborts it after letting   *)
(* go of the lock: "doomed" is what each thread is about to abort.         *)
(* Generations count from 1 here, from 0 in the code, so that 0 stands for *)
(* no stream.                                                              *)
(***************************************************************************)
EXTENDS Naturals, Sequences, FiniteSets

CONSTANTS
    MaxTexts,    \* bound on the texts appended
    MaxCancels,  \* bound on barge-ins and tts.cancel messages
    MaxQueue,    \* bound on either queue
    Chunks,      \* chunks of audio per sentence
    MayFail      \* whether the voice or the sound device may raise

ASSUME PlaybackAssumption ==
    /\ {MaxTexts, MaxCancels, MaxQueue, Chunks} \subseteq Nat \ {0}
    /\ MayFail \in BOOLEAN

Callers == {"bus", "loop"}
Aborters == Callers \cup {"worker"}
TextIds == 1..MaxTexts
Flush == 0                       \* _FLUSH
Never == MaxCancels + 3          \* maxsize: no generation is later
Chunk == [gen : Nat, texts : SUBSET TextIds]
Silence == [gen |-> 0, texts |-> {}]

\* Where the threads and the callers can be.
WorkerAt == {"ready", "begin", "start", "activate", "stop", "abort", "write", "admit", "pace",
             "maybe", "quiet", "release", "ended", "dead"}
SynthAt  == {"idle", "taken", "push", "speaking", "submit", "ended"}
CallAt   == {"idle", "notified", "called", "engine", "sink", "abort", "quiet", "gate",
             "stream", "reset", "joinSynth", "join", "joinWorker", "closing", "closed"}

Workers == [at : WorkerAt, chunk : Chunk]
Synths  == [at : SynthAt, item : TextIds \cup {Flush}, gen : Nat,
            sentence : SUBSET TextIds, left : 0..Chunks]
Calls   == [at : CallAt, gen : Nat]

\* A thread between two iterations has no locals.
Idle(label) == [at |-> label, item |-> Flush, gen |-> 0, sentence |-> {}, left |-> 0]
Resting(label) == [at |-> label, chunk |-> Silence]
NoCall == [at |-> "idle", gen |-> 0]

VARIABLES
    said,       \* how many texts the client has appended
    texts,      \* TtsPlayer._queue
    spokenGen,  \* TtsPlayer._generation
    buffer,     \* the texts held back by TtsPlayer._stream
    synth,      \* the synthesis worker: where it is, and its locals
    shut,       \* TtsPlayer._closed
    queue,      \* PlaybackEngine._queue
    gen,        \* PlaybackEngine._generation
    cancelled,  \* PlaybackEngine._cancel
    playing,    \* PlaybackEngine._playing
    gate,       \* on_tts_start calls less on_tts_stop calls; _gate_active is gate > 0
    closed,     \* PlaybackEngine._closed
    worker,     \* the playback worker: where it is, and its chunk
    stream,     \* the sink's _stream_generation, 0 without a stream
    stopped,    \* the sink's _stopped_through
    sounding,   \* the chunks that the device is playing
    doomed,     \* per thread: the generation of the stream it detached, to abort it
    call,       \* per caller: where it is in cancel() or close(), and its locals
    dead,       \* (history) the last generation that a returned cancel() ended
    overlapped  \* (history) two calls have overlapped

playerVars == <<texts, spokenGen, buffer, synth, shut>>
engineVars == <<queue, gen, cancelled, playing, gate, closed>>
sinkVars   == <<stream, stopped, sounding, doomed>>
history    == <<dead, overlapped>>
vars == <<said, texts, spokenGen, buffer, synth, shut, queue, gen, cancelled,
          playing, gate, closed, worker, stream, stopped, sounding, doomed, call,
          dead, overlapped>>

Init ==
    /\ said = 0 /\ texts = <<>> /\ spokenGen = 0 /\ buffer = {} /\ shut = FALSE
    /\ synth = Idle("idle")
    /\ queue = <<>> /\ gen = 1 /\ cancelled = FALSE /\ playing = FALSE
    /\ gate = 0 /\ closed = FALSE
    /\ worker = Resting("ready")
    /\ stream = 0 /\ stopped = 0 /\ sounding = {}
    /\ doomed = [a \in Aborters |-> 0]
    /\ call = [c \in Callers |-> NoCall]
    /\ dead = 0 /\ overlapped = FALSE

-----------------------------------------------------------------------------
(* The sound device sink *)

Later(m, n) == IF m > n THEN m ELSE n

\* SoundDeviceSink.stop_through, under the sink's _lock: a stream that is not
\* later is a's to abort, and nobody else's any more ...
Detach(a, g) ==
    /\ stopped' = Later(stopped, g)
    /\ IF stream <= stopped' THEN stream' = 0 /\ doomed' = [doomed EXCEPT ![a] = stream]
       ELSE UNCHANGED <<stream, doomed>>

\* ... and _abort_stream, with the lock released: its sound ends.
Abort(a) ==
    /\ sounding' = {s \in sounding : s.gen # doomed[a]}
    /\ doomed' = [doomed EXCEPT ![a] = 0]

\* SoundDeviceSink.write lets a chunk of the open stream's generation through.
\* (Mutant: any chunk.)
AdmitsAny(g) == TRUE
Admits(g) == g > stopped /\ stream = g

\* The device has played a chunk.
SoundEnds ==
    /\ \E s \in sounding : sounding' = sounding \ {s}
    /\ UNCHANGED <<said, playerVars, engineVars, worker, stream, stopped, doomed, call,
                   history>>

-----------------------------------------------------------------------------
(* The playback worker: PlaybackEngine._run *)

At(label) == worker.at = label
Goes(label) == worker' = [worker EXCEPT !.at = label]

\* The end of an iteration, and of the use of its chunk.
Loops == worker' = Resting(IF closed THEN "ended" ELSE "ready")
Drops == worker' = Resting("quiet")

\* _can_play
CanPlay == ~cancelled /\ worker.chunk.gen = gen /\ playing

WorkerTakes ==
    /\ At("ready")
    /\ \/ queue # <<>> /\ queue' = Tail(queue)
          /\ worker' = [at |-> "begin", chunk |-> Head(queue)]
       \/ queue = <<>> /\ closed /\ Loops /\ queue' = queue
    /\ UNCHANGED <<said, playerVars, gen, cancelled, playing, gate, closed, sinkVars,
                   call, history>>

\* _begin_playing, under _lock.
WorkerBegins ==
    /\ At("begin")
    /\ IF cancelled \/ worker.chunk.gen # gen THEN Drops /\ playing' = playing
       ELSE Goes("start") /\ playing' = TRUE
    /\ UNCHANGED <<said, playerVars, queue, gen, cancelled, gate, closed, sinkVars,
                   call, history>>

\* SoundDeviceSink.start: refused when stopped meanwhile, or when the stream of
\* another generation is still there; otherwise the stream is there or opens.
WorkerStartsSink ==
    /\ At("start")
    /\ LET g == worker.chunk.gen
       IN  IF g <= stopped \/ stream \notin {0, g}
           THEN Drops /\ stream' = stream
           ELSE \/ Goes("activate") /\ stream' = g
                \/ MayFail /\ worker' = Resting("dead") /\ stream' = stream
    /\ UNCHANGED <<said, playerVars, engineVars, stopped, sounding, doomed, call, history>>

\* _activate_gate, under _gate_lock: engaged once for the chunks of one reply.
Engaged == IF gate > 0 THEN gate ELSE gate + 1

WorkerActivatesGate ==
    /\ At("activate")
    /\ IF CanPlay THEN gate' = Engaged /\ Goes("write") ELSE gate' = gate /\ Goes("stop")
    /\ UNCHANGED <<said, playerVars, queue, gen, cancelled, playing, closed, sinkVars,
                   call, history>>

WorkerDetachesStale ==
    /\ At("stop") /\ Detach("worker", worker.chunk.gen) /\ Goes("abort")
    /\ UNCHANGED <<said, playerVars, engineVars, sounding, call, history>>

WorkerAbortsStale ==
    /\ At("abort") /\ Abort("worker") /\ Drops
    /\ UNCHANGED <<said, playerVars, engineVars, stream, stopped, call, history>>

\* The last check before the device, which is not held across the write.
WorkerChecks ==
    /\ At("write") /\ IF CanPlay THEN Goes("admit") ELSE Drops
    /\ UNCHANGED <<said, playerVars, engineVars, sinkVars, call, history>>

WorkerWrites ==
    /\ At("admit")
    /\ \/ IF Admits(worker.chunk.gen)
          THEN sounding' = sounding \cup {worker.chunk} /\ Goes("pace")
          ELSE sounding' = sounding /\ Drops
       \/ MayFail /\ (IF CanPlay THEN worker' = Resting("dead") ELSE Drops) /\ sounding' = sounding
    /\ UNCHANGED <<said, playerVars, engineVars, stream, stopped, doomed, call, history>>

\* _pace_chunk waits until the chunk is over, or no longer current.
\* (Mutant: it takes the return of the write for the end of the sound.)
PacedUnheard == TRUE
Paced == \A s \in sounding : s.gen # worker.chunk.gen

WorkerPaces ==
    /\ At("pace")
    /\ \/ ~CanPlay /\ Drops
       \/ CanPlay /\ Paced /\ Goes("maybe")
    /\ UNCHANGED <<said, playerVars, engineVars, sinkVars, call, history>>

\* _maybe_idle
WorkerMayIdle ==
    /\ At("maybe") /\ IF queue # <<>> THEN Loops ELSE Drops
    /\ UNCHANGED <<said, playerVars, engineVars, sinkVars, call, history>>

\* _set_idle, under _lock ...
WorkerIdles ==
    /\ At("quiet") /\ playing' = FALSE /\ Goes("release")
    /\ UNCHANGED <<said, playerVars, queue, gen, cancelled, gate, closed, sinkVars,
                   call, history>>

\* ... and _release_gate, under _gate_lock.  (Mutant: it forgets to.)
ReleasedNever == gate
Released == IF gate > 0 THEN gate - 1 ELSE gate

WorkerReleasesGate ==
    /\ At("release") /\ gate' = Released /\ Loops
    /\ UNCHANGED <<said, playerVars, queue, gen, cancelled, playing, closed, sinkVars,
                   call, history>>

WorkerNext ==
    \/ WorkerTakes \/ WorkerBegins \/ WorkerStartsSink \/ WorkerActivatesGate
    \/ WorkerDetachesStale \/ WorkerAbortsStale \/ WorkerChecks \/ WorkerWrites
    \/ WorkerPaces \/ WorkerMayIdle \/ WorkerIdles \/ WorkerReleasesGate

-----------------------------------------------------------------------------
(* The synthesis worker: TtsPlayer._run *)

SynthLoops == synth' = Idle(IF shut THEN "ended" ELSE "idle")

\* _next_item, under _lock; or, back at the loop, the end.
SynthTakes ==
    /\ synth.at = "idle"
    /\ \/ texts # <<>> /\ texts' = Tail(texts)
          /\ synth' = [synth EXCEPT !.at = "taken", !.item = Head(texts)]
       \/ shut /\ texts' = texts /\ SynthLoops
    /\ UNCHANGED <<said, spokenGen, buffer, shut, engineVars, worker, sinkVars, call, history>>

\* generation = self._generation
SynthReadsGeneration ==
    /\ synth.at = "taken"
    /\ synth' = [synth EXCEPT !.at = "push", !.gen = spokenGen]
    /\ UNCHANGED <<said, texts, spokenGen, buffer, shut, engineVars, worker, sinkVars,
                   call, history>>

\* SentenceStream.flush and push: what is complete comes out as one sentence, the
\* rest stays.
Sentences(item) ==
    LET all == buffer \cup {item}
    IN  IF item = Flush THEN {<<buffer, {}>>}
        ELSE {<<{}, all>>, <<buffer, {item}>>, <<all, {}>>, <<all, {item}>>}

Pushed(sentence, rest) ==
    /\ buffer' = rest
    /\ IF sentence = {} THEN SynthLoops
       ELSE synth' = [synth EXCEPT !.at = "speaking", !.item = Flush,
                                   !.sentence = sentence, !.left = Chunks]

SynthPushes ==
    /\ synth.at = "push"
    /\ \E s \in Sentences(synth.item) : Pushed(s[1], s[2])
    /\ UNCHANGED <<said, texts, spokenGen, shut, engineVars, worker, sinkVars, call, history>>

\* _speak: the voice yields a chunk, which is checked, or no more of them (the
\* sentence is over, or the voice was cancelled), or raises.
SynthSpeaks ==
    /\ synth.at = "speaking"
    /\ \/ /\ synth.left > 0 /\ synth.gen = spokenGen /\ ~shut
          /\ synth' = [synth EXCEPT !.at = "submit"]
       \/ SynthLoops
       \/ MayFail /\ synth' = Idle("ended")
    /\ UNCHANGED <<said, texts, spokenGen, buffer, shut, engineVars, worker, sinkVars,
                   call, history>>

\* PlaybackEngine.submit, under the engine's _lock.
SynthSubmits ==
    /\ synth.at = "submit"
    /\ IF cancelled THEN queue' = queue
       ELSE /\ Len(queue) < MaxQueue
            /\ queue' = Append(queue, [gen |-> gen, texts |-> synth.sentence])
    /\ synth' = [synth EXCEPT !.at = "speaking", !.left = @ - 1]
    /\ UNCHANGED <<said, texts, spokenGen, buffer, shut, gen, cancelled, playing, gate,
                   closed, worker, sinkVars, call, history>>

SynthNext ==
    \/ SynthTakes \/ SynthReadsGeneration \/ SynthPushes \/ SynthSpeaks \/ SynthSubmits

-----------------------------------------------------------------------------
(* The callers *)

Open == call["loop"].at = "idle" /\ ~shut
Called == Cardinality({c \in Callers : call[c].at \in {"notified", "called"}})
Enters(c) ==
    overlapped' = (overlapped \/ \E d \in Callers \ {c} :
                                    call[d].at \notin {"idle", "notified", "closed"})
Steps(c, from, to) == call[c].at = from /\ call' = [call EXCEPT ![c].at = to]

\* tts.append: a text, or the final mark that flushes.
AppendText ==
    /\ Open /\ Len(texts) < MaxQueue
    /\ \/ said < MaxTexts /\ said' = said + 1 /\ texts' = Append(texts, said')
       \/ said > 0 /\ said' = said /\ texts' = Append(texts, Flush)
    /\ UNCHANGED <<spokenGen, buffer, synth, shut, engineVars, worker, sinkVars, call, history>>

\* tts.cancel
TtsCancel ==
    /\ Open /\ spokenGen + Called < MaxCancels
    /\ Steps("loop", "idle", "called") /\ Enters("loop")
    /\ UNCHANGED <<said, playerVars, engineVars, worker, sinkVars, dead>>

\* A local activation: EventBus._run takes its subscribers, and with them a
\* connection that may have unsubscribed by the time its turn comes ...
BusNotifies ==
    /\ ~shut /\ spokenGen + Called < MaxCancels
    /\ Steps("bus", "idle", "notified")
    /\ UNCHANGED <<said, playerVars, engineVars, worker, sinkVars, history>>

\* ... and cancels if it finds the engine playing.
BargeIn ==
    /\ playing /\ Steps("bus", "notified", "called") /\ Enters("bus")
    /\ UNCHANGED <<said, playerVars, engineVars, worker, sinkVars, dead>>

NoBargeIn ==
    /\ ~playing /\ Steps("bus", "notified", "idle")
    /\ UNCHANGED <<said, playerVars, engineVars, worker, sinkVars, history>>

\* TtsPlayer.cancel, under its _lock; the voice is told to stop as well.
CancelPlayer(c) ==
    /\ call[c].at = "called"
    /\ call' = [call EXCEPT ![c].at = "engine"]
    /\ spokenGen' = spokenGen + 1 /\ texts' = <<>>
    /\ UNCHANGED <<said, buffer, synth, shut, engineVars, worker, sinkVars, history>>

\* PlaybackEngine.cancel: the event and, under _lock, the generation ...
CancelEngine(c) ==
    /\ call[c].at = "engine"
    /\ call' = [call EXCEPT ![c].at = "sink", ![c].gen = gen]
    /\ cancelled' = TRUE /\ gen' = gen + 1 /\ queue' = <<>>
    /\ UNCHANGED <<said, playerVars, playing, gate, closed, worker, sinkVars, history>>

\* ... then the device, without waiting for the worker ...
CancelDetaches(c) ==
    /\ Steps(c, "sink", "abort") /\ Detach(c, call[c].gen)
    /\ UNCHANGED <<said, playerVars, engineVars, worker, sounding, history>>

CancelAborts(c) ==
    /\ Steps(c, "abort", "quiet") /\ Abort(c)
    /\ UNCHANGED <<said, playerVars, engineVars, worker, stream, stopped, history>>

\* ... _set_idle ...
CancelIdles(c) ==
    /\ Steps(c, "quiet", "gate") /\ playing' = FALSE
    /\ UNCHANGED <<said, playerVars, queue, gen, cancelled, gate, closed, worker, sinkVars, history>>

\* ... and _release_gate.  close() goes on to join, cancel() to its new stream.
CancelReleasesGate(c) ==
    /\ Steps(c, "gate", IF c = "loop" /\ shut THEN "join" ELSE "stream")
    /\ gate' = Released
    /\ UNCHANGED <<said, playerVars, queue, gen, cancelled, playing, closed, worker,
                   sinkVars, history>>

CancelDropsBuffer(c) ==
    /\ Steps(c, "stream", "reset") /\ buffer' = {}
    /\ UNCHANGED <<said, texts, spokenGen, synth, shut, engineVars, worker, sinkVars, history>>

\* PlaybackEngine.reset; cancel() returns.
CancelReturns(c) ==
    /\ call[c].at = "reset" /\ call' = [call EXCEPT ![c] = NoCall]
    /\ cancelled' = FALSE
    /\ dead' = Later(dead, call[c].gen)
    /\ UNCHANGED <<said, playerVars, queue, gen, playing, gate, closed, worker, sinkVars,
                   overlapped>>

\* The connection ends: unsubscribe, and TtsPlayer.close ...
Close ==
    /\ Open /\ shut' = TRUE /\ Steps("loop", "idle", "joinSynth") /\ Enters("loop")
    /\ UNCHANGED <<said, texts, spokenGen, buffer, synth, engineVars, worker, sinkVars, dead>>

\* ... whose join waits two seconds, which only a synthesis outlasts; then
\* PlaybackEngine.close, which cancels first.  (Mutant: it only stops the worker.)
CloseStraight == "join"
CloseFirst == "engine"

CloseJoinsSynth ==
    /\ synth.at \in {"speaking", "ended"}
    /\ Steps("loop", "joinSynth", CloseFirst)
    /\ UNCHANGED <<said, playerVars, engineVars, worker, sinkVars, history>>

CloseSignals ==
    /\ Steps("loop", "join", "joinWorker") /\ closed' = TRUE
    /\ UNCHANGED <<said, playerVars, queue, gen, cancelled, playing, gate, worker, sinkVars,
                   history>>

\* The worker has ended, and SoundDeviceSink.close.
CloseDetaches ==
    /\ worker.at \in {"ended", "dead"}
    /\ Steps("loop", "joinWorker", "closing") /\ Detach("loop", Never)
    /\ UNCHANGED <<said, playerVars, engineVars, worker, sounding, history>>

Closes ==
    /\ Steps("loop", "closing", "closed") /\ Abort("loop")
    /\ UNCHANGED <<said, playerVars, engineVars, worker, stream, stopped, history>>

CallerNext ==
    \/ AppendText \/ TtsCancel \/ BusNotifies \/ BargeIn \/ NoBargeIn
    \/ \E c \in Callers :
          \/ CancelPlayer(c) \/ CancelEngine(c) \/ CancelDetaches(c) \/ CancelAborts(c)
          \/ CancelIdles(c) \/ CancelReleasesGate(c) \/ CancelDropsBuffer(c)
          \/ CancelReturns(c)
    \/ Close \/ CloseJoinsSynth \/ CloseSignals \/ CloseDetaches \/ Closes

Next == WorkerNext \/ SynthNext \/ SoundEnds \/ CallerNext

Spec == Init /\ [][Next]_vars

-----------------------------------------------------------------------------
\* Every variable keeps its type, and the microphone gate is never engaged twice.
TypeOK ==
    /\ said \in 0..MaxTexts /\ texts \in Seq(TextIds \cup {Flush})
    /\ spokenGen \in Nat /\ buffer \in SUBSET TextIds /\ shut \in BOOLEAN
    /\ synth \in Synths
    /\ queue \in Seq(Chunk) /\ gen \in Nat \ {0}
    /\ cancelled \in BOOLEAN /\ playing \in BOOLEAN /\ closed \in BOOLEAN
    /\ gate \in {0, 1}
    /\ worker \in Workers
    /\ stream \in Nat /\ stopped \in Nat /\ sounding \in SUBSET Chunk
    /\ doomed \in [Aborters -> Nat]
    /\ call \in [Callers -> Calls]
    /\ dead \in Nat /\ overlapped \in BOOLEAN

\* A chunk of a stream that a thread has detached and not yet aborted.
BeingAborted(s) == \E a \in Aborters : doomed[a] = s.gen

\* "an old worker iteration could start after that reset and revive playback
\* that this cancel was meant to end": once cancel() has returned, no chunk
\* that was queued or in flight in the engine before it is heard again.  (When
\* the stream was detached by another thread, a call that overlaps it may return
\* before that thread's abort; nothing else sounds on.)
CancelledChunksAreSilent ==
    \A s \in sounding : s.gen <= dead => BeingAborted(s)

\* "While TTS is playing, capture is half-duplex": whenever the speakers sound
\* the microphone gate is engaged.  (Between the two halves of a cancel the
\* worker may have released it; two overlapping cancels may leave a chunk with
\* the gate open.)
GateCoversSound ==
    /\ sounding # {} /\ ~overlapped
    /\ \A c \in Callers : call[c].at \notin {"sink", "abort"}
    => gate > 0

\* A closed connection leaves nothing behind, whatever cancel is still under way
\* on the bus thread: no open stream, no engaged gate, and no sound but that of
\* a stream which such a cancel has detached and is about to abort.
ClosedIsSilent ==
    call["loop"].at = "closed" =>
        stream = 0 /\ gate = 0 /\ \A s \in sounding : BeingAborted(s)

\* "every start is paired with exactly one stop, even if a PTT barge-in races
\* worker startup": an engaged gate always has someone who will release it: the
\* worker on its way, a chunk that will bring it back, or a cancel that has yet
\* to.  (A device that raises ends the worker, and leaves the gate to the next
\* cancel.)
GateIsOwned ==
    gate > 0 =>
        \/ worker.at \notin {"ready", "ended"}
        \/ worker.at = "ready" /\ queue # <<>>
        \/ \E c \in Callers : call[c].at \in {"sink", "abort", "quiet", "gate"}
=============================================================================
