--------------------------- MODULE PlaybackProofs ---------------------------
(***************************************************************************)
(* Theorems about Playback, for every bound on texts, cancels, queues and  *)
(* chunks.  The argument of the sink is about generations: what is heard   *)
(* belongs to the open stream, whose generation is later than every one    *)
(* that a cancel has stopped, or to a stream that a thread has detached    *)
(* and not yet aborted.  The gate's argument is about who releases it;     *)
(* that a closed connection cannot leave it to nobody rests on the join of *)
(* the synthesis worker, after which nothing is submitted.  Both come      *)
(* together in the last two: the cancel of a close() outdates every chunk, *)
(* so that no gate and no stream can follow, and a cancel that is not      *)
(* overlapped leaves nothing current while it releases the gate.           *)
(***************************************************************************)
EXTENDS Playback, TLAPS, SequenceTheorems, FiniteSetTheorems

\* A chunk that is about to be submitted is one of the sentence's.
SubmitInv == synth.at = "submit" => synth.left > 0

TypeInv == TypeOK /\ SubmitInv

\* Who has detached a stream goes on to abort it.
DoomInv ==
    /\ \A c \in Callers : doomed[c] # 0 => call[c].at \in {"abort", "closing"}
    /\ doomed["worker"] # 0 => worker.at = "abort"

\* Only the open stream sounds, which is later than what was stopped, and those
\* that are about to be aborted.
StreamInv ==
    /\ DoomInv
    /\ \A s \in sounding : s.gen # 0 /\ (s.gen = stream \/ BeingAborted(s))
    /\ stream # 0 => stream > stopped

\* A cancel that is past the sink's lock has stopped the generation it ended.
CancelInv ==
    /\ dead <= stopped
    /\ \A c \in Callers :
          call[c].at \in {"abort", "quiet", "gate", "stream", "reset"} => call[c].gen <= stopped

\* close() is in this order; after its join the synthesis worker submits nothing,
\* so that the queue which its cancel has emptied stays empty.
Closing == {"joinSynth", "engine", "sink", "abort", "quiet", "gate", "join", "joinWorker",
            "closing", "closed"}
ShutInv ==
    /\ shut => call["loop"].at \in Closing
    /\ call["loop"].at \in {"joinSynth", "join", "joinWorker", "closing", "closed"} => shut
    /\ shut /\ call["loop"].at # "joinSynth" => synth.at \in {"speaking", "ended"}
    /\ shut /\ call["loop"].at \notin {"joinSynth", "engine"} => queue = <<>>
    /\ closed => call["loop"].at \in {"joinWorker", "closing", "closed"}

SoundInv == TypeInv /\ StreamInv /\ CancelInv
GateInv  == TypeInv /\ ShutInv /\ GateIsOwned

-----------------------------------------------------------------------------
(* Type correctness *)

\* A chunk is a record, and the empty one is a chunk.
LEMMA ChunkType ==
    /\ Silence \in Chunk
    /\ \A k \in Chunk : k.gen \in Nat /\ k.texts \in SUBSET TextIds
    /\ \A g \in Nat, t \in SUBSET TextIds : [gen |-> g, texts |-> t] \in Chunk
BY DEF Silence, Chunk

\* Each way in which the playback worker moves keeps its type.
LEMMA WorkerType ==
    ASSUME worker \in Workers
    PROVE  /\ worker.chunk \in Chunk
           /\ \A l \in WorkerAt : Goes(l) => worker' \in Workers
           /\ \A l \in WorkerAt : Resting(l) \in Workers
           /\ Loops => worker' \in Workers
           /\ Drops => worker' \in Workers
<1>1. worker.chunk \in Chunk
    BY DEF Workers
<1>2. ASSUME NEW l \in WorkerAt, Goes(l) PROVE worker' \in Workers
    BY <1>2 DEF Workers, Goes
<1>3. \A l \in WorkerAt : Resting(l) \in Workers
    BY ChunkType DEF Workers, Resting
<1>4. Loops => worker' \in Workers
    BY <1>3 DEF Loops, WorkerAt
<1>5. Drops => worker' \in Workers
    BY <1>3 DEF Drops, WorkerAt
<1> QED
    BY <1>1, <1>2, <1>3, <1>4, <1>5

\* Detaching and aborting a stream keep the types of the sink.
LEMMA SinkTypes ==
    ASSUME TypeOK, NEW a \in Aborters
    PROVE  /\ \A g \in Nat : Detach(a, g) =>
                  stopped' \in Nat /\ stream' \in Nat /\ doomed' \in [Aborters -> Nat]
           /\ Abort(a) => sounding' \in SUBSET Chunk /\ doomed' \in [Aborters -> Nat]
<1>1. ASSUME NEW g \in Nat, Detach(a, g)
      PROVE  stopped' \in Nat /\ stream' \in Nat /\ doomed' \in [Aborters -> Nat]
    BY <1>1 DEF TypeOK, Detach, Later
<1>2. Abort(a) => sounding' \in SUBSET Chunk /\ doomed' \in [Aborters -> Nat]
    BY DEF TypeOK, Abort
<1> QED
    BY <1>1, <1>2

\* Moving a caller keeps the type of the callers, and moves no other.
LEMMA CallType ==
    ASSUME call \in [Callers -> Calls], NEW c \in Callers, NEW a \in CallAt, NEW b \in CallAt,
           Steps(c, a, b)
    PROVE  /\ call' \in [Callers -> Calls]
           /\ call[c].at = a /\ call'[c].at = b
           /\ call'[c].gen = call[c].gen
           /\ \A d \in Callers \ {c} : call'[d] = call[d]
<1>1. call[c] \in Calls
    OBVIOUS
<1>2. [call[c] EXCEPT !.at = b] \in Calls
    BY <1>1 DEF Calls
<1>3. call' = [call EXCEPT ![c] = [call[c] EXCEPT !.at = b]]
    BY DEF Steps
<1>4. call[c].at = a
    BY DEF Steps
<1>5. call'[c] = [call[c] EXCEPT !.at = b] /\ \A d \in Callers \ {c} : call'[d] = call[d]
    BY <1>3
<1>6. call' \in [Callers -> Calls]
    BY <1>2, <1>3
<1>7. /\ [call[c] EXCEPT !.at = b].at = b
      /\ [call[c] EXCEPT !.at = b].gen = call[c].gen
    BY <1>1 DEF Calls
<1> QED
    BY <1>4, <1>5, <1>6, <1>7

\* The initial state has its types.
LEMMA TypeInit == Init => TypeInv
<1> SUFFICES ASSUME Init PROVE TypeInv
    OBVIOUS
<1>1. texts \in Seq(TextIds \cup {Flush}) /\ queue \in Seq(Chunk)
    BY DEF Init
<1>2. 0 \in 0..MaxTexts /\ 0 \in 0..Chunks
    BY PlaybackAssumption
<1>3. worker \in Workers
    BY ChunkType DEF Init, Resting, Workers, WorkerAt
<1>4. synth \in Synths /\ synth.at = "idle"
    BY <1>2 DEF Init, Idle, Synths, SynthAt, Flush
<1>5. call \in [Callers -> Calls]
  <2>1. NoCall \in Calls
    BY <1>2 DEF NoCall, Calls, CallAt
  <2> QED
    BY <2>1 DEF Init
<1>6. sounding \in SUBSET Chunk /\ doomed \in [Aborters -> Nat]
    BY DEF Init
<1>7. TypeOK
  <2>1. /\ said \in 0..MaxTexts /\ buffer \in SUBSET TextIds
        /\ gen \in Nat \ {0} /\ spokenGen \in Nat /\ gate \in {0, 1}
        /\ stream \in Nat /\ stopped \in Nat /\ dead \in Nat
    BY <1>2 DEF Init
  <2>2. {shut, cancelled, playing, closed, overlapped} \subseteq BOOLEAN
    BY DEF Init
  <2> QED
    BY <1>1, <1>3, <1>4, <1>5, <1>6, <2>1, <2>2 DEF TypeOK
<1> QED
    BY <1>4, <1>7 DEF TypeInv, SubmitInv

\* The playback worker and the device keep the types.
LEMMA TypeWorker == TypeInv /\ (WorkerNext \/ SoundEnds) => TypeInv'
<1> SUFFICES ASSUME TypeInv, WorkerNext \/ SoundEnds PROVE TypeInv'
    OBVIOUS
<1> USE DEF TypeInv, TypeOK, SubmitInv, playerVars, engineVars, sinkVars, history
<1>0. /\ worker.chunk \in Chunk /\ worker.chunk.gen \in Nat
      /\ \A l \in WorkerAt : Goes(l) => worker' \in Workers
      /\ \A l \in WorkerAt : Resting(l) \in Workers
      /\ Loops => worker' \in Workers
      /\ Drops => worker' \in Workers
    BY WorkerType, ChunkType
<1>1. CASE WorkerTakes
  <2>1. CASE /\ queue # <<>> /\ queue' = Tail(queue)
             /\ worker' = [at |-> "begin", chunk |-> Head(queue)]
    <3>1. queue' \in Seq(Chunk) /\ Head(queue) \in Chunk
      BY <2>1
    <3>2. worker' \in Workers
      BY <2>1, <3>1 DEF Workers, WorkerAt
    <3> QED
      BY <1>1, <3>1, <3>2 DEF WorkerTakes
  <2>2. CASE Loops /\ queue' = queue
    BY <1>0, <1>1, <2>2 DEF WorkerTakes
  <2> QED
    BY <1>1, <2>1, <2>2 DEF WorkerTakes
<1>2. CASE WorkerBegins
  <2>1. worker' \in Workers
    BY <1>0, <1>2 DEF WorkerBegins, WorkerAt
  <2> QED
    BY <1>2, <2>1 DEF WorkerBegins
<1>3. CASE WorkerStartsSink
  <2>1. worker' \in Workers /\ stream' \in Nat
    BY <1>0, <1>3 DEF WorkerStartsSink, WorkerAt
  <2> QED
    BY <1>3, <2>1 DEF WorkerStartsSink
<1>4. CASE WorkerActivatesGate
  <2>1. worker' \in Workers /\ gate' \in {0, 1}
    BY <1>0, <1>4 DEF WorkerActivatesGate, WorkerAt, Engaged
  <2> QED
    BY <1>4, <2>1 DEF WorkerActivatesGate
<1>5. CASE WorkerDetachesStale
  <2>1. worker' \in Workers
    BY <1>0, <1>5 DEF WorkerDetachesStale, WorkerAt
  <2>2. stopped' \in Nat /\ stream' \in Nat /\ doomed' \in [Aborters -> Nat]
    BY <1>0, <1>5, SinkTypes DEF WorkerDetachesStale, Aborters
  <2> QED
    BY <1>5, <2>1, <2>2 DEF WorkerDetachesStale
<1>13. CASE WorkerAbortsStale
  <2>1. worker' \in Workers
    BY <1>0, <1>13 DEF WorkerAbortsStale
  <2>2. sounding' \in SUBSET Chunk /\ doomed' \in [Aborters -> Nat]
    BY <1>13, SinkTypes DEF WorkerAbortsStale, Aborters
  <2> QED
    BY <1>13, <2>1, <2>2 DEF WorkerAbortsStale
<1>6. CASE WorkerChecks
  <2>1. worker' \in Workers
    BY <1>0, <1>6 DEF WorkerChecks, WorkerAt
  <2> QED
    BY <1>6, <2>1 DEF WorkerChecks
<1>7. CASE WorkerWrites
  <2>1. worker' \in Workers /\ sounding' \in SUBSET Chunk
    BY <1>0, <1>7 DEF WorkerWrites, WorkerAt
  <2> QED
    BY <1>7, <2>1 DEF WorkerWrites
<1>8. CASE WorkerPaces
  <2>1. worker' \in Workers
    BY <1>0, <1>8 DEF WorkerPaces, WorkerAt
  <2> QED
    BY <1>8, <2>1 DEF WorkerPaces
<1>9. CASE WorkerMayIdle
  <2>1. worker' \in Workers
    BY <1>0, <1>9 DEF WorkerMayIdle
  <2> QED
    BY <1>9, <2>1 DEF WorkerMayIdle
<1>10. CASE WorkerIdles
  <2>1. worker' \in Workers
    BY <1>0, <1>10 DEF WorkerIdles, WorkerAt
  <2> QED
    BY <1>10, <2>1 DEF WorkerIdles
<1>11. CASE WorkerReleasesGate
  <2>1. worker' \in Workers /\ gate' \in {0, 1}
    BY <1>0, <1>11 DEF WorkerReleasesGate, Released
  <2> QED
    BY <1>11, <2>1 DEF WorkerReleasesGate
<1>12. CASE SoundEnds
    BY <1>12 DEF SoundEnds
<1> QED
    BY <1>1, <1>2, <1>3, <1>4, <1>5, <1>6, <1>7, <1>8, <1>9, <1>10, <1>11, <1>12, <1>13
    DEF WorkerNext

\* The synthesis worker keeps the types; it submits a chunk that it still has.
LEMMA TypeSynth == TypeInv /\ SynthNext => TypeInv'
<1> SUFFICES ASSUME TypeInv, SynthNext PROVE TypeInv'
    OBVIOUS
<1> USE DEF TypeInv, TypeOK, SubmitInv, playerVars, engineVars, sinkVars, history
<1>0. 0 \in 0..Chunks /\ Chunks \in 0..Chunks /\ Flush \in TextIds \cup {Flush}
    BY PlaybackAssumption
<1>a. \A l \in SynthAt \ {"submit"} : Idle(l) \in Synths /\ Idle(l).at # "submit"
    BY <1>0 DEF Idle, Synths, SynthAt
<1>b. SynthLoops => synth' \in Synths /\ synth'.at # "submit"
    BY <1>a DEF SynthLoops, SynthAt
<1>1. CASE SynthTakes
  <2>1. CASE /\ texts # <<>> /\ texts' = Tail(texts)
             /\ synth' = [synth EXCEPT !.at = "taken", !.item = Head(texts)]
    <3>1. texts' \in Seq(TextIds \cup {Flush}) /\ Head(texts) \in TextIds \cup {Flush}
      BY <2>1
    <3>2. synth' \in Synths /\ synth'.at # "submit"
      BY <2>1, <3>1 DEF Synths, SynthAt
    <3> QED
      BY <1>1, <3>1, <3>2 DEF SynthTakes
  <2>2. CASE texts' = texts /\ SynthLoops
    BY <1>b, <1>1, <2>2 DEF SynthTakes
  <2> QED
    BY <1>1, <2>1, <2>2 DEF SynthTakes
<1>2. CASE SynthReadsGeneration
  <2>1. synth' \in Synths /\ synth'.at # "submit"
    BY <1>2 DEF SynthReadsGeneration, Synths, SynthAt
  <2> QED
    BY <1>2, <2>1 DEF SynthReadsGeneration
<1>3. CASE SynthPushes
  <2>1. PICK s \in Sentences(synth.item) : Pushed(s[1], s[2])
    BY <1>3 DEF SynthPushes
  <2>2. s[1] \in SUBSET TextIds /\ s[2] \in SUBSET TextIds
    <3>1. synth.item \in TextIds \cup {Flush}
      BY DEF Synths
    <3>2. CASE synth.item = Flush
      BY <2>1, <3>2 DEF Sentences
    <3>3. CASE synth.item # Flush
      <4>1. synth.item \in TextIds
        BY <3>1, <3>3
      <4> QED
        BY <2>1, <3>3, <4>1 DEF Sentences
    <3> QED
      BY <3>2, <3>3
  <2>3. synth' \in Synths /\ synth'.at # "submit"
    <3>1. CASE s[1] = {}
      BY <1>b, <2>1, <3>1 DEF Pushed
    <3>2. CASE s[1] # {}
      BY <1>0, <2>1, <2>2, <3>2 DEF Pushed, Synths, SynthAt
    <3> QED
      BY <3>1, <3>2
  <2> QED
    BY <1>3, <2>1, <2>2, <2>3 DEF SynthPushes, Pushed
<1>4. CASE SynthSpeaks
  <2>1. synth' \in Synths /\ (synth'.at = "submit" => synth'.left > 0)
    <3>1. CASE /\ synth.left > 0
               /\ synth' = [synth EXCEPT !.at = "submit"]
      BY <3>1 DEF Synths, SynthAt
    <3>2. CASE SynthLoops \/ synth' = Idle("ended")
      BY <1>a, <1>b, <3>2 DEF SynthAt
    <3> QED
      BY <1>4, <3>1, <3>2 DEF SynthSpeaks
  <2> QED
    BY <1>4, <2>1 DEF SynthSpeaks
<1>5. CASE SynthSubmits
  <2>1. [gen |-> gen, texts |-> synth.sentence] \in Chunk
    BY ChunkType DEF Synths
  <2>2. queue' \in Seq(Chunk)
    <3>1. CASE queue' = queue
      BY <3>1
    <3>2. CASE queue' = Append(queue, [gen |-> gen, texts |-> synth.sentence])
      BY <2>1, <3>2
    <3> QED
      BY <1>5, <3>1, <3>2 DEF SynthSubmits
  <2>3. synth.left \in 0..Chunks /\ synth.left > 0
    BY <1>5 DEF SynthSubmits, Synths
  <2>4. synth.left - 1 \in 0..Chunks
    BY <2>3, PlaybackAssumption
  <2>5. synth' \in Synths /\ synth'.at # "submit"
    BY <1>5, <2>4 DEF SynthSubmits, Synths, SynthAt
  <2> QED
    BY <1>5, <2>2, <2>5 DEF SynthSubmits
<1> QED
    BY <1>1, <1>2, <1>3, <1>4, <1>5 DEF SynthNext

\* The bus, the connection and their cancels keep the types.
LEMMA TypeCaller == TypeInv /\ CallerNext => TypeInv'
<1> SUFFICES ASSUME TypeInv, CallerNext PROVE TypeInv'
    OBVIOUS
<1> USE DEF TypeInv, TypeOK, SubmitInv, playerVars, engineVars, sinkVars, history
<1>0. "bus" \in Callers /\ "loop" \in Callers
    BY DEF Callers
<1>a. ASSUME NEW c \in Callers, NEW a \in CallAt, NEW b \in CallAt, Steps(c, a, b)
      PROVE  call' \in [Callers -> Calls]
    BY <1>a, CallType
<1>b. Callers \subseteq Aborters
    BY DEF Aborters
<1>c. \A c \in Callers : call[c].gen \in Nat
    BY DEF Calls
<1>1. CASE AppendText
  <2>1. CASE said < MaxTexts /\ said' = said + 1 /\ texts' = Append(texts, said')
    <3>1. said' \in TextIds /\ said' \in 0..MaxTexts
      BY <2>1, PlaybackAssumption DEF TextIds
    <3>2. texts' \in Seq(TextIds \cup {Flush})
      BY <2>1, <3>1
    <3> QED
      BY <1>1, <3>1, <3>2 DEF AppendText
  <2>2. CASE said' = said /\ texts' = Append(texts, Flush)
    <3>1. texts' \in Seq(TextIds \cup {Flush})
      BY <2>2
    <3> QED
      BY <1>1, <2>2, <3>1 DEF AppendText
  <2> QED
    BY <1>1, <2>1, <2>2 DEF AppendText
<1>2. CASE TtsCancel
  <2>1. call' \in [Callers -> Calls] /\ overlapped' \in BOOLEAN
    BY <1>0, <1>a, <1>2 DEF TtsCancel, Enters, CallAt
  <2> QED
    BY <1>2, <2>1 DEF TtsCancel
<1>3. CASE BusNotifies \/ BargeIn \/ NoBargeIn
  <2>1. call' \in [Callers -> Calls] /\ overlapped' \in BOOLEAN
    BY <1>0, <1>a, <1>3 DEF BusNotifies, BargeIn, NoBargeIn, Enters, CallAt
  <2> QED
    BY <1>3, <2>1 DEF BusNotifies, BargeIn, NoBargeIn
<1>4. ASSUME NEW c \in Callers, CancelPlayer(c) PROVE TypeInv'
  <2>1. [call[c] EXCEPT !.at = "engine"] \in Calls
    BY DEF Calls, CallAt
  <2>2. call' \in [Callers -> Calls]
    BY <1>4, <2>1 DEF CancelPlayer
  <2>3. texts' \in Seq(TextIds \cup {Flush})
    BY <1>4 DEF CancelPlayer
  <2> QED
    BY <1>4, <2>2, <2>3 DEF CancelPlayer
<1>5. ASSUME NEW c \in Callers, CancelEngine(c) PROVE TypeInv'
  <2>1. [call[c] EXCEPT !.at = "sink", !.gen = gen] \in Calls
    BY DEF Calls, CallAt
  <2>2. call' \in [Callers -> Calls]
    BY <1>5, <2>1 DEF CancelEngine
  <2>3. queue' \in Seq(Chunk)
    BY <1>5 DEF CancelEngine
  <2> QED
    BY <1>5, <2>2, <2>3 DEF CancelEngine
<1>6. ASSUME NEW c \in Callers, CancelDetaches(c) PROVE TypeInv'
  <2>1. call' \in [Callers -> Calls]
    BY <1>a, <1>6 DEF CancelDetaches, CallAt
  <2>2. stopped' \in Nat /\ stream' \in Nat /\ doomed' \in [Aborters -> Nat]
    BY <1>b, <1>c, <1>6, SinkTypes DEF CancelDetaches
  <2> QED
    BY <1>6, <2>1, <2>2 DEF CancelDetaches
<1>15. ASSUME NEW c \in Callers, CancelAborts(c) PROVE TypeInv'
  <2>1. call' \in [Callers -> Calls]
    BY <1>a, <1>15 DEF CancelAborts, CallAt
  <2>2. sounding' \in SUBSET Chunk /\ doomed' \in [Aborters -> Nat]
    BY <1>b, <1>15, SinkTypes DEF CancelAborts
  <2> QED
    BY <1>15, <2>1, <2>2 DEF CancelAborts
<1>7. ASSUME NEW c \in Callers, CancelIdles(c) PROVE TypeInv'
  <2>1. call' \in [Callers -> Calls]
    BY <1>a, <1>7 DEF CancelIdles, CallAt
  <2> QED
    BY <1>7, <2>1 DEF CancelIdles
<1>8. ASSUME NEW c \in Callers, CancelReleasesGate(c) PROVE TypeInv'
  <2>1. call' \in [Callers -> Calls]
    BY <1>a, <1>8 DEF CancelReleasesGate, CallAt
  <2>2. gate' \in {0, 1}
    BY <1>8 DEF CancelReleasesGate, Released
  <2> QED
    BY <1>8, <2>1, <2>2 DEF CancelReleasesGate
<1>9. ASSUME NEW c \in Callers, CancelDropsBuffer(c) PROVE TypeInv'
  <2>1. call' \in [Callers -> Calls]
    BY <1>a, <1>9 DEF CancelDropsBuffer, CallAt
  <2> QED
    BY <1>9, <2>1 DEF CancelDropsBuffer
<1>10. ASSUME NEW c \in Callers, CancelReturns(c) PROVE TypeInv'
  <2>1. NoCall \in Calls
    BY PlaybackAssumption DEF NoCall, Calls, CallAt
  <2>2. call' \in [Callers -> Calls]
    BY <1>10, <2>1 DEF CancelReturns
  <2>3. dead' \in Nat
    BY <1>c, <1>10 DEF CancelReturns, Later
  <2> QED
    BY <1>10, <2>2, <2>3 DEF CancelReturns
<1>11. CASE Close
  <2>1. call' \in [Callers -> Calls] /\ overlapped' \in BOOLEAN
    BY <1>0, <1>a, <1>11 DEF Close, Enters, CallAt
  <2> QED
    BY <1>11, <2>1 DEF Close
<1>12. CASE CloseJoinsSynth
  <2>1. call' \in [Callers -> Calls]
    BY <1>0, <1>a, <1>12 DEF CloseJoinsSynth, CloseFirst, CallAt
  <2> QED
    BY <1>12, <2>1 DEF CloseJoinsSynth
<1>13. CASE CloseSignals
  <2>1. call' \in [Callers -> Calls]
    BY <1>0, <1>a, <1>13 DEF CloseSignals, CallAt
  <2> QED
    BY <1>13, <2>1 DEF CloseSignals
<1>14. CASE CloseDetaches
  <2>1. Never \in Nat
    BY PlaybackAssumption DEF Never
  <2>2. call' \in [Callers -> Calls]
    BY <1>0, <1>a, <1>14 DEF CloseDetaches, CallAt
  <2>3. stopped' \in Nat /\ stream' \in Nat /\ doomed' \in [Aborters -> Nat]
    BY <1>0, <1>b, <1>14, <2>1, SinkTypes DEF CloseDetaches
  <2> QED
    BY <1>14, <2>2, <2>3 DEF CloseDetaches
<1>16. CASE Closes
  <2>1. call' \in [Callers -> Calls]
    BY <1>0, <1>a, <1>16 DEF Closes, CallAt
  <2>2. sounding' \in SUBSET Chunk /\ doomed' \in [Aborters -> Nat]
    BY <1>0, <1>b, <1>16, SinkTypes DEF Closes
  <2> QED
    BY <1>16, <2>1, <2>2 DEF Closes
<1> QED
    BY <1>1, <1>2, <1>3, <1>4, <1>5, <1>6, <1>7, <1>8, <1>9, <1>10, <1>11, <1>12, <1>13, <1>14,
       <1>15, <1>16 DEF CallerNext

\* Every step keeps the types.
LEMMA TypeStep == TypeInv /\ [Next]_vars => TypeInv'
<1> SUFFICES ASSUME TypeInv, [Next]_vars PROVE TypeInv'
    OBVIOUS
<1>1. CASE UNCHANGED vars
    BY <1>1 DEF vars, TypeInv, TypeOK, SubmitInv
<1> QED
    BY <1>1, TypeWorker, TypeSynth, TypeCaller DEF Next

\* Every variable of the player, the engine and the sink keeps its type; the
\* gate is never engaged twice.
THEOREM TypeCorrect == Spec => []TypeOK
<1>1. TypeInv => TypeOK
    BY DEF TypeInv
<1> QED
    BY TypeInit, TypeStep, <1>1, PTL DEF Spec

-----------------------------------------------------------------------------
(* How the threads move *)

\* One caller goes from one place to another, the rest of them stay.
Moves(c, a, b) ==
    /\ call[c].at = a /\ call'[c].at = b
    /\ \A d \in Callers \ {c} : call'[d] = call[d]

\* Each step of the callers is one move, which keeps the generation that the
\* caller has ended; except that CancelEngine notes it and CancelReturns forgets it.
LEMMA CallersMove ==
    ASSUME TypeInv
    PROVE  /\ TtsCancel => Moves("loop", "idle", "called") /\ call'["loop"].gen = call["loop"].gen
           /\ BusNotifies =>
                 Moves("bus", "idle", "notified") /\ call'["bus"].gen = call["bus"].gen
           /\ BargeIn => Moves("bus", "notified", "called") /\ call'["bus"].gen = call["bus"].gen
           /\ NoBargeIn => Moves("bus", "notified", "idle") /\ call'["bus"].gen = call["bus"].gen
           /\ Close => Moves("loop", "idle", "joinSynth") /\ call'["loop"].gen = call["loop"].gen
           /\ CloseJoinsSynth =>
                 Moves("loop", "joinSynth", "engine") /\ call'["loop"].gen = call["loop"].gen
           /\ CloseSignals =>
                 Moves("loop", "join", "joinWorker") /\ call'["loop"].gen = call["loop"].gen
           /\ CloseDetaches =>
                 Moves("loop", "joinWorker", "closing") /\ call'["loop"].gen = call["loop"].gen
           /\ Closes => Moves("loop", "closing", "closed") /\ call'["loop"].gen = call["loop"].gen
           /\ \A c \in Callers :
                 /\ CancelPlayer(c) =>
                       Moves(c, "called", "engine") /\ call'[c].gen = call[c].gen
                 /\ CancelEngine(c) => Moves(c, "engine", "sink") /\ call'[c].gen = gen
                 /\ CancelDetaches(c) => Moves(c, "sink", "abort") /\ call'[c].gen = call[c].gen
                 /\ CancelAborts(c) => Moves(c, "abort", "quiet") /\ call'[c].gen = call[c].gen
                 /\ CancelIdles(c) => Moves(c, "quiet", "gate") /\ call'[c].gen = call[c].gen
                 /\ CancelReleasesGate(c) =>
                       /\ Moves(c, "gate", IF c = "loop" /\ shut THEN "join" ELSE "stream")
                       /\ call'[c].gen = call[c].gen
                 /\ CancelDropsBuffer(c) =>
                       Moves(c, "stream", "reset") /\ call'[c].gen = call[c].gen
                 /\ CancelReturns(c) => Moves(c, "reset", "idle")
<1>0. call \in [Callers -> Calls] /\ "loop" \in Callers /\ "bus" \in Callers
    BY DEF TypeInv, TypeOK, Callers
<1>a. ASSUME NEW c \in Callers, NEW a \in CallAt, NEW b \in CallAt, Steps(c, a, b)
      PROVE  Moves(c, a, b) /\ call'[c].gen = call[c].gen
    BY <1>0, <1>a, CallType DEF Moves
<1>1. /\ TtsCancel => Steps("loop", "idle", "called")
      /\ BusNotifies => Steps("bus", "idle", "notified")
      /\ BargeIn => Steps("bus", "notified", "called")
      /\ NoBargeIn => Steps("bus", "notified", "idle")
      /\ Close => Steps("loop", "idle", "joinSynth")
      /\ CloseJoinsSynth => Steps("loop", "joinSynth", "engine")
      /\ CloseSignals => Steps("loop", "join", "joinWorker")
      /\ CloseDetaches => Steps("loop", "joinWorker", "closing")
      /\ Closes => Steps("loop", "closing", "closed")
    BY DEF TtsCancel, BusNotifies, BargeIn, NoBargeIn, Close, CloseJoinsSynth, CloseFirst,
       CloseSignals, CloseDetaches, Closes
<1>2. ASSUME NEW c \in Callers
      PROVE  /\ CancelDetaches(c) => Steps(c, "sink", "abort")
             /\ CancelAborts(c) => Steps(c, "abort", "quiet")
             /\ CancelIdles(c) => Steps(c, "quiet", "gate")
             /\ CancelReleasesGate(c) =>
                   Steps(c, "gate", IF c = "loop" /\ shut THEN "join" ELSE "stream")
             /\ CancelDropsBuffer(c) => Steps(c, "stream", "reset")
    BY DEF CancelDetaches, CancelAborts, CancelIdles, CancelReleasesGate, CancelDropsBuffer
<1>3. ASSUME NEW c \in Callers, CancelPlayer(c)
      PROVE  Moves(c, "called", "engine") /\ call'[c].gen = call[c].gen
    BY <1>0, <1>3 DEF CancelPlayer, Moves, Calls
<1>4. ASSUME NEW c \in Callers, CancelEngine(c)
      PROVE  Moves(c, "engine", "sink") /\ call'[c].gen = gen
    BY <1>0, <1>4 DEF CancelEngine, Moves, Calls
<1>5. ASSUME NEW c \in Callers, CancelReturns(c) PROVE Moves(c, "reset", "idle")
    BY <1>0, <1>5 DEF CancelReturns, Moves, NoCall
<1> QED
    BY <1>0, <1>a, <1>1, <1>2, <1>3, <1>4, <1>5 DEF CallAt

\* The playback worker keeps its chunk, gives it up, or takes the next one; the
\* stream is closed, kept, or opened for that chunk.
LEMMA WorkerMoves ==
    ASSUME TypeInv, WorkerNext
    PROVE  /\ UNCHANGED <<spokenGen, shut, gen, cancelled, closed, call, dead, overlapped>>
           /\ \/ worker'.chunk \in {worker.chunk, Silence} /\ queue' = queue
              \/ queue # <<>> /\ worker'.chunk = Head(queue) /\ queue' = Tail(queue)
           /\ stream' \in {stream, 0, worker.chunk.gen}
           /\ worker.at \notin {"ended", "dead"}
<1> USE DEF TypeInv, TypeOK, Workers, playerVars, engineVars, sinkVars, history, At, Goes, Loops,
        Drops, Resting
<1>1. CASE WorkerTakes
    BY <1>1 DEF WorkerTakes
<1>2. CASE WorkerBegins \/ WorkerActivatesGate \/ WorkerChecks
    BY <1>2 DEF WorkerBegins, WorkerActivatesGate, WorkerChecks
<1>3. CASE WorkerStartsSink
    BY <1>3 DEF WorkerStartsSink
<1>4. CASE WorkerDetachesStale
    BY <1>4 DEF WorkerDetachesStale, Detach
<1>5. CASE WorkerWrites \/ WorkerAbortsStale
    BY <1>5 DEF WorkerWrites, WorkerAbortsStale
<1>6. CASE WorkerPaces \/ WorkerMayIdle \/ WorkerIdles \/ WorkerReleasesGate
    BY <1>6 DEF WorkerPaces, WorkerMayIdle, WorkerIdles, WorkerReleasesGate
<1> QED
    BY <1>1, <1>2, <1>3, <1>4, <1>5, <1>6 DEF WorkerNext

\* The synthesis worker touches nothing of the engine but the queue, where it
\* puts a chunk of the current generation, and only when nothing is cancelled.
LEMMA SynthMoves ==
    ASSUME TypeInv, SynthNext
    PROVE  /\ UNCHANGED <<spokenGen, shut, gen, cancelled, playing, gate, closed, worker,
                          sinkVars, call, history>>
           /\ \/ queue' = queue
              \/ ~cancelled /\ \E t : queue' = Append(queue, [gen |-> gen, texts |-> t])
BY DEF SynthNext, SynthTakes, SynthReadsGeneration, SynthPushes, SynthSpeaks, SynthSubmits,
       engineVars, sinkVars

-----------------------------------------------------------------------------
(* What is heard is later than what was stopped *)

\* A thread that detaches a stream is on its way to abort it, and when it gets
\* there it does.
LEMMA DoomStep == TypeInv /\ DoomInv /\ [Next]_vars => DoomInv'
<1> SUFFICES ASSUME TypeInv, DoomInv, [Next]_vars PROVE DoomInv'
    OBVIOUS
<1>0. /\ doomed \in [Aborters -> Nat] /\ worker \in Workers
      /\ "worker" \in Aborters /\ "worker" \notin Callers /\ Callers \subseteq Aborters
      /\ Callers = {"bus", "loop"}
    BY DEF TypeInv, TypeOK, Aborters, Callers
<1> USE DEF Moves
<1>1. ASSUME UNCHANGED doomed, worker.at = "abort" => worker'.at = "abort",
             \A c \in Callers : call[c].at \in {"abort", "closing"} => call'[c].at = call[c].at
      PROVE  DoomInv'
    BY <1>0, <1>1 DEF DoomInv
<1>2. CASE WorkerNext
  <2>1. call' = call
    BY <1>2, WorkerMoves
  <2>2. CASE WorkerDetachesStale
    <3>1. worker'.at = "abort"
      BY <1>0, <2>2 DEF WorkerDetachesStale, Goes, Workers
    <3>2. \A c \in Callers : doomed'[c] = doomed[c]
      BY <1>0, <2>2 DEF WorkerDetachesStale, Detach
    <3> QED
      BY <2>1, <3>1, <3>2 DEF DoomInv
  <2>3. CASE WorkerAbortsStale
    <3>1. doomed'["worker"] = 0 /\ \A c \in Callers : doomed'[c] = doomed[c]
      BY <1>0, <2>3 DEF WorkerAbortsStale, Abort
    <3> QED
      BY <2>1, <3>1 DEF DoomInv
  <2>4. CASE \/ WorkerTakes \/ WorkerBegins \/ WorkerStartsSink \/ WorkerActivatesGate
             \/ WorkerChecks \/ WorkerWrites \/ WorkerPaces \/ WorkerMayIdle \/ WorkerIdles
             \/ WorkerReleasesGate
    <3>1. worker.at # "abort" /\ UNCHANGED doomed
      BY <2>4 DEF WorkerTakes, WorkerBegins, WorkerStartsSink, WorkerActivatesGate,
         WorkerChecks, WorkerWrites, WorkerPaces, WorkerMayIdle, WorkerIdles,
         WorkerReleasesGate, At, sinkVars
    <3> QED
      BY <1>1, <2>1, <3>1
  <2> QED
    BY <1>2, <2>2, <2>3, <2>4 DEF WorkerNext
<1>3. CASE SynthNext \/ SoundEnds \/ AppendText \/ UNCHANGED vars
  <2>1. UNCHANGED <<doomed, worker, call>>
    BY <1>3, SynthMoves DEF SoundEnds, AppendText, vars, sinkVars
  <2> QED
    BY <1>1, <2>1
<1>4. CASE \/ TtsCancel \/ BusNotifies \/ BargeIn \/ NoBargeIn \/ Close \/ CloseJoinsSynth
           \/ CloseSignals
  <2>1. UNCHANGED <<doomed, worker>>
    BY <1>4 DEF TtsCancel, BusNotifies, BargeIn, NoBargeIn, Close, CloseJoinsSynth, CloseSignals,
       sinkVars
  <2> QED
    BY <1>0, <1>1, <1>4, <2>1, CallersMove
<1>5. ASSUME NEW c \in Callers,
             \/ CancelPlayer(c) \/ CancelEngine(c) \/ CancelIdles(c) \/ CancelReleasesGate(c)
             \/ CancelDropsBuffer(c) \/ CancelReturns(c)
      PROVE  DoomInv'
  <2>1. UNCHANGED <<doomed, worker>>
    BY <1>5 DEF CancelPlayer, CancelEngine, CancelIdles, CancelReleasesGate, CancelDropsBuffer,
       CancelReturns, sinkVars
  <2>2. /\ call[c].at \notin {"abort", "closing"}
        /\ \A d \in Callers \ {c} : call'[d] = call[d]
    BY <1>0, <1>5, CallersMove
  <2> QED
    BY <1>1, <2>1, <2>2
<1>6. ASSUME NEW c \in Callers, NEW g, Detach(c, g), call'[c].at \in {"abort", "closing"},
             \A d \in Callers \ {c} : call'[d] = call[d], worker' = worker
      PROVE  DoomInv'
  <2>1. \A a \in Aborters \ {c} : doomed'[a] = doomed[a]
    BY <1>0, <1>6 DEF Detach
  <2> QED
    BY <1>0, <1>6, <2>1 DEF DoomInv
<1>7. ASSUME NEW c \in Callers, Abort(c), worker' = worker,
             \A d \in Callers \ {c} : call'[d] = call[d]
      PROVE  DoomInv'
  <2>1. doomed'[c] = 0 /\ \A a \in Aborters \ {c} : doomed'[a] = doomed[a]
    BY <1>0, <1>7 DEF Abort
  <2> QED
    BY <1>0, <1>7, <2>1 DEF DoomInv
<1>8. ASSUME NEW c \in Callers, CancelDetaches(c) PROVE DoomInv'
  <2>1. Detach(c, call[c].gen) /\ worker' = worker
    BY <1>8 DEF CancelDetaches
  <2> QED
    BY <1>6, <1>8, <2>1, CallersMove
<1>9. ASSUME NEW c \in Callers, CancelAborts(c) PROVE DoomInv'
  <2>1. Abort(c) /\ worker' = worker
    BY <1>9 DEF CancelAborts
  <2> QED
    BY <1>7, <1>9, <2>1, CallersMove
<1>10. CASE CloseDetaches
  <2>1. Detach("loop", Never) /\ worker' = worker
    BY <1>10 DEF CloseDetaches
  <2> QED
    BY <1>0, <1>6, <1>10, <2>1, CallersMove
<1>11. CASE Closes
  <2>1. Abort("loop") /\ worker' = worker
    BY <1>11 DEF Closes
  <2> QED
    BY <1>0, <1>7, <1>11, <2>1, CallersMove
<1> QED
    BY <1>2, <1>3, <1>4, <1>5, <1>8, <1>9, <1>10, <1>11 DEF Next, CallerNext

\* Detaching leaves no stream that is not later than what is stopped; its sound is
\* then that of a stream about to be aborted.
LEMMA SinkDetaches ==
    ASSUME TypeOK, StreamInv, NEW a \in Aborters, doomed[a] = 0, NEW g \in Nat, Detach(a, g),
           sounding' = sounding, DoomInv'
    PROVE  /\ stopped' \in Nat /\ stopped' >= stopped /\ stopped' >= g
           /\ StreamInv'
<1>1. stopped' \in Nat /\ stopped' >= stopped /\ stopped' >= g
    BY DEF Detach, Later, TypeOK
<1>0. doomed \in [Aborters -> Nat] /\ stream \in Nat
    BY DEF TypeOK
<1>2. CASE stream <= stopped'
  <2>1. stream' = 0 /\ doomed'[a] = stream /\ \A b \in Aborters \ {a} : doomed'[b] = doomed[b]
    BY <1>0, <1>2 DEF Detach
  <2>2. ASSUME NEW s \in sounding PROVE s.gen # 0 /\ BeingAborted(s)'
    BY <2>1 DEF StreamInv, BeingAborted
  <2> QED
    BY <1>1, <2>1, <2>2 DEF StreamInv
<1>3. CASE ~(stream <= stopped')
  <2>1. stream' = stream /\ doomed' = doomed
    BY <1>3 DEF Detach
  <2>2. \A s \in sounding : BeingAborted(s)' <=> BeingAborted(s)
    BY <2>1 DEF BeingAborted
  <2> QED
    BY <1>0, <1>1, <1>3, <2>1, <2>2 DEF StreamInv
<1> QED
    BY <1>1, <1>2, <1>3

\* Aborting ends the sound of the one stream that the thread has detached.
LEMMA SinkAborts ==
    ASSUME TypeOK, StreamInv, NEW a \in Aborters, Abort(a), UNCHANGED <<stream, stopped>>,
           DoomInv'
    PROVE  StreamInv'
<1>1. \A b \in Aborters \ {a} : doomed'[b] = doomed[b]
    BY DEF Abort, TypeOK
<1>2. ASSUME NEW s \in sounding' PROVE s.gen # 0 /\ (s.gen = stream \/ BeingAborted(s)')
  <2>1. s \in sounding /\ s.gen # doomed[a]
    BY <1>2 DEF Abort
  <2> QED
    BY <1>1, <2>1 DEF StreamInv, BeingAborted
<1> QED
    BY <1>2 DEF StreamInv

\* The sink opens a stream only for a generation that is not stopped, and lets
\* through only its chunks.
LEMMA StreamStep == TypeInv /\ StreamInv /\ [Next]_vars => StreamInv' /\ stopped' >= stopped
<1> SUFFICES ASSUME TypeInv, StreamInv, [Next]_vars PROVE StreamInv' /\ stopped' >= stopped
    OBVIOUS
<1>0. /\ TypeOK /\ stopped \in Nat /\ stream \in Nat /\ worker.chunk.gen \in Nat
      /\ "worker" \in Aborters /\ Callers \subseteq Aborters /\ "loop" \in Callers
    BY WorkerType, ChunkType DEF TypeInv, TypeOK, Aborters, Callers
<1>d. DoomInv /\ DoomInv'
    BY DoomStep DEF StreamInv
<1>1. ASSUME UNCHANGED <<stopped, doomed>>, sounding' \subseteq sounding,
             stream' = stream \/ (stream = 0 /\ stream' > stopped)
      PROVE  StreamInv' /\ stopped' >= stopped
  <2>1. \A s \in sounding' : BeingAborted(s)' <=> BeingAborted(s)
    BY <1>1 DEF BeingAborted
  <2> QED
    BY <1>0, <1>d, <1>1, <2>1 DEF StreamInv
<1>2. CASE SoundEnds
    BY <1>1, <1>2 DEF SoundEnds
<1>3. CASE WorkerStartsSink
    BY <1>0, <1>1, <1>3 DEF WorkerStartsSink
<1>4. CASE WorkerDetachesStale
  <2>1. doomed["worker"] = 0
    BY <1>d, <1>4 DEF WorkerDetachesStale, At, DoomInv
  <2> QED
    BY <1>0, <1>d, <1>4, <2>1, SinkDetaches DEF WorkerDetachesStale
<1>5. CASE WorkerAbortsStale
    BY <1>0, <1>d, <1>5, SinkAborts DEF WorkerAbortsStale
<1>6. CASE WorkerWrites
  <2>1. UNCHANGED <<stream, stopped, doomed>>
    BY <1>6 DEF WorkerWrites
  <2>2. \/ sounding' = sounding
        \/ sounding' = sounding \cup {worker.chunk} /\ Admits(worker.chunk.gen)
    BY <1>6 DEF WorkerWrites
  <2>3. Admits(worker.chunk.gen) => worker.chunk.gen = stream /\ worker.chunk.gen # 0
    BY <1>0 DEF Admits
  <2>4. \A s \in sounding' : BeingAborted(s)' <=> BeingAborted(s)
    BY <2>1 DEF BeingAborted
  <2> QED
    BY <1>0, <1>d, <2>1, <2>2, <2>3, <2>4 DEF StreamInv
<1>7. ASSUME NEW c \in Callers, CancelDetaches(c) PROVE StreamInv' /\ stopped' >= stopped
  <2>1. call[c].gen \in Nat
    BY DEF TypeInv, TypeOK, Calls
  <2>2. doomed[c] = 0
    BY <1>d, <1>7 DEF CancelDetaches, Steps, DoomInv
  <2> QED
    BY <1>0, <1>d, <1>7, <2>1, <2>2, SinkDetaches DEF CancelDetaches
<1>8. ASSUME NEW c \in Callers, CancelAborts(c) PROVE StreamInv' /\ stopped' >= stopped
    BY <1>0, <1>d, <1>8, SinkAborts DEF CancelAborts
<1>9. CASE CloseDetaches
  <2>1. Never \in Nat
    BY PlaybackAssumption DEF Never
  <2>2. doomed["loop"] = 0
    BY <1>0, <1>d, <1>9 DEF CloseDetaches, Steps, DoomInv
  <2> QED
    BY <1>0, <1>d, <1>9, <2>1, <2>2, SinkDetaches DEF CloseDetaches
<1>10. CASE Closes
    BY <1>0, <1>d, <1>10, SinkAborts DEF Closes
<1>11. CASE WorkerNext
  <2>1. \/ UNCHANGED sinkVars
        \/ WorkerStartsSink \/ WorkerDetachesStale \/ WorkerAbortsStale \/ WorkerWrites
    BY <1>11 DEF WorkerNext, WorkerTakes, WorkerBegins, WorkerActivatesGate, WorkerChecks,
       WorkerPaces, WorkerMayIdle, WorkerIdles, WorkerReleasesGate
  <2> QED
    BY <1>1, <1>3, <1>4, <1>5, <1>6, <2>1 DEF sinkVars
<1>12. CASE SynthNext
    BY <1>1, <1>12, SynthMoves DEF sinkVars
<1>13. CASE CallerNext
  <2>1. \/ UNCHANGED sinkVars \/ CloseDetaches \/ Closes
        \/ \E c \in Callers : CancelDetaches(c) \/ CancelAborts(c)
    BY <1>13 DEF CallerNext, AppendText, TtsCancel, BusNotifies, BargeIn, NoBargeIn,
       CancelPlayer, CancelEngine, CancelIdles, CancelReleasesGate, CancelDropsBuffer,
       CancelReturns, Close, CloseJoinsSynth, CloseSignals
  <2> QED
    BY <1>1, <1>7, <1>8, <1>9, <1>10, <2>1 DEF sinkVars
<1>14. CASE UNCHANGED vars
    BY <1>1, <1>14 DEF vars
<1> QED
    BY <1>2, <1>11, <1>12, <1>13, <1>14 DEF Next

\* A caller moves past the sink only by stopping it there, and returns only then.
LEMMA CancelStep == TypeInv /\ StreamInv /\ CancelInv /\ [Next]_vars => CancelInv'
<1> SUFFICES ASSUME TypeInv, StreamInv, CancelInv, [Next]_vars PROVE CancelInv'
    OBVIOUS
<1> DEFINE Past == {"abort", "quiet", "gate", "stream", "reset"}
<1>0. /\ stopped \in Nat /\ stopped' \in Nat /\ stopped' >= stopped
      /\ dead \in Nat /\ call \in [Callers -> Calls]
      /\ \A c \in Callers : call[c].gen \in Nat
    BY StreamStep, TypeStep DEF TypeInv, TypeOK, Calls
<1>1. CASE UNCHANGED <<call, dead>>
    BY <1>0, <1>1 DEF CancelInv
<1>2. ASSUME NEW c \in Callers, NEW a \in CallAt, NEW b \in CallAt, Steps(c, a, b), dead' = dead,
             b \in Past => call[c].gen <= stopped'
      PROVE  CancelInv'
  <2>1. /\ call'[c].at = b /\ call'[c].gen = call[c].gen
        /\ \A d \in Callers \ {c} : call'[d] = call[d]
    BY <1>0, <1>2, CallType
  <2> QED
    BY <1>0, <1>2, <2>1 DEF CancelInv
<1>3. ASSUME NEW c \in Callers, CancelPlayer(c) \/ CancelEngine(c) PROVE CancelInv'
  <2>1. /\ call'[c].at \notin Past /\ dead' = dead
        /\ \A d \in Callers \ {c} : call'[d] = call[d]
    BY <1>0, <1>3 DEF CancelPlayer, CancelEngine, history, Calls
  <2> QED
    BY <1>0, <2>1 DEF CancelInv
<1>4. ASSUME NEW c \in Callers, CancelDetaches(c) PROVE CancelInv'
  <2>1. call[c].gen <= stopped'
    BY <1>0, <1>4 DEF CancelDetaches, Detach, Later
  <2> QED
    BY <1>2, <1>4, <2>1 DEF CancelDetaches, CallAt, history
<1>13. ASSUME NEW c \in Callers, CancelAborts(c) PROVE CancelInv'
  <2>1. call[c].gen <= stopped'
    BY <1>0, <1>13 DEF CancelAborts, Steps, CancelInv
  <2> QED
    BY <1>2, <1>13, <2>1 DEF CancelAborts, CallAt, history
<1>5. ASSUME NEW c \in Callers, CancelIdles(c) PROVE CancelInv'
  <2>1. call[c].gen <= stopped'
    BY <1>0, <1>5 DEF CancelIdles, Steps, CancelInv
  <2> QED
    BY <1>2, <1>5, <2>1 DEF CancelIdles, CallAt, history
<1>6. ASSUME NEW c \in Callers, CancelReleasesGate(c) PROVE CancelInv'
  <2>1. call[c].gen <= stopped'
    BY <1>0, <1>6 DEF CancelReleasesGate, Steps, CancelInv
  <2> QED
    BY <1>2, <1>6, <2>1 DEF CancelReleasesGate, CallAt, history
<1>7. ASSUME NEW c \in Callers, CancelDropsBuffer(c) PROVE CancelInv'
  <2>1. call[c].gen <= stopped'
    BY <1>0, <1>7 DEF CancelDropsBuffer, Steps, CancelInv
  <2> QED
    BY <1>2, <1>7, <2>1 DEF CancelDropsBuffer, CallAt, history
<1>8. ASSUME NEW c \in Callers, CancelReturns(c) PROVE CancelInv'
  <2>1. /\ call'[c].at \notin Past
        /\ \A d \in Callers \ {c} : call'[d] = call[d]
    BY <1>0, <1>8 DEF CancelReturns, NoCall
  <2>2. call[c].gen <= stopped'
    BY <1>0, <1>8 DEF CancelReturns, CancelInv
  <2>3. dead' <= stopped'
    BY <1>0, <1>8, <2>2 DEF CancelReturns, Later, CancelInv
  <2> QED
    BY <1>0, <2>1, <2>3 DEF CancelInv
<1>9. CASE TtsCancel \/ BusNotifies \/ BargeIn \/ NoBargeIn
    BY <1>2, <1>9 DEF TtsCancel, BusNotifies, BargeIn, NoBargeIn, CallAt, Callers, history
<1>10. CASE Close \/ CloseJoinsSynth \/ CloseSignals \/ CloseDetaches \/ Closes
    BY <1>2, <1>10 DEF Close, CloseJoinsSynth, CloseSignals, CloseDetaches, Closes, CloseFirst,
       CallAt, Callers, history
<1>11. CASE WorkerNext \/ SynthNext \/ SoundEnds \/ AppendText
  <2>1. UNCHANGED <<call, dead>>
    BY <1>11, WorkerMoves, SynthMoves DEF SoundEnds, AppendText, history
  <2> QED
    BY <1>1, <2>1
<1>12. CASE UNCHANGED vars
    BY <1>1, <1>12 DEF vars
<1> QED
    BY <1>3, <1>4, <1>5, <1>6, <1>7, <1>8, <1>9, <1>10, <1>11, <1>12, <1>13 DEF Next, CallerNext

\* Once cancel() has returned, no chunk that was queued or in flight in the
\* engine before it is heard again: the sink has stopped its generation, and
\* what sounds belongs to a stream later than every generation stopped, or to one
\* that a thread has detached and is about to abort.
THEOREM CancelledStaysSilent == Spec => []CancelledChunksAreSilent
<1>1. Init => SoundInv
    BY TypeInit DEF SoundInv, Init, StreamInv, DoomInv, CancelInv, NoCall, Aborters
<1>2. SoundInv /\ [Next]_vars => SoundInv'
    BY TypeStep, StreamStep, CancelStep DEF SoundInv
<1>3. SoundInv => CancelledChunksAreSilent
  <2> SUFFICES ASSUME SoundInv, NEW s \in sounding, s.gen <= dead PROVE BeingAborted(s)
    BY DEF CancelledChunksAreSilent
  <2>1. s.gen \in Nat /\ dead \in Nat /\ stopped \in Nat /\ stream \in Nat
    BY DEF SoundInv, TypeInv, TypeOK, Chunk
  <2>2. s.gen <= stopped /\ s.gen # 0
    BY <2>1 DEF SoundInv, CancelInv, StreamInv
  <2> QED
    BY <2>1, <2>2 DEF SoundInv, StreamInv
<1> QED
    BY <1>1, <1>2, <1>3, PTL DEF Spec

-----------------------------------------------------------------------------
(* An engaged gate has someone who will release it *)

\* The order of close() is kept, and nothing is queued behind its back.
LEMMA ShutStep == TypeInv /\ ShutInv /\ [Next]_vars => ShutInv'
<1> SUFFICES ASSUME TypeInv, ShutInv, [Next]_vars PROVE ShutInv'
    OBVIOUS
<1> DEFINE loop == call["loop"].at
<1>0. call \in [Callers -> Calls] /\ "loop" \in Callers /\ queue \in Seq(Chunk)
    BY DEF TypeInv, TypeOK, Callers
<1>1. CASE UNCHANGED <<loop, shut, closed, queue>> /\ (synth'.at = synth.at \/ synth'.at = "ended")
    BY <1>1 DEF ShutInv
<1>2. CASE WorkerNext
  <2>1. UNCHANGED <<loop, shut, closed, synth>> /\ (queue = <<>> => queue' = queue)
    BY <1>2 DEF WorkerNext, WorkerTakes, WorkerBegins, WorkerStartsSink, WorkerActivatesGate,
       WorkerDetachesStale, WorkerAbortsStale, WorkerChecks, WorkerWrites, WorkerPaces,
       WorkerMayIdle, WorkerIdles, WorkerReleasesGate, playerVars, engineVars
  <2> QED
    BY <2>1 DEF ShutInv
<1>3. CASE SynthNext
  <2>1. UNCHANGED <<loop, shut, closed>>
    BY <1>3 DEF SynthNext, SynthTakes, SynthReadsGeneration, SynthPushes, SynthSpeaks,
       SynthSubmits, engineVars
  <2>2. CASE ~shut \/ loop = "joinSynth"
    BY <2>1, <2>2 DEF ShutInv
  <2>3. CASE shut /\ loop # "joinSynth"
    <3>1. synth.at \in {"speaking", "ended"}
      BY <2>3 DEF ShutInv
    <3>2. SynthSpeaks
      BY <1>3, <3>1 DEF SynthNext, SynthTakes, SynthReadsGeneration, SynthPushes, SynthSubmits
    <3>3. synth' = Idle("ended") /\ UNCHANGED queue
      BY <2>3, <3>2 DEF SynthSpeaks, SynthLoops, engineVars
    <3> QED
      BY <1>1, <2>1, <3>3 DEF Idle
  <2> QED
    BY <2>2, <2>3
<1>4. CASE SoundEnds \/ AppendText
    BY <1>1, <1>4 DEF SoundEnds, AppendText, playerVars, engineVars
<1>5. CASE TtsCancel
  <2>1. loop' = "called" /\ ~shut /\ UNCHANGED <<shut, closed, queue, synth>> /\ loop = "idle"
    BY <1>0, <1>5, CallType DEF TtsCancel, Open, CallAt, playerVars, engineVars
  <2> QED
    BY <2>1 DEF ShutInv
<1>6. CASE BusNotifies \/ BargeIn \/ NoBargeIn
  <2>1. UNCHANGED <<loop, shut, closed, queue, synth>>
    BY <1>0, <1>6 DEF BusNotifies, BargeIn, NoBargeIn, Steps, playerVars, engineVars
  <2> QED
    BY <1>1, <2>1
<1>7. ASSUME NEW c \in Callers, c # "loop",
             \/ CancelPlayer(c) \/ CancelEngine(c) \/ CancelDetaches(c) \/ CancelAborts(c)
             \/ CancelIdles(c) \/ CancelReleasesGate(c) \/ CancelDropsBuffer(c)
             \/ CancelReturns(c)
      PROVE  ShutInv'
  <2>1. UNCHANGED <<loop, shut, closed, synth>> /\ (queue' = queue \/ queue' = <<>>)
    BY <1>0, <1>7 DEF CancelPlayer, CancelEngine, CancelDetaches, CancelAborts, CancelIdles,
       CancelReleasesGate, CancelDropsBuffer, CancelReturns, Steps, playerVars, engineVars
  <2> QED
    BY <2>1 DEF ShutInv
<1>8. CASE CancelPlayer("loop")
  <2>1. loop = "called" /\ loop' = "engine" /\ UNCHANGED <<shut, closed, queue, synth>>
    BY <1>0, <1>8 DEF CancelPlayer, engineVars, Calls
  <2> QED
    BY <2>1 DEF ShutInv, Closing
<1>9. CASE CancelEngine("loop")
  <2>1. loop = "engine" /\ loop' = "sink" /\ UNCHANGED <<shut, closed, synth>> /\ queue' = <<>>
    BY <1>0, <1>9 DEF CancelEngine, playerVars, Calls
  <2> QED
    BY <2>1 DEF ShutInv, Closing
<1>10. CASE CancelDetaches("loop")
  <2>1. loop = "sink" /\ loop' = "abort" /\ UNCHANGED <<shut, closed, queue, synth>>
    BY <1>0, <1>10, CallType DEF CancelDetaches, CallAt, playerVars, engineVars
  <2> QED
    BY <2>1 DEF ShutInv, Closing
<1>20. CASE CancelAborts("loop")
  <2>1. loop = "abort" /\ loop' = "quiet" /\ UNCHANGED <<shut, closed, queue, synth>>
    BY <1>0, <1>20, CallType DEF CancelAborts, CallAt, playerVars, engineVars
  <2> QED
    BY <2>1 DEF ShutInv, Closing
<1>11. CASE CancelIdles("loop")
  <2>1. loop = "quiet" /\ loop' = "gate" /\ UNCHANGED <<shut, closed, queue, synth>>
    BY <1>0, <1>11, CallType DEF CancelIdles, CallAt, playerVars
  <2> QED
    BY <2>1 DEF ShutInv, Closing
<1>12. CASE CancelReleasesGate("loop")
  <2>1. /\ loop = "gate" /\ loop' = (IF shut THEN "join" ELSE "stream")
        /\ UNCHANGED <<shut, closed, queue, synth>>
    BY <1>0, <1>12, CallType DEF CancelReleasesGate, CallAt, playerVars
  <2> QED
    BY <2>1 DEF ShutInv, Closing
<1>13. CASE CancelDropsBuffer("loop")
  <2>1. loop = "stream" /\ loop' = "reset" /\ UNCHANGED <<shut, closed, queue, synth>>
    BY <1>0, <1>13, CallType DEF CancelDropsBuffer, CallAt, engineVars
  <2> QED
    BY <2>1 DEF ShutInv, Closing
<1>14. CASE CancelReturns("loop")
  <2>1. loop = "reset" /\ loop' = "idle" /\ UNCHANGED <<shut, closed, queue, synth>>
    BY <1>0, <1>14 DEF CancelReturns, NoCall, playerVars
  <2> QED
    BY <2>1 DEF ShutInv, Closing
<1>15. CASE Close
  <2>1. ~shut /\ shut' /\ loop' = "joinSynth" /\ UNCHANGED <<closed, queue, synth>> /\ loop = "idle"
    BY <1>0, <1>15, CallType DEF Close, Open, CallAt, engineVars
  <2> QED
    BY <2>1 DEF ShutInv, Closing
<1>16. CASE CloseJoinsSynth
  <2>1. /\ loop = "joinSynth" /\ loop' = "engine" /\ UNCHANGED <<shut, closed, queue, synth>>
        /\ synth.at \in {"speaking", "ended"}
    BY <1>0, <1>16, CallType DEF CloseJoinsSynth, CloseFirst, CallAt, playerVars, engineVars
  <2> QED
    BY <2>1 DEF ShutInv, Closing
<1>17. CASE CloseSignals
  <2>1. loop = "join" /\ loop' = "joinWorker" /\ closed' /\ UNCHANGED <<shut, queue, synth>>
    BY <1>0, <1>17, CallType DEF CloseSignals, CallAt, playerVars
  <2> QED
    BY <2>1 DEF ShutInv, Closing
<1>18. CASE CloseDetaches
  <2>1. loop = "joinWorker" /\ loop' = "closing" /\ UNCHANGED <<shut, closed, queue, synth>>
    BY <1>0, <1>18, CallType DEF CloseDetaches, CallAt, playerVars, engineVars
  <2> QED
    BY <2>1 DEF ShutInv, Closing
<1>21. CASE Closes
  <2>1. loop = "closing" /\ loop' = "closed" /\ UNCHANGED <<shut, closed, queue, synth>>
    BY <1>0, <1>21, CallType DEF Closes, CallAt, playerVars, engineVars
  <2> QED
    BY <2>1 DEF ShutInv, Closing
<1>19. CASE UNCHANGED vars
    BY <1>1, <1>19 DEF vars
<1> QED
    BY <1>2, <1>3, <1>4, <1>5, <1>6, <1>7, <1>8, <1>9, <1>10, <1>11, <1>12, <1>13, <1>14, <1>15,
       <1>16, <1>17, <1>18, <1>19, <1>20, <1>21 DEF Next, CallerNext

\* The worker gives up the engaged gate only to a chunk that waits, which close()
\* has not left there; and a cancel empties the queue on its way to release it.
LEMMA GateStep == TypeInv /\ ShutInv /\ GateIsOwned /\ [Next]_vars => GateIsOwned'
<1> SUFFICES ASSUME TypeInv, ShutInv, GateIsOwned, [Next]_vars, gate' > 0
             PROVE  \/ worker'.at \notin {"ready", "ended"}
                    \/ worker'.at = "ready" /\ queue' # <<>>
                    \/ \E c \in Callers : call'[c].at \in {"sink", "abort", "quiet", "gate"}
    BY DEF GateIsOwned
<1>0. /\ gate \in {0, 1} /\ worker \in Workers /\ queue \in Seq(Chunk)
      /\ call \in [Callers -> Calls]
    BY DEF TypeInv, TypeOK
<1>1. CASE WorkerTakes
    BY <1>0, <1>1 DEF WorkerTakes, Loops, Resting, At, GateIsOwned
<1>2. CASE WorkerBegins \/ WorkerStartsSink \/ WorkerActivatesGate \/ WorkerDetachesStale
           \/ WorkerAbortsStale \/ WorkerChecks \/ WorkerWrites \/ WorkerPaces \/ WorkerIdles
  <2>1. ~(worker'.at \in {"ready", "ended"})
    BY <1>0, <1>2 DEF WorkerBegins, WorkerStartsSink, WorkerActivatesGate, WorkerDetachesStale,
       WorkerAbortsStale, WorkerChecks, WorkerWrites, WorkerPaces, WorkerIdles, Goes, Drops,
       Resting, Workers
  <2> QED
    BY <2>1
<1>3. CASE WorkerMayIdle
  <2>1. CASE queue = <<>>
    BY <1>3, <2>1 DEF WorkerMayIdle, Drops, Resting
  <2>2. CASE queue # <<>>
    <3>1. ~closed
      BY <2>2 DEF ShutInv
    <3> QED
      BY <1>3, <2>2, <3>1 DEF WorkerMayIdle, Loops, Resting, engineVars
  <2> QED
    BY <2>1, <2>2
<1>4. CASE WorkerReleasesGate
    BY <1>0, <1>4 DEF WorkerReleasesGate, Released
<1>5. CASE SynthNext \/ SoundEnds \/ AppendText \/ UNCHANGED vars
  <2>1. UNCHANGED <<gate, worker, call>> /\ (queue # <<>> => queue' # <<>>)
    BY <1>0, <1>5 DEF SynthNext, SynthTakes, SynthReadsGeneration, SynthPushes, SynthSpeaks,
       SynthSubmits, SoundEnds, AppendText, vars, engineVars
  <2> QED
    BY <2>1 DEF GateIsOwned
<1>6. ASSUME NEW c \in Callers, NEW a \in CallAt, NEW b \in CallAt, Steps(c, a, b),
             a \in {"sink", "abort", "quiet", "gate"} =>
                b \in {"sink", "abort", "quiet", "gate"},
             UNCHANGED <<gate, worker, queue>>
      PROVE  \/ worker'.at \notin {"ready", "ended"}
             \/ worker'.at = "ready" /\ queue' # <<>>
             \/ \E d \in Callers : call'[d].at \in {"sink", "abort", "quiet", "gate"}
    BY <1>0, <1>6, CallType DEF GateIsOwned
<1>7. CASE TtsCancel \/ BusNotifies \/ BargeIn \/ NoBargeIn
    BY <1>6, <1>7 DEF TtsCancel, BusNotifies, BargeIn, NoBargeIn, CallAt, Callers, engineVars
<1>12. CASE Close \/ CloseJoinsSynth \/ CloseSignals \/ CloseDetaches \/ Closes
    BY <1>6, <1>12 DEF Close, CloseJoinsSynth, CloseSignals, CloseDetaches, Closes, CloseFirst,
       CallAt, Callers, engineVars
<1>8. ASSUME NEW c \in Callers,
             CancelDetaches(c) \/ CancelAborts(c) \/ CancelIdles(c) \/ CancelDropsBuffer(c)
      PROVE  \/ worker'.at \notin {"ready", "ended"}
             \/ worker'.at = "ready" /\ queue' # <<>>
             \/ \E d \in Callers : call'[d].at \in {"sink", "abort", "quiet", "gate"}
    BY <1>6, <1>8 DEF CancelDetaches, CancelAborts, CancelIdles, CancelDropsBuffer, CallAt,
       engineVars
<1>9. ASSUME NEW c \in Callers, CancelPlayer(c) \/ CancelReturns(c)
      PROVE  \/ worker'.at \notin {"ready", "ended"}
             \/ worker'.at = "ready" /\ queue' # <<>>
             \/ \E d \in Callers : call'[d].at \in {"sink", "abort", "quiet", "gate"}
  <2>1. /\ UNCHANGED <<gate, worker, queue>> /\ call[c].at \notin {"sink", "abort", "quiet", "gate"}
        /\ \A d \in Callers \ {c} : call'[d] = call[d]
    BY <1>0, <1>9 DEF CancelPlayer, CancelReturns, engineVars
  <2> QED
    BY <2>1 DEF GateIsOwned
<1>10. ASSUME NEW c \in Callers, CancelEngine(c)
       PROVE  \E d \in Callers : call'[d].at \in {"sink", "abort", "quiet", "gate"}
  <2>1. call'[c].at = "sink"
    BY <1>0, <1>10 DEF CancelEngine, Calls
  <2> QED
    BY <2>1
<1>11. ASSUME NEW c \in Callers, CancelReleasesGate(c) PROVE FALSE
    BY <1>0, <1>11 DEF CancelReleasesGate, Released
<1> QED
    BY <1>1, <1>2, <1>3, <1>4, <1>5, <1>7, <1>8, <1>9, <1>10, <1>11, <1>12
    DEF Next, WorkerNext, CallerNext

\* "Every start is paired with exactly one stop, even if a PTT barge-in races
\* worker startup": whatever the order of cancels, close and the two workers, an
\* engaged gate is never left with nobody to release it.
THEOREM GateStaysOwned == Spec => []GateIsOwned
<1>1. Init => GateInv
    BY TypeInit DEF GateInv, Init, ShutInv, GateIsOwned, NoCall, Callers
<1>2. GateInv /\ [Next]_vars => GateInv'
    BY TypeStep, ShutStep, GateStep DEF GateInv
<1>3. GateInv => GateIsOwned
    BY DEF GateInv
<1> QED
    BY <1>1, <1>2, <1>3, PTL DEF Spec

-----------------------------------------------------------------------------
(* A closed connection leaves nothing behind *)

\* Nothing in the engine is newer than its generation, and what is queued is of it.
AgeInv ==
    /\ worker.chunk.gen <= gen /\ stream <= gen
    /\ \A i \in DOMAIN queue : queue[i].gen = gen

\* A generation ends once per cancel of the player, and once more for close().
Count(label) ==
    (IF call["bus"].at = label THEN 1 ELSE 0) + (IF call["loop"].at = label THEN 1 ELSE 0)
BoundInv ==
    /\ spokenGen + Count("notified") + Count("called") <= MaxCancels
    /\ gen + Count("engine")
         <= spokenGen + (IF shut /\ call["loop"].at # "joinSynth" THEN 2 ELSE 1)

\* After the cancel of close() no chunk is current any more, so that the gate which
\* it releases is not engaged again, and the stream that it aborts is the last one.
CloseInv ==
    /\ shut /\ call["loop"].at \notin {"joinSynth", "engine"} => worker.chunk.gen < gen
    /\ call["loop"].at \in {"join", "joinWorker", "closing", "closed"} => gate = 0
    /\ call["loop"].at \in {"closing", "closed"} => worker.at \in {"ended", "dead"} /\ stream = 0

ClosedInv == TypeInv /\ StreamInv /\ ShutInv /\ AgeInv /\ BoundInv /\ CloseInv

\* A cancel empties the queue with the generation that it ends, so that what the
\* worker takes and what it opens a stream for are never of a later one.
LEMMA AgeStep == TypeInv /\ AgeInv /\ [Next]_vars => AgeInv'
<1> SUFFICES ASSUME TypeInv, AgeInv, [Next]_vars PROVE AgeInv'
    OBVIOUS
<1>0. /\ gen \in Nat \ {0} /\ stream \in Nat /\ queue \in Seq(Chunk)
      /\ worker.chunk \in Chunk /\ worker.chunk.gen \in Nat
    BY WorkerType, ChunkType DEF TypeInv, TypeOK
<1>1. CASE WorkerNext
  <2>1. worker'.chunk.gen <= gen' /\ \A i \in DOMAIN queue' : queue'[i].gen = gen'
    <3>1. CASE worker'.chunk \in {worker.chunk, Silence} /\ queue' = queue
      BY <1>0, <1>1, <3>1, WorkerMoves DEF AgeInv, Silence
    <3>2. CASE queue # <<>> /\ worker'.chunk = Head(queue) /\ queue' = Tail(queue)
      <4>1. Head(queue) = queue[1] /\ 1 \in DOMAIN queue
        BY <1>0, <3>2
      <4>2. \A i \in DOMAIN Tail(queue) : i + 1 \in DOMAIN queue /\ Tail(queue)[i] = queue[i + 1]
        BY <1>0, <3>2
      <4> QED
        BY <1>0, <1>1, <3>2, <4>1, <4>2, WorkerMoves DEF AgeInv
    <3> QED
      BY <1>1, <3>1, <3>2, WorkerMoves
  <2>2. stream' <= gen'
    BY <1>0, <1>1, WorkerMoves DEF AgeInv
  <2> QED
    BY <2>1, <2>2 DEF AgeInv
<1>2. CASE SynthNext
  <2>1. ASSUME NEW t, queue' = Append(queue, [gen |-> gen, texts |-> t])
        PROVE  \A i \in DOMAIN queue' : queue'[i].gen = gen
    <3> TAKE i \in DOMAIN queue'
    <3>1. i \in DOMAIN queue \/ queue'[i] = [gen |-> gen, texts |-> t]
      BY <1>0, <2>1
    <3>2. i \in DOMAIN queue => queue'[i] = queue[i]
      BY <1>0, <2>1
    <3> QED
      BY <3>1, <3>2 DEF AgeInv
  <2> QED
    BY <1>2, <2>1, SynthMoves DEF AgeInv, sinkVars
<1>3. ASSUME UNCHANGED <<worker, queue, gen>>, stream' \in {stream, 0} PROVE AgeInv'
    BY <1>0, <1>3 DEF AgeInv
<1>4. ASSUME NEW c \in Callers, CancelEngine(c) PROVE AgeInv'
    BY <1>0, <1>4 DEF CancelEngine, AgeInv, sinkVars
<1>5. ASSUME NEW c \in Callers, CancelDetaches(c) PROVE AgeInv'
    BY <1>3, <1>5 DEF CancelDetaches, Detach, engineVars
<1>6. CASE CloseDetaches
    BY <1>3, <1>6 DEF CloseDetaches, Detach, engineVars
<1>7. CASE SoundEnds \/ AppendText \/ TtsCancel \/ BusNotifies \/ BargeIn \/ NoBargeIn \/ Close
           \/ CloseJoinsSynth \/ CloseSignals \/ Closes \/ UNCHANGED vars
    BY <1>3, <1>7 DEF SoundEnds, AppendText, TtsCancel, BusNotifies, BargeIn, NoBargeIn, Close,
       CloseJoinsSynth, CloseSignals, Closes, vars, engineVars, sinkVars
<1>8. ASSUME NEW c \in Callers,
             \/ CancelPlayer(c) \/ CancelAborts(c) \/ CancelIdles(c) \/ CancelReleasesGate(c)
             \/ CancelDropsBuffer(c) \/ CancelReturns(c)
      PROVE  AgeInv'
    BY <1>3, <1>8 DEF CancelPlayer, CancelAborts, CancelIdles, CancelReleasesGate,
       CancelDropsBuffer, CancelReturns, engineVars, sinkVars
<1> QED
    BY <1>1, <1>2, <1>4, <1>5, <1>6, <1>7, <1>8 DEF Next, CallerNext

\* Of the two callers, so many are about to cancel the player, or may be.
LEMMA CountCalled == Called = Count("notified") + Count("called")
<1> DEFINE waiting == {c \in Callers : call[c].at \in {"notified", "called"}}
<1> DEFINE IsWaiting(c) == call[c].at \in {"notified", "called"}
<1>1. "bus" # "loop" /\ Callers = {"bus", "loop"} /\ Called = Cardinality(waiting)
    BY DEF Callers, Called
<1>2. Cardinality({}) = 0 /\ Cardinality({"bus"}) = 1 /\ Cardinality({"loop"}) = 1
    BY FS_EmptySet, FS_Singleton
<1>3. Cardinality({"bus"} \cup {"loop"}) = 2
  <2>1. IsFiniteSet({"bus"}) /\ "loop" \notin {"bus"}
    BY <1>1, FS_Singleton
  <2> QED
    BY <1>2, <2>1, FS_AddElement
<1>4. CASE IsWaiting("bus") /\ IsWaiting("loop")
  <2>1. waiting = {"bus"} \cup {"loop"}
    BY <1>1, <1>4
  <2>2. Called = 2
    BY <1>1, <1>3, <2>1
  <2> QED
    BY <1>4, <2>2 DEF Count
<1>5. CASE IsWaiting("bus") /\ ~IsWaiting("loop")
  <2>1. waiting = {"bus"}
    BY <1>1, <1>5
  <2>2. Called = 1
    BY <1>1, <1>2, <2>1
  <2> QED
    BY <1>5, <2>2 DEF Count
<1>6. CASE ~IsWaiting("bus") /\ IsWaiting("loop")
  <2>1. waiting = {"loop"}
    BY <1>1, <1>6
  <2>2. Called = 1
    BY <1>1, <1>2, <2>1
  <2> QED
    BY <1>6, <2>2 DEF Count
<1>7. CASE ~IsWaiting("bus") /\ ~IsWaiting("loop")
  <2>1. waiting = {}
    BY <1>1, <1>7
  <2>2. Called = 0
    BY <1>1, <1>2, <2>1
  <2> QED
    BY <1>7, <2>2 DEF Count
<1> QED
    BY <1>4, <1>5, <1>6, <1>7

\* A caller that waits for the player's lock is counted before, one that waits for
\* the engine's lock after the player's generation has moved on.
LEMMA BoundStep == TypeInv /\ ShutInv /\ BoundInv /\ [Next]_vars => BoundInv'
<1> SUFFICES ASSUME TypeInv, ShutInv, BoundInv, [Next]_vars PROVE BoundInv'
    OBVIOUS
<1>0. /\ gen \in Nat /\ spokenGen \in Nat /\ MaxCancels \in Nat /\ Callers = {"bus", "loop"}
      /\ shut \in BOOLEAN
    BY PlaybackAssumption DEF TypeInv, TypeOK, Callers
<1> USE DEF Moves, Count
<1>1. CASE UNCHANGED <<gen, spokenGen, shut, call>>
    BY <1>1 DEF BoundInv
<1>2. CASE WorkerNext \/ SynthNext \/ SoundEnds \/ AppendText \/ UNCHANGED vars
  <2>1. UNCHANGED <<gen, spokenGen, shut, call>>
    BY <1>2, WorkerMoves, SynthMoves DEF SoundEnds, AppendText, vars, engineVars, playerVars
  <2> QED
    BY <1>1, <2>1
<1>3. Called = Count("notified") + Count("called")
    BY CountCalled
<1>4. CASE TtsCancel \/ BusNotifies
  <2>1. UNCHANGED <<gen, spokenGen, shut>> /\ ~shut
    BY <1>4 DEF TtsCancel, BusNotifies, Open, playerVars, engineVars
  <2>2. spokenGen + Count("notified") + Count("called") < MaxCancels
    BY <1>0, <1>3, <1>4 DEF TtsCancel, BusNotifies
  <2> QED
    BY <1>0, <1>4, <2>1, <2>2, CallersMove DEF BoundInv
<1>9. CASE BargeIn \/ NoBargeIn
  <2>1. UNCHANGED <<gen, spokenGen, shut>>
    BY <1>9 DEF BargeIn, NoBargeIn, playerVars, engineVars
  <2> QED
    BY <1>0, <1>9, <2>1, CallersMove DEF BoundInv
<1>5. ASSUME NEW c \in Callers, CancelPlayer(c) PROVE BoundInv'
  <2>1. UNCHANGED <<gen, shut>> /\ spokenGen' = spokenGen + 1
    BY <1>5 DEF CancelPlayer, engineVars
  <2>2. c = "loop" => ~shut
    BY <1>5, CallersMove DEF ShutInv, Closing
  <2> QED
    BY <1>0, <1>5, <2>1, <2>2, CallersMove DEF BoundInv
<1>6. ASSUME NEW c \in Callers, CancelEngine(c) PROVE BoundInv'
  <2>1. UNCHANGED <<spokenGen, shut>> /\ gen' = gen + 1
    BY <1>6 DEF CancelEngine, playerVars
  <2> QED
    BY <1>0, <1>6, <2>1, CallersMove DEF BoundInv
<1>7. ASSUME NEW c \in Callers,
             \/ CancelDetaches(c) \/ CancelAborts(c) \/ CancelIdles(c) \/ CancelReleasesGate(c)
             \/ CancelDropsBuffer(c) \/ CancelReturns(c)
      PROVE  BoundInv'
  <2>1. UNCHANGED <<gen, spokenGen, shut>>
    BY <1>7 DEF CancelDetaches, CancelAborts, CancelIdles, CancelReleasesGate, CancelDropsBuffer,
       CancelReturns, playerVars, engineVars
  <2> QED
    BY <1>0, <1>7, <2>1, CallersMove DEF BoundInv
<1>8. CASE Close \/ CloseJoinsSynth \/ CloseSignals \/ CloseDetaches \/ Closes
  <2>1. UNCHANGED <<gen, spokenGen>> /\ shut' /\ (Close \/ shut' = shut) /\ (Close => ~shut)
    BY <1>8, CallersMove DEF Close, Open, CloseJoinsSynth, CloseSignals, CloseDetaches, Closes,
       playerVars, engineVars, ShutInv
  <2> QED
    BY <1>0, <1>8, <2>1, CallersMove DEF BoundInv
<1> QED
    BY <1>2, <1>4, <1>5, <1>6, <1>7, <1>8, <1>9 DEF Next, CallerNext

\* Once close() has cancelled, the worker holds no current chunk and finds none; it
\* cannot engage the gate, and when it has been joined it opens no stream.
LEMMA CloseStep == ClosedInv /\ [Next]_vars => CloseInv'
<1> SUFFICES ASSUME ClosedInv, [Next]_vars PROVE CloseInv'
    OBVIOUS
<1>0. /\ TypeInv /\ gen \in Nat \ {0} /\ gate \in {0, 1} /\ stream \in Nat
      /\ stopped \in Nat /\ worker.chunk.gen \in Nat /\ Callers = {"bus", "loop"}
      /\ shut \in BOOLEAN
    BY WorkerType, ChunkType DEF ClosedInv, TypeInv, TypeOK, Callers
<1> DEFINE loop == call["loop"].at
<1>1. ASSUME UNCHANGED <<worker, loop, gen, shut>>, gate' \in {gate, 0}, stream' \in {stream, 0}
      PROVE  CloseInv'
    BY <1>1 DEF ClosedInv, CloseInv
<1>2. CASE WorkerNext
  <2>1. UNCHANGED <<loop, gen, shut>> /\ loop \notin {"closing", "closed"}
    BY <1>0, <1>2, WorkerMoves DEF ClosedInv, CloseInv
  <2>2. CASE ~(shut /\ loop \notin {"joinSynth", "engine"})
    BY <1>0, <2>1, <2>2 DEF ClosedInv, ShutInv, CloseInv
  <2>3. CASE shut /\ loop \notin {"joinSynth", "engine"}
    <3>1. queue = <<>> /\ worker.chunk.gen < gen
      BY <2>3 DEF ClosedInv, ShutInv, CloseInv
    <3>2. worker'.chunk.gen < gen
      BY <1>0, <1>2, <3>1, WorkerMoves DEF Silence
    <3>3. gate' \in {gate, 0}
      BY <1>0, <1>2, <3>1 DEF WorkerNext, WorkerTakes, WorkerBegins, WorkerStartsSink,
         WorkerActivatesGate, WorkerDetachesStale, WorkerAbortsStale, WorkerChecks, WorkerWrites,
         WorkerPaces, WorkerMayIdle, WorkerIdles, WorkerReleasesGate, CanPlay, Released, engineVars
    <3> QED
      BY <2>1, <3>2, <3>3 DEF ClosedInv, CloseInv
  <2> QED
    BY <2>2, <2>3
<1>3. CASE SynthNext \/ SoundEnds \/ AppendText \/ UNCHANGED vars
    BY <1>0, <1>1, <1>3, SynthMoves DEF SoundEnds, AppendText, vars, playerVars, engineVars, sinkVars
<1>4. CASE TtsCancel
  <2>1. UNCHANGED <<worker, gen, gate, shut, stream>> /\ ~shut
    BY <1>4 DEF TtsCancel, Open, playerVars, engineVars, sinkVars
  <2>2. loop' = "called"
    BY <1>0, <1>4, CallersMove DEF Moves
  <2> QED
    BY <2>1, <2>2 DEF CloseInv
<1>11. CASE BusNotifies \/ BargeIn \/ NoBargeIn
  <2>1. UNCHANGED <<worker, gen, gate, shut, stream>>
    BY <1>11 DEF BusNotifies, BargeIn, NoBargeIn, playerVars, engineVars, sinkVars
  <2>2. loop' = loop
    BY <1>0, <1>11, CallersMove DEF Moves
  <2> QED
    BY <1>1, <2>1, <2>2
<1>5. ASSUME NEW c \in Callers, CancelEngine(c) PROVE CloseInv'
  <2>1. UNCHANGED <<worker, gate, shut, stream>> /\ gen' = gen + 1
    BY <1>5 DEF CancelEngine, playerVars, sinkVars
  <2>2. loop' = loop \/ loop' = "sink"
    BY <1>0, <1>5, CallersMove DEF Moves
  <2> QED
    BY <1>0, <2>1, <2>2 DEF ClosedInv, AgeInv, CloseInv
<1>6. ASSUME NEW c \in Callers,
             \/ CancelPlayer(c) \/ CancelDetaches(c) \/ CancelAborts(c) \/ CancelIdles(c)
             \/ CancelDropsBuffer(c) \/ CancelReturns(c)
      PROVE  CloseInv'
  <2>1. UNCHANGED <<worker, gen, gate, shut>> /\ stream' \in {stream, 0}
    BY <1>6 DEF CancelPlayer, CancelDetaches, Detach, CancelAborts, CancelIdles,
       CancelDropsBuffer, CancelReturns, playerVars, engineVars, sinkVars
  <2>2. \/ loop' = loop
        \/ loop = "called" /\ loop' = "engine"
        \/ /\ loop \in {"sink", "abort", "quiet", "stream", "reset"}
           /\ loop' \in {"abort", "quiet", "gate", "reset", "idle"}
    BY <1>0, <1>6, CallersMove DEF Moves
  <2> QED
    BY <2>1, <2>2 DEF ClosedInv, ShutInv, Closing, CloseInv
<1>7. ASSUME NEW c \in Callers, CancelReleasesGate(c) PROVE CloseInv'
  <2>1. UNCHANGED <<worker, gen, shut, stream>> /\ gate' = 0
    BY <1>0, <1>7 DEF CancelReleasesGate, Released, playerVars, sinkVars
  <2>2. loop' = loop \/ (loop = "gate" /\ loop' \in {"join", "stream"})
    <3>1. \E b \in {"join", "stream"} : Moves(c, "gate", b)
      BY <1>0, <1>7, CallersMove
    <3>2. CASE c = "loop"
      BY <3>1, <3>2 DEF Moves
    <3>3. CASE "loop" \in Callers \ {c}
      BY <3>1, <3>3 DEF Moves
    <3> QED
      BY <1>0, <3>2, <3>3
  <2> QED
    BY <2>1, <2>2 DEF ClosedInv, ShutInv, Closing, CloseInv
<1>8. CASE Close \/ CloseJoinsSynth
    BY <1>0, <1>8, CallersMove DEF Close, CloseJoinsSynth, Moves, engineVars, CloseInv
<1>9. CASE CloseSignals
    BY <1>0, <1>9, CallersMove DEF CloseSignals, Moves, playerVars, sinkVars, ClosedInv, CloseInv
<1>10. CASE CloseDetaches
  <2>1. UNCHANGED <<worker, gen, gate, shut>> /\ worker.at \in {"ended", "dead"}
    BY <1>10 DEF CloseDetaches, playerVars, engineVars
  <2>2. loop = "joinWorker" /\ loop' = "closing"
    BY <1>0, <1>10, CallersMove DEF Moves
  <2>3. gen <= Never
    BY <1>0, <2>2, PlaybackAssumption DEF ClosedInv, BoundInv, Count, Never, TypeInv, TypeOK
  <2>4. stream' = 0
    BY <1>0, <1>10, <2>3, PlaybackAssumption
    DEF CloseDetaches, Detach, Later, ClosedInv, AgeInv, Never
  <2> QED
    BY <2>1, <2>2, <2>4 DEF ClosedInv, CloseInv
<1>12. CASE Closes
  <2>1. UNCHANGED <<worker, gen, gate, shut, stream>>
    BY <1>12 DEF Closes, playerVars, engineVars
  <2>2. loop = "closing" /\ loop' = "closed"
    BY <1>0, <1>12, CallersMove DEF Moves
  <2> QED
    BY <2>1, <2>2 DEF ClosedInv, CloseInv
<1> QED
    BY <1>2, <1>3, <1>4, <1>5, <1>6, <1>7, <1>8, <1>9, <1>10, <1>11, <1>12 DEF Next, CallerNext

\* Whatever cancel is still under way on the bus thread, a closed connection leaves
\* no open stream and no engaged gate, and no sound but that of a stream which such
\* a cancel is about to abort: its own cancel has outdated every chunk, so that the
\* gate stays released, and its worker has been joined.
THEOREM ClosedStaysSilent == Spec => []ClosedIsSilent
<1>1. Init => ClosedInv
  <2> SUFFICES ASSUME Init PROVE ClosedInv
    OBVIOUS
  <2>1. \A c \in Callers : call[c].at = "idle"
    BY DEF Init, NoCall
  <2>2. "bus" \in Callers /\ "loop" \in Callers
    BY DEF Callers
  <2>3. AgeInv /\ CloseInv
    BY <2>1, <2>2 DEF Init, AgeInv, CloseInv, Resting, Silence
  <2>4. BoundInv
    BY <2>1, <2>2, PlaybackAssumption DEF Init, BoundInv, Count
  <2>5. StreamInv /\ ShutInv
    BY <2>1, <2>2 DEF Init, StreamInv, DoomInv, Aborters, ShutInv
  <2> QED
    BY TypeInit, <2>3, <2>4, <2>5 DEF ClosedInv
<1>2. ClosedInv /\ [Next]_vars => ClosedInv'
    BY TypeStep, StreamStep, ShutStep, AgeStep, BoundStep, CloseStep DEF ClosedInv
<1>3. ClosedInv => ClosedIsSilent
    BY DEF ClosedInv, StreamInv, CloseInv, ClosedIsSilent
<1> QED
    BY <1>1, <1>2, <1>3, PTL DEF Spec

-----------------------------------------------------------------------------
(* The gate is engaged while the speakers sound *)

\* Only the connection closes; and unless two calls have overlapped, one of the
\* two callers is at rest.
AloneInv ==
    /\ call["bus"].at \notin {"joinSynth", "join", "joinWorker", "closing", "closed"}
    /\ call["loop"].at # "notified"
    /\ ~overlapped => call["bus"].at \in {"idle", "notified"} \/ call["loop"].at = "idle"

\* A caller between the end of a generation and the return of its cancel(), or
\* anywhere later in close().
Ended == {"sink", "abort", "quiet", "gate", "stream", "reset", "join", "joinWorker",
          "closing", "closed"}
AtSink == \E c \in Callers : call[c].at = "sink"
AtAbort == \E c \in Callers : call[c].at = "abort"

\* Meanwhile nothing is of the new generation, neither queued, nor held by the
\* worker, nor open at the sink.
EndingInv ==
    /\ \A c \in Callers : call[c].at \in Ended =>
          /\ cancelled /\ queue = <<>> /\ worker.chunk.gen < gen /\ stream < gen
          /\ call[c].gen + 1 = gen
    /\ cancelled => \E c \in Callers : call[c].at \in Ended
    /\ ~AtSink => gen <= stopped + 1

\* Where the worker holds a chunk and does not pace it.
Busy == {"begin", "start", "activate", "stop", "abort", "write", "admit", "maybe"}

\* A worker that is past _begin_playing with a current chunk is playing; past
\* _activate_gate the gate is engaged; once no cancel is about to abort the stream,
\* what sounds is the current chunk that the worker paces; on its way there, nothing
\* does; and once a cancel has set the engine idle, it stays so until its return.
PlayInv ==
    /\ worker.at \in {"start", "activate", "write", "admit", "pace"} /\ worker.chunk.gen = gen
          => playing
    /\ worker.at \in {"write", "admit", "pace"} /\ worker.chunk.gen = gen => gate > 0
    /\ sounding # {} /\ ~AtSink /\ ~AtAbort =>
          worker.at = "pace" /\ worker.chunk.gen = gen /\ ~cancelled
    /\ worker.at \in Busy => sounding = {}
    /\ worker.at = "pace" => \A s \in sounding : s.gen = worker.chunk.gen
    /\ \A c \in Callers : call[c].at \in Ended \ {"sink", "abort", "quiet"} => ~playing

CoverInv ==
    /\ TypeInv /\ StreamInv /\ ShutInv /\ AgeInv /\ CancelInv /\ AloneInv
    /\ ~overlapped => EndingInv /\ PlayInv

\* A second caller that starts while one is under way is an overlap; and a barge-in
\* that comes after the close finds nothing playing.
LEMMA AloneStep == CoverInv /\ [Next]_vars => AloneInv'
<1> SUFFICES ASSUME CoverInv, [Next]_vars PROVE AloneInv'
    OBVIOUS
<1>0. /\ TypeInv /\ AloneInv /\ (~overlapped => PlayInv)
      /\ Callers = {"bus", "loop"} /\ overlapped \in BOOLEAN
    BY DEF CoverInv, Callers, TypeInv, TypeOK
<1> USE DEF Moves
<1>1. CASE WorkerNext \/ SynthNext \/ SoundEnds \/ AppendText \/ UNCHANGED vars
  <2>1. UNCHANGED <<call, overlapped>>
    BY <1>0, <1>1, WorkerMoves, SynthMoves DEF SoundEnds, AppendText, vars, history
  <2> QED
    BY <1>0, <2>1 DEF AloneInv
<1>2. CASE TtsCancel \/ Close
  <2>1. overlapped' = (overlapped \/ call["bus"].at \notin {"idle", "notified", "closed"})
    BY <1>0, <1>2 DEF TtsCancel, Close, Enters
  <2> QED
    BY <1>0, <1>2, <2>1, CallersMove DEF AloneInv
<1>3. CASE BargeIn
  <2>1. overlapped' = (overlapped \/ call["loop"].at \notin {"idle", "notified", "closed"})
    BY <1>0, <1>3 DEF BargeIn, Enters
  <2>2. ~overlapped => call["loop"].at # "closed"
    BY <1>0, <1>3 DEF BargeIn, PlayInv, Ended
  <2> QED
    BY <1>0, <1>3, <2>1, <2>2, CallersMove DEF AloneInv
<1>6. CASE BusNotifies \/ NoBargeIn
  <2>1. overlapped' = overlapped
    BY <1>6 DEF BusNotifies, NoBargeIn, history
  <2> QED
    BY <1>0, <1>6, <2>1, CallersMove DEF AloneInv
<1>4. ASSUME NEW c \in Callers,
             \/ CancelPlayer(c) \/ CancelEngine(c) \/ CancelDetaches(c) \/ CancelAborts(c)
             \/ CancelIdles(c) \/ CancelReleasesGate(c) \/ CancelDropsBuffer(c)
             \/ CancelReturns(c)
      PROVE  AloneInv'
  <2>1. overlapped' = overlapped
    BY <1>4 DEF CancelPlayer, CancelEngine, CancelDetaches, CancelAborts, CancelIdles,
       CancelReleasesGate, CancelDropsBuffer, CancelReturns, history
  <2>2. \E a, b \in CallAt :
           /\ Moves(c, a, b) /\ a \notin {"idle", "notified"} /\ b # "notified"
           /\ c = "bus" => b \notin {"joinSynth", "join", "joinWorker", "closing", "closed"}
    BY <1>0, <1>4, CallersMove DEF CallAt
  <2> QED
    BY <1>0, <2>1, <2>2 DEF AloneInv
<1>5. CASE CloseJoinsSynth \/ CloseSignals \/ CloseDetaches \/ Closes
  <2>1. overlapped' = overlapped
    BY <1>5 DEF CloseJoinsSynth, CloseSignals, CloseDetaches, Closes, history
  <2> QED
    BY <1>0, <1>5, <2>1, CallersMove DEF AloneInv
<1> QED
    BY <1>1, <1>2, <1>3, <1>4, <1>5, <1>6 DEF Next, CallerNext

\* Only the history of overlaps grows, and what is stopped.
LEMMA OverlapStays == TypeInv /\ [Next]_vars /\ ~overlapped' => ~overlapped
<1> SUFFICES ASSUME TypeInv, [Next]_vars, overlapped PROVE overlapped'
    BY DEF TypeInv, TypeOK
<1>1. CASE WorkerNext \/ SynthNext \/ SoundEnds \/ UNCHANGED vars
    BY <1>1, WorkerMoves, SynthMoves DEF SoundEnds, vars, history
<1>2. CASE CallerNext
    BY <1>2 DEF CallerNext, AppendText, TtsCancel, BusNotifies, BargeIn, NoBargeIn, CancelPlayer,
       CancelEngine, CancelDetaches, CancelAborts, CancelIdles, CancelReleasesGate,
       CancelDropsBuffer, CancelReturns, Close, CloseJoinsSynth, CloseSignals, CloseDetaches,
       Closes, Enters, history
<1> QED
    BY <1>1, <1>2 DEF Next

\* What the steps of a cancel that is not overlapped find: the other caller at rest.
LEMMA OtherRests ==
    ASSUME AloneInv, ~overlapped, NEW c \in Callers, call[c].at \notin {"idle", "notified"}
    PROVE  \A d \in Callers \ {c} : call[d].at \in {"idle", "notified"}
BY DEF AloneInv, Callers

\* From the end of a generation to the return of its cancel() nothing of the new
\* one comes into being: what is submitted is dropped, and nothing is queued.
LEMMA EndingStep == CoverInv /\ [Next]_vars /\ ~overlapped' => EndingInv'
<1> SUFFICES ASSUME CoverInv, EndingInv, ~overlapped, [Next]_vars PROVE EndingInv'
    BY OverlapStays DEF CoverInv
<1>0. /\ TypeInv /\ gen \in Nat \ {0} /\ stream \in Nat /\ stopped \in Nat /\ stopped' \in Nat
      /\ worker.chunk.gen \in Nat /\ worker.chunk.gen <= gen /\ stream <= gen
      /\ stopped' >= stopped /\ Callers = {"bus", "loop"}
      /\ \A c \in Callers : call[c].gen \in Nat
    BY WorkerType, ChunkType, StreamStep, TypeStep
    DEF CoverInv, TypeInv, TypeOK, AgeInv, Callers, Calls
<1> USE DEF Moves
<1>a. ASSUME UNCHANGED <<call, gen, cancelled>>,
             cancelled => /\ queue' = queue /\ worker'.chunk \in {worker.chunk, Silence}
                          /\ stream' \in {stream, 0, worker.chunk.gen}
      PROVE  EndingInv'
  <2>1. ASSUME NEW c \in Callers, call'[c].at \in Ended
        PROVE  /\ cancelled' /\ queue' = <<>> /\ worker'.chunk.gen < gen' /\ stream' < gen'
               /\ call'[c].gen + 1 = gen'
    BY <1>0, <1>a, <2>1 DEF EndingInv, Silence
  <2>2. (AtSink' <=> AtSink) /\ (~AtSink => gen <= stopped + 1)
    BY <1>a DEF EndingInv, AtSink
  <2>3. gen <= stopped + 1 => gen' <= stopped' + 1
    <3>1. gen' = gen
      BY <1>a
    <3>2. gen \in Nat /\ stopped \in Nat /\ stopped' \in Nat /\ stopped' >= stopped
      BY <1>0
    <3>3. \A k, m, n \in Nat : k <= m + 1 /\ n >= m => k <= n + 1
      OBVIOUS
    <3> QED
      BY <3>1, <3>2, <3>3
  <2>4. cancelled' => \E c \in Callers : call'[c].at \in Ended
    BY <1>a DEF EndingInv
  <2> QED
    BY <2>1, <2>2, <2>3, <2>4 DEF EndingInv
<1>b. ASSUME NEW c \in Callers, NEW a \in CallAt, NEW b \in CallAt, Moves(c, a, b),
             call'[c].gen = call[c].gen, a \in Ended <=> b \in Ended, a # "sink", b # "sink",
             UNCHANGED <<worker, gen, cancelled, queue>>, stream' \in {stream, 0}
      PROVE  EndingInv'
  <2>1. \A d \in Callers : /\ call'[d].gen = call[d].gen
                           /\ call'[d].at \in Ended <=> call[d].at \in Ended
                           /\ call'[d].at = "sink" <=> call[d].at = "sink"
    BY <1>b
  <2>2. AtSink' <=> AtSink
    BY <2>1 DEF AtSink
  <2>3. worker' = worker /\ gen' = gen /\ cancelled' = cancelled /\ queue' = queue
    BY <1>b
  <2>4. stream < gen => stream' < gen'
    <3>1. stream' \in {stream, 0}
      BY <1>b
    <3>2. gen \in Nat \ {0}
      BY <1>0
    <3>3. \A n \in Nat \ {0} : 0 < n
      OBVIOUS
    <3> QED
      BY <2>3, <3>1, <3>2, <3>3
  <2>5. gen <= stopped + 1 => gen' <= stopped' + 1
    <3>1. gen \in Nat /\ stopped \in Nat /\ stopped' \in Nat /\ stopped' >= stopped
      BY <1>0
    <3>2. \A k, m, n \in Nat : k <= m + 1 /\ n >= m => k <= n + 1
      OBVIOUS
    <3> QED
      BY <2>3, <3>1, <3>2
  <2>6. ASSUME NEW d \in Callers, call'[d].at \in Ended
        PROVE  /\ cancelled' /\ queue' = <<>> /\ worker'.chunk.gen < gen' /\ stream' < gen'
               /\ call'[d].gen + 1 = gen'
    BY <2>1, <2>3, <2>4, <2>6 DEF EndingInv
  <2>7. cancelled' => \E d \in Callers : call'[d].at \in Ended
    BY <2>1, <2>3 DEF EndingInv
  <2> QED
    BY <2>2, <2>5, <2>6, <2>7 DEF EndingInv
<1>1. CASE WorkerNext
  <2>1. cancelled => queue = <<>>
    BY DEF EndingInv
  <2> QED
    BY <1>0, <1>1, <1>a, <2>1, WorkerMoves
<1>2. CASE SynthNext \/ SoundEnds \/ AppendText \/ UNCHANGED vars
    BY <1>0, <1>2, <1>a, SynthMoves DEF SoundEnds, AppendText, vars, engineVars, sinkVars
<1>3. CASE TtsCancel \/ BusNotifies \/ BargeIn \/ NoBargeIn
  <2>1. UNCHANGED <<worker, gen, cancelled, queue, stream>>
    BY <1>3 DEF TtsCancel, BusNotifies, BargeIn, NoBargeIn, playerVars, engineVars, sinkVars
  <2> QED
    BY <1>0, <1>3, <1>b, <2>1, CallersMove DEF CallAt, Ended
<1>4. CASE Close \/ CloseJoinsSynth \/ CloseSignals \/ CloseDetaches \/ Closes
  <2>1. UNCHANGED <<worker, gen, cancelled, queue>> /\ stream' \in {stream, 0}
    BY <1>4 DEF Close, CloseJoinsSynth, CloseSignals, CloseDetaches, Closes, Detach, playerVars,
       engineVars, sinkVars
  <2> QED
    BY <1>0, <1>4, <1>b, <2>1, CallersMove DEF CallAt, Ended
<1>5. ASSUME NEW c \in Callers,
             CancelPlayer(c) \/ CancelAborts(c) \/ CancelIdles(c) \/ CancelDropsBuffer(c)
      PROVE  EndingInv'
  <2>1. UNCHANGED <<worker, gen, cancelled, queue, stream>>
    BY <1>5 DEF CancelPlayer, CancelAborts, CancelIdles, CancelDropsBuffer, playerVars,
       engineVars, sinkVars
  <2> QED
    BY <1>0, <1>5, <1>b, <2>1, CallersMove DEF CallAt, Ended
<1>6. ASSUME NEW c \in Callers, CancelReleasesGate(c) PROVE EndingInv'
  <2>1. UNCHANGED <<worker, gen, cancelled, queue, stream>>
    BY <1>6 DEF CancelReleasesGate, playerVars, sinkVars
  <2>2. \E b \in {"join", "stream"} : Moves(c, "gate", b) /\ call'[c].gen = call[c].gen
    BY <1>0, <1>6, CallersMove
  <2> QED
    BY <1>b, <2>1, <2>2 DEF CallAt, Ended
<1>7. ASSUME NEW c \in Callers, CancelEngine(c) PROVE EndingInv'
  <2>1. /\ UNCHANGED <<worker, stream, stopped>> /\ cancelled' = TRUE /\ gen' = gen + 1
        /\ queue' = <<>>
    BY <1>7 DEF CancelEngine, sinkVars
  <2>2. call'[c].at = "sink" /\ call'[c].gen = gen
    BY <1>0, <1>7, CallersMove
  <2>3. \A d \in Callers \ {c} : call'[d].at \in {"idle", "notified"}
    BY <1>0, <1>7, CallersMove, OtherRests DEF CoverInv
  <2>4. AtSink'
    BY <2>2 DEF AtSink
  <2> QED
    BY <1>0, <2>1, <2>2, <2>3, <2>4 DEF EndingInv, Ended
<1>8. ASSUME NEW c \in Callers, CancelDetaches(c) PROVE EndingInv'
  <2>1. UNCHANGED <<worker, gen, cancelled, queue>> /\ stream' \in {stream, 0}
    BY <1>8 DEF CancelDetaches, Detach, engineVars
  <2>2. call[c].at = "sink" /\ call'[c].at = "abort" /\ call'[c].gen = call[c].gen
    BY <1>0, <1>8, CallersMove
  <2>3. \A d \in Callers \ {c} : call'[d].at \in {"idle", "notified"}
    BY <1>0, <1>8, CallersMove, OtherRests DEF CoverInv
  <2>4. /\ cancelled /\ queue = <<>> /\ worker.chunk.gen < gen /\ stream < gen
        /\ call[c].gen + 1 = gen
    BY <2>2 DEF EndingInv, Ended
  <2>5. stopped' >= call[c].gen
    BY <1>0, <1>8 DEF CancelDetaches, Detach, Later
  <2>6. worker' = worker /\ gen' = gen /\ cancelled' = cancelled /\ queue' = queue
    BY <2>1
  <2>7. stream' < gen'
    <3>1. gen \in Nat \ {0}
      BY <1>0
    <3>2. \A n \in Nat \ {0} : 0 < n
      OBVIOUS
    <3> QED
      BY <2>1, <2>4, <2>6, <3>1, <3>2
  <2>8. gen' <= stopped' + 1
    <3>1. call[c].gen \in Nat /\ stopped' \in Nat
      BY <1>0
    <3>2. \A k, n \in Nat : n >= k => k + 1 <= n + 1
      OBVIOUS
    <3> QED
      BY <2>4, <2>5, <2>6, <3>1, <3>2
  <2>9. ASSUME NEW d \in Callers, call'[d].at \in Ended
        PROVE  /\ cancelled' /\ queue' = <<>> /\ worker'.chunk.gen < gen' /\ stream' < gen'
               /\ call'[d].gen + 1 = gen'
    <3>1. d = c
      BY <2>3, <2>9 DEF Ended
    <3> QED
      BY <2>2, <2>4, <2>6, <2>7, <3>1
  <2>10. \E d \in Callers : call'[d].at \in Ended
    BY <2>2 DEF Ended
  <2> QED
    BY <2>8, <2>9, <2>10 DEF EndingInv
<1>9. ASSUME NEW c \in Callers, CancelReturns(c) PROVE EndingInv'
  <2>1. UNCHANGED <<gen, stopped>> /\ cancelled' = FALSE
    BY <1>9 DEF CancelReturns, sinkVars
  <2>2. call[c].at = "reset" /\ call'[c].at = "idle"
    BY <1>0, <1>9, CallersMove
  <2>3. \A d \in Callers \ {c} :
           call[d].at \in {"idle", "notified"} /\ call'[d].at \in {"idle", "notified"}
    BY <1>0, <1>9, CallersMove, OtherRests DEF CoverInv
  <2>4. ~AtSink
    BY <2>2, <2>3 DEF AtSink
  <2> QED
    BY <1>0, <2>1, <2>2, <2>3, <2>4 DEF EndingInv, Ended
<1> QED
    BY <1>1, <1>2, <1>3, <1>4, <1>5, <1>6, <1>7, <1>8, <1>9 DEF Next, CallerNext

\* The thread that aborts the stream of a cancel which is not overlapped ends every
\* sound: no stream has been opened since, and nobody else is about to abort one.
LEMMA AbortSilences ==
    ASSUME CoverInv, EndingInv, PlayInv, ~overlapped, NEW c \in Callers, CancelAborts(c)
    PROVE  sounding' = {}
<1>0. /\ gen \in Nat \ {0} /\ stream \in Nat /\ stopped \in Nat
      /\ Aborters = Callers \cup {"worker"}
    BY DEF CoverInv, TypeInv, TypeOK, Aborters
<1>1. call[c].at = "abort"
    BY DEF CancelAborts, Steps
<1>2. \A d \in Callers \ {c} : call[d].at \in {"idle", "notified"}
    BY <1>1, OtherRests DEF CoverInv
<1>3. stream = 0
  <2>1. stream < gen
    BY <1>1 DEF EndingInv, Ended
  <2>2. ~AtSink
    BY <1>1, <1>2 DEF AtSink
  <2>3. gen <= stopped + 1
    BY <2>2 DEF EndingInv
  <2> QED
    BY <1>0, <2>1, <2>3 DEF CoverInv, StreamInv
<1>4. ASSUME NEW s \in sounding PROVE s.gen = doomed[c]
  <2>1. s.gen # 0
    BY DEF CoverInv, StreamInv
  <2>2. PICK a \in Aborters : doomed[a] = s.gen
    BY <1>3, <2>1 DEF CoverInv, StreamInv, BeingAborted
  <2>3. a # "worker"
    BY <2>1, <2>2 DEF CoverInv, StreamInv, DoomInv, PlayInv, Busy
  <2>4. a \notin Callers \ {c}
    BY <1>2, <2>1, <2>2 DEF CoverInv, StreamInv, DoomInv
  <2> QED
    BY <1>0, <2>2, <2>3, <2>4
<1> QED
    BY <1>4 DEF CancelAborts, Abort

\* The worker engages the gate before the device sounds and keeps it engaged while
\* it paces a current chunk; whoever releases it meanwhile has outdated the chunk,
\* and with it aborted the stream.
LEMMA PlayStep == CoverInv /\ [Next]_vars /\ ~overlapped' => PlayInv'
<1> SUFFICES ASSUME CoverInv, EndingInv, PlayInv, ~overlapped, [Next]_vars PROVE PlayInv'
    BY OverlapStays DEF CoverInv
<1> DEFINE Late == Ended \ {"sink", "abort", "quiet"}
<1>0. /\ TypeInv /\ gen \in Nat \ {0} /\ stream \in Nat /\ stopped \in Nat /\ gate \in {0, 1}
      /\ worker \in Workers /\ worker.chunk.gen \in Nat /\ worker.chunk.gen <= gen
      /\ stream <= gen /\ Callers = {"bus", "loop"} /\ cancelled \in BOOLEAN
      /\ playing \in BOOLEAN /\ \A c \in Callers : call[c].gen \in Nat
    BY WorkerType, ChunkType DEF CoverInv, TypeInv, TypeOK, AgeInv, Callers, Calls
<1>1. ASSUME UNCHANGED <<worker, gen, gate, cancelled>>, playing' \in {playing, FALSE},
             sounding' \subseteq sounding, AtSink \/ AtAbort => AtSink' \/ AtAbort',
             \A c \in Callers : call'[c].at \in Late => call[c].at \in Late \/ ~playing',
             playing' = playing \/ worker.chunk.gen # gen
      PROVE  PlayInv'
  <2>1. \A c \in Callers : call'[c].at \in Late => ~playing'
    BY <1>0, <1>1 DEF PlayInv
  <2>2. worker.at \in Busy => sounding' = {}
    BY <1>1 DEF PlayInv
  <2>3. sounding' # {} /\ ~AtSink' /\ ~AtAbort' => sounding # {} /\ ~AtSink /\ ~AtAbort
    BY <1>1
  <2> QED
    BY <1>0, <1>1, <2>1, <2>2, <2>3 DEF PlayInv
<1>2. CASE WorkerNext
  <2>1. /\ UNCHANGED <<gen, cancelled, call>> /\ (AtSink' <=> AtSink) /\ (AtAbort' <=> AtAbort)
        /\ AtSink \/ AtAbort => cancelled /\ queue = <<>>
    BY <1>0, <1>2, WorkerMoves DEF AtSink, AtAbort, EndingInv, Ended
  <2>2. \A c \in Callers : call'[c].at \in Late => ~playing'
    <3>1. playing' \in {playing, FALSE} \/ ~cancelled
      BY <1>2 DEF WorkerNext, WorkerTakes, WorkerBegins, WorkerStartsSink, WorkerActivatesGate,
         WorkerDetachesStale, WorkerAbortsStale, WorkerChecks, WorkerWrites, WorkerPaces,
         WorkerMayIdle, WorkerIdles, WorkerReleasesGate, engineVars
    <3> QED
      BY <2>1, <3>1 DEF PlayInv, EndingInv
  <2>3. ASSUME sounding' = {},
               /\ worker'.at \in {"start", "activate", "write", "admit", "pace"}
               /\ worker'.chunk.gen = gen
                  => playing',
               worker'.at \in {"write", "admit", "pace"} /\ worker'.chunk.gen = gen => gate' > 0
        PROVE  PlayInv'
    BY <2>1, <2>2, <2>3 DEF PlayInv
  <2>15. ASSUME sounding' = {}, worker'.at \notin {"start", "activate", "write", "admit", "pace"}
         PROVE  PlayInv'
    BY <2>1, <2>2, <2>15 DEF PlayInv, Busy
  <2>4. ASSUME worker.at \notin Busy \cup {"pace"}, worker'.at \notin Busy \cup {"pace"},
               sounding' = sounding
        PROVE  PlayInv'
    BY <2>1, <2>2, <2>4 DEF PlayInv, Busy
  <2>5. worker.at \in Busy => sounding = {}
    BY DEF PlayInv
  <2>6. CASE WorkerTakes
    <3>1. CASE worker'.at = "begin" /\ queue # <<>>
      BY <2>1, <2>3, <2>6, <3>1 DEF WorkerTakes, At, PlayInv, sinkVars
    <3>2. CASE worker'.at \in {"ready", "ended"}
      BY <2>4, <2>6, <3>2 DEF WorkerTakes, At, sinkVars, Busy
    <3> QED
      BY <2>6, <3>1, <3>2 DEF WorkerTakes, Loops, Resting
  <2>7. CASE WorkerBegins
    BY <1>0, <2>3, <2>15, <2>5, <2>7 DEF WorkerBegins, Drops, Resting, Goes, At, Workers, sinkVars,
       Busy, PlayInv
  <2>8. CASE WorkerStartsSink
    BY <1>0, <2>3, <2>5, <2>8 DEF WorkerStartsSink, Drops, Resting, Goes, At, Workers, engineVars,
       Busy, PlayInv
  <2>9. CASE WorkerActivatesGate
    <3>1. CanPlay => gate' > 0
      BY <1>0, <2>9 DEF WorkerActivatesGate, Engaged
    <3> QED
      BY <1>0, <2>3, <2>5, <2>9, <3>1 DEF WorkerActivatesGate, CanPlay, Goes, At, Workers,
         sinkVars, Busy, PlayInv
  <2>10. CASE WorkerDetachesStale \/ WorkerAbortsStale \/ WorkerMayIdle
    BY <1>0, <2>15, <2>5, <2>10 DEF WorkerDetachesStale, WorkerAbortsStale, WorkerMayIdle, Abort,
       Loops, Drops, Resting, Goes, At, Workers, sinkVars, Busy
  <2>11. CASE WorkerChecks
    BY <1>0, <2>3, <2>5, <2>11 DEF WorkerChecks, CanPlay, Drops, Resting, Goes, At, Workers,
       engineVars, sinkVars, Busy, PlayInv
  <2>12. CASE WorkerWrites
    <3>0. At("admit") /\ UNCHANGED <<playing, gate>> /\ sounding = {}
      BY <2>5, <2>12 DEF WorkerWrites, At, Busy, engineVars
    <3>1. CASE sounding' = sounding /\ worker'.at \in {"dead", "quiet"}
      BY <2>15, <3>0, <3>1
    <3>2. CASE Admits(worker.chunk.gen) /\ sounding' = sounding \cup {worker.chunk} /\ Goes("pace")
      <4>1. worker'.at = "pace" /\ worker'.chunk = worker.chunk /\ sounding' = {worker.chunk}
        BY <1>0, <3>0, <3>2 DEF Goes, Workers
      <4>2. ~AtSink => worker.chunk.gen = gen
        BY <1>0, <3>2 DEF Admits, EndingInv
      <4>3. worker.chunk.gen = gen => ~cancelled
        BY <1>0 DEF EndingInv
      <4> QED
        BY <2>1, <2>2, <3>0, <4>1, <4>2, <4>3 DEF PlayInv, At, Busy
    <3> QED
      BY <2>12, <3>1, <3>2 DEF WorkerWrites, Drops, Resting
  <2>13. CASE WorkerPaces
    <3>0. At("pace") /\ UNCHANGED <<playing, gate, sounding>>
      BY <2>13 DEF WorkerPaces, engineVars, sinkVars
    <3>1. CASE CanPlay /\ Paced /\ Goes("maybe")
      <4>1. worker'.at = "maybe"
        BY <1>0, <3>1 DEF Goes, Workers
      <4>2. sounding = {}
        BY <3>0, <3>1 DEF Paced, PlayInv, At
      <4> QED
        BY <2>15, <3>0, <4>1, <4>2
    <3>2. CASE ~CanPlay /\ Drops
      <4>1. worker'.at = "quiet"
        BY <3>2 DEF Drops, Resting
      <4>2. sounding # {} => AtSink \/ AtAbort
        BY <3>0, <3>2 DEF CanPlay, PlayInv, At
      <4> QED
        BY <2>1, <2>2, <3>0, <4>1, <4>2 DEF PlayInv, Busy
    <3> QED
      BY <2>13, <3>1, <3>2 DEF WorkerPaces
  <2>14. CASE WorkerIdles \/ WorkerReleasesGate
    BY <1>0, <2>4, <2>14 DEF WorkerIdles, WorkerReleasesGate, Loops, Resting, Goes, At, Workers,
       sinkVars, Busy
  <2> QED
    BY <1>2, <2>6, <2>7, <2>8, <2>9, <2>10, <2>11, <2>12, <2>13, <2>14 DEF WorkerNext
<1>3. CASE SynthNext \/ SoundEnds \/ AppendText \/ UNCHANGED vars
  <2>1. /\ UNCHANGED <<call, worker, gen, playing, gate, cancelled>>
        /\ sounding' \subseteq sounding
    BY <1>0, <1>3, SynthMoves DEF SoundEnds, AppendText, vars, engineVars, sinkVars
  <2> QED
    BY <1>1, <2>1 DEF AtSink, AtAbort
<1>4. ASSUME NEW c \in Callers, NEW a \in CallAt, NEW b \in CallAt, Moves(c, a, b),
             a \in {"sink", "abort"} => b \in {"sink", "abort"}
      PROVE  AtSink \/ AtAbort => AtSink' \/ AtAbort'
    BY <1>4 DEF Moves, AtSink, AtAbort
<1>5. ASSUME NEW c \in Callers, NEW a \in CallAt, NEW b \in CallAt, Moves(c, a, b),
             b \in Late => a \in Late \/ ~playing', playing' \in {playing, FALSE}
      PROVE  \A d \in Callers : call'[d].at \in Late => call[d].at \in Late \/ ~playing'
    BY <1>5 DEF Moves
<1>6. ASSUME NEW c \in Callers, NEW a \in CallAt, NEW b \in CallAt, Moves(c, a, b),
             a \in {"sink", "abort"} => b \in {"sink", "abort"}, b \in Late => a \in Late,
             UNCHANGED <<worker, gen, playing, gate, cancelled, sounding>>
      PROVE  PlayInv'
    BY <1>0, <1>1, <1>4, <1>5, <1>6
<1>7. CASE TtsCancel \/ BusNotifies \/ BargeIn \/ NoBargeIn
  <2>1. UNCHANGED <<worker, gen, playing, gate, cancelled, sounding>>
    BY <1>7 DEF TtsCancel, BusNotifies, BargeIn, NoBargeIn, engineVars, sinkVars
  <2> QED
    BY <1>0, <1>6, <1>7, <2>1, CallersMove DEF CallAt, Ended
<1>8. CASE Close \/ CloseJoinsSynth \/ CloseSignals \/ CloseDetaches
  <2>1. UNCHANGED <<worker, gen, playing, gate, cancelled, sounding>>
    BY <1>8 DEF Close, CloseJoinsSynth, CloseSignals, CloseDetaches, engineVars, sinkVars
  <2> QED
    BY <1>0, <1>6, <1>8, <2>1, CallersMove DEF CallAt, Ended
<1>9. CASE Closes
  <2>1. UNCHANGED <<worker, gen, playing, gate, cancelled>> /\ sounding' \subseteq sounding
    BY <1>9 DEF Closes, Abort, engineVars
  <2>2. Moves("loop", "closing", "closed") /\ "closing" \in Late
    BY <1>0, <1>9, CallersMove DEF Ended
  <2> QED
    BY <1>0, <1>1, <1>4, <1>5, <2>1, <2>2 DEF CallAt
<1>10. ASSUME NEW c \in Callers, CancelPlayer(c) \/ CancelDetaches(c) \/ CancelDropsBuffer(c)
       PROVE PlayInv'
  <2>1. UNCHANGED <<worker, gen, playing, gate, cancelled, sounding>>
    BY <1>10 DEF CancelPlayer, CancelDetaches, CancelDropsBuffer, engineVars, sinkVars
  <2> QED
    BY <1>0, <1>6, <1>10, <2>1, CallersMove DEF CallAt, Ended
<1>11. ASSUME NEW c \in Callers, CancelEngine(c) PROVE PlayInv'
  <2>1. UNCHANGED <<worker, playing, sounding>> /\ gen' = gen + 1
    BY <1>11 DEF CancelEngine, sinkVars
  <2>2. Moves(c, "engine", "sink")
    BY <1>0, <1>11, CallersMove
  <2>3. AtSink'
    BY <2>2 DEF Moves, AtSink
  <2>4. \A d \in Callers : call'[d].at \in Late => ~playing'
    BY <2>1, <2>2 DEF Moves, PlayInv
  <2> QED
    BY <1>0, <2>1, <2>3, <2>4 DEF PlayInv
<1>12. ASSUME NEW c \in Callers, CancelAborts(c) PROVE PlayInv'
  <2>1. UNCHANGED <<worker, gen, playing, gate>> /\ sounding' = {}
    BY <1>12, AbortSilences DEF CancelAborts, engineVars
  <2>2. Moves(c, "abort", "quiet")
    BY <1>0, <1>12, CallersMove
  <2>3. \A d \in Callers : call'[d].at \in Late => ~playing'
    BY <2>1, <2>2 DEF Moves, PlayInv
  <2> QED
    BY <2>1, <2>3 DEF PlayInv
<1>13. ASSUME NEW c \in Callers, CancelIdles(c) \/ CancelReleasesGate(c) PROVE PlayInv'
  <2>1. UNCHANGED <<worker, gen, cancelled, sounding>> /\ playing' \in {playing, FALSE}
    BY <1>13 DEF CancelIdles, CancelReleasesGate, sinkVars
  <2>2. \E a, b \in CallAt : /\ Moves(c, a, b) /\ a \in {"quiet", "gate"} /\ b \in Late
                             /\ a = "quiet" => ~playing'
    BY <1>0, <1>13, CallersMove DEF CallAt, Ended, CancelIdles, CancelReleasesGate
  <2>3. worker.chunk.gen < gen
    BY <2>2 DEF Moves, EndingInv, Ended
  <2>4. AtSink \/ AtAbort => AtSink' \/ AtAbort'
    BY <1>4, <2>2
  <2>5. \A d \in Callers : call'[d].at \in Late => ~playing'
    BY <2>1, <2>2 DEF Moves, PlayInv, Ended
  <2> QED
    BY <1>0, <2>1, <2>3, <2>4, <2>5 DEF PlayInv
<1>14. ASSUME NEW c \in Callers, CancelReturns(c) PROVE PlayInv'
  <2>1. UNCHANGED <<worker, gen, playing, gate, sounding>> /\ cancelled' = FALSE
    BY <1>14 DEF CancelReturns, sinkVars
  <2>2. Moves(c, "reset", "idle")
    BY <1>0, <1>14, CallersMove
  <2>3. AtSink \/ AtAbort => AtSink' \/ AtAbort'
    BY <1>4, <2>2 DEF CallAt
  <2>4. \A d \in Callers : call'[d].at \in Late => ~playing'
    BY <2>1, <2>2 DEF Moves, PlayInv, Ended
  <2> QED
    BY <2>1, <2>3, <2>4 DEF PlayInv
<1> QED
    BY <1>2, <1>3, <1>7, <1>8, <1>9, <1>10, <1>11, <1>12, <1>13, <1>14 DEF Next, CallerNext

\* "While TTS is playing, capture is half-duplex": whatever the order of the two
\* workers and of a cancel or a close, no chunk is heard with the gate released,
\* but for the moment before the cancel that outdated it aborts the stream.
THEOREM GateStaysOverSound == Spec => []GateCoversSound
<1>1. Init => CoverInv
  <2> SUFFICES ASSUME Init PROVE CoverInv
    OBVIOUS
  <2>1. \A c \in Callers : call[c].at = "idle"
    BY DEF Init, NoCall
  <2>2. "bus" \in Callers /\ "loop" \in Callers
    BY DEF Callers
  <2>3. AgeInv /\ CancelInv /\ StreamInv
    BY <2>1 DEF Init, AgeInv, CancelInv, StreamInv, DoomInv, Aborters, Resting, Silence
  <2>4. ShutInv /\ AloneInv
    BY <2>1, <2>2 DEF Init, ShutInv, AloneInv
  <2>5. EndingInv /\ PlayInv
    BY <2>1 DEF Init, EndingInv, Ended, PlayInv, Busy, Resting
  <2> QED
    BY TypeInit, <2>3, <2>4, <2>5 DEF CoverInv
<1>2. CoverInv /\ [Next]_vars => CoverInv'
    BY TypeStep, StreamStep, ShutStep, AgeStep, CancelStep, AloneStep, EndingStep, PlayStep
    DEF CoverInv
<1>3. CoverInv => GateCoversSound
  <2> SUFFICES ASSUME CoverInv, sounding # {}, ~overlapped,
                      \A c \in Callers : call[c].at \notin {"sink", "abort"}
               PROVE  gate > 0
    BY DEF GateCoversSound
  <2> QED
    BY DEF CoverInv, PlayInv, AtSink, AtAbort
<1> QED
    BY <1>1, <1>2, <1>3, PTL DEF Spec
=============================================================================
