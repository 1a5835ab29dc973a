------------------------------ MODULE Streaming ------------------------------
(***************************************************************************)
(* Streaming dictation (pipeline.py, _start_streaming to                   *)
(* _inject_stream_delta, IncrementalCommitter) and the undo ledger it      *)
(* shares with plain dictation.  A stream thread re-transcribes the        *)
(* growing recording and types words once consecutive passes agree; the    *)
(* worker then joins it for at most three seconds, transcribes the whole   *)
(* utterance and brings the target field in line.  An application thread   *)
(* may stop the pipeline at any moment.                                    *)
(*                                                                         *)
(* A text is a sequence of pieces.  A pass transcribes to any member of    *)
(* Texts and the final decode to one of Finals: the post-processing, which *)
(* rewrites text, is part of that choice.  Whether the target window is    *)
(* (or can be put) in front is a choice at every look at it.  An injector  *)
(* that raises may or may not have typed.  A stream thread that outlives   *)
(* its join is modelled until it ends.  The overlay may raise wherever a   *)
(* result depends on it, the finally block of _finish_streaming excepted.  *)
(***************************************************************************)
EXTENDS Naturals, Sequences, SequencesExt

CONSTANTS
    Pieces,           \* what a text is made of
    Texts,            \* what a stream pass may return
    Finals,           \* what a final decode, with its full polish, may return
    Passes,           \* stream_agreement_passes
    FirstPasses,      \* stream_first_agreement_passes
    MayFail,          \* whether the injector and the overlay may raise and the
                      \* clipboard refuse a text
    VaultMayRefuse,   \* whether the recovery store may be absent, off or fail
    MaxUtterances,    \* bound on the utterances of one run
    MaxDoc            \* bound on the pieces in the field

ASSUME StreamingAssumption ==
    /\ Texts \cup Finals \subseteq Seq(Pieces) /\ <<>> \notin Texts \cup Finals
    /\ Passes \in Nat /\ Passes >= 2
    /\ FirstPasses \in 1..Passes
    /\ MayFail \in BOOLEAN /\ VaultMayRefuse \in BOOLEAN
    /\ MaxUtterances \in Nat \ {0} /\ MaxDoc \in Nat

Utterances == 1..MaxUtterances

VARIABLES
    phase,        \* the worker: idle, recording, decoding, delivering, finishing
    utt,          \* number of the current or last streaming utterance
    thread,       \* thread[u]: off (not running), listening, or at the gate
    stopEvent,    \* stopEvent[u]: u's _stream_stop is set
    partial,      \* partial[u]: what u's last pass transcribed
    history,      \* history[u], committed[u]: u's IncrementalCommitter
    committed,
    ledger,       \* _stream_injected_text; _stream_injected is ledger # <<>>
    lastInjected, \* _last_injected
    final,        \* raw: the final transcript of the utterance
    reason,       \* of the finalize: ok (sent and enter too), focus_changed or error
    expected,     \* insertion_expected: the delivery began, with a text to insert
    needed,       \* recovery_needed: the target was not in front for it
    doc,          \* the target field, as typed by this program
    clip,         \* (history) the last text this utterance put on the clipboard
    vault,        \* (history) the last text of it that the recovery store kept
    refused,      \* (history) the store was asked to keep one and did not
    stopped,      \* _stop, with the cancelled generation
    base,         \* (history) the field when the utterance began
    raised        \* (history) an injector call of this utterance raised

threadVars == <<thread, stopEvent, partial, history, committed>>
fieldVars  == <<doc, clip, ledger, raised>>
resultVars == <<reason, expected, needed>>
keptVars   == <<vault, refused>>
vars == <<phase, utt, thread, stopEvent, partial, history, committed, ledger,
          lastInjected, final, reason, expected, needed, doc, clip, vault, refused,
          stopped, base, raised>>

Init ==
    /\ phase = "idle" /\ utt = 0
    /\ thread = [u \in Utterances |-> "off"]
    /\ stopEvent = [u \in Utterances |-> FALSE]
    /\ partial = [u \in Utterances |-> <<>>]
    /\ history = [u \in Utterances |-> <<>>]
    /\ committed = [u \in Utterances |-> 0]
    /\ ledger = <<>> /\ lastInjected = <<>> /\ final = <<>> /\ reason = "ok"
    /\ expected = FALSE /\ needed = FALSE
    /\ doc = <<>> /\ clip = <<>> /\ vault = <<>> /\ refused = FALSE
    /\ stopped = FALSE /\ base = <<>> /\ raised = FALSE

-----------------------------------------------------------------------------
(* IncrementalCommitter.update *)

\* How far the passes of h agree, column by column.
Agreed(h) ==
    LET common(n) == \A i \in 1..Len(h) :
            Len(h[i]) >= n /\ SubSeq(h[i], 1, n) = SubSeq(h[1], 1, n)
    IN  CHOOSE n \in 0..Len(h[1]) : common(n) /\ ~(n < Len(h[1]) /\ common(n + 1))

LastOf(h, n) == SubSeq(h, Len(h) - n + 1, Len(h))

\* The last stream_agreement_passes passes.
Window(h, text) ==
    LET h2 == Append(h, text) IN IF Len(h2) > Passes THEN LastOf(h2, Passes) ELSE h2

\* How much is committed once the window is h: full agreement, or the shortcut
\* for identical first passes.
Commit(h, n) ==
    IF Len(h) >= Passes THEN (IF Agreed(h) > n THEN Agreed(h) ELSE n)
    ELSE IF /\ n = 0 /\ FirstPasses < Passes /\ Len(h) >= FirstPasses
            /\ \A t \in Range(LastOf(h, FirstPasses)) : t = Last(h)
         THEN Len(Last(h))
         ELSE n

-----------------------------------------------------------------------------
(* What the injector and the clipboard do. *)

\* The calls reach the field one after the other, so that it becomes each text
\* of "steps" in turn, and then the ledger says "now"; or one of them raises,
\* before or after its text has arrived, and the ledger is left alone.
Types(steps, now) ==
    \/ doc' = Last(steps) /\ ledger' = now /\ raised' = raised
    \/ MayFail /\ doc' \in Range(<<doc>> \o steps) /\ ledger' = ledger /\ raised' = TRUE

Without(n) == SubSeq(doc, 1, Len(doc) - n)

\* _stash_transcript
Stashes(text) ==
    \/ text # <<>> /\ clip' = text
    \/ (text = <<>> \/ MayFail) /\ clip' = clip

\* _inject_stream_delta: type the new words, or put them on the clipboard.
\* (Mutant: the ledger misses them.)
InjectDeltaUnrecorded(delta) ==
    \/ Types(<<doc \o delta>>, ledger) /\ clip' = clip
    \/ Stashes(delta) /\ UNCHANGED <<doc, ledger, raised>>
InjectDelta(delta) ==
    \/ Types(<<doc \o delta>>, ledger \o delta) /\ clip' = clip
    \/ Stashes(delta) /\ UNCHANGED <<doc, ledger, raised>>

\* _reconcile_stream_injection in front: extend, shorten, or retract and type.
Reconcile(desired) ==
    IF IsPrefix(ledger, desired)
    THEN Types(<<doc \o SubSeq(desired, Len(ledger) + 1, Len(desired))>>, desired)
    ELSE IF IsPrefix(desired, ledger)
    THEN Types(<<Without(Len(ledger) - Len(desired))>>, desired)
    ELSE Types(<<Without(Len(ledger)), Without(Len(ledger)) \o desired>>, desired)

\* _checkpoint: the generation is no longer the worker's.  (Mutant: unchecked.)
NeverCancelled == FALSE
Cancelled == stopped

\* The result is one that could not be delivered.  (Mutant: only one whose
\* delivery raised.)
IsFailedError == ~Cancelled /\ final # <<>> /\ expected /\ reason = "error"
IsFailed == ~Cancelled /\ final # <<>> /\ (needed \/ (expected /\ reason = "error"))

\* _record_failed_result
RecordsFailedResult ==
    \/ vault' = final /\ refused' = refused
    \/ VaultMayRefuse /\ refused' = TRUE /\ vault' = vault

-----------------------------------------------------------------------------
(* The worker *)

\* _handle_press of a streaming chord.  A cold model leaves no stream thread.
Press ==
    /\ phase = "idle" /\ ~stopped /\ utt < MaxUtterances
    /\ utt' = utt + 1 /\ phase' = "recording"
    /\ \E loop \in {"off", "listening"} : thread' = [thread EXCEPT ![utt'] = loop]
    /\ final' = <<>> /\ reason' = "ok" /\ expected' = FALSE /\ needed' = FALSE
    /\ base' = doc /\ raised' = FALSE /\ clip' = <<>> /\ vault' = <<>> /\ refused' = FALSE
    /\ UNCHANGED <<stopEvent, partial, history, committed, ledger, lastInjected, doc,
                   stopped>>

\* _handle_release and the head of _finish_streaming: signal the stream thread
\* and join it, until it ends or the join times out.  A thread that goes on
\* looks at the event before it makes use of what its passes agreed on.
Release ==
    /\ phase = "recording" /\ phase' = "decoding"
    /\ stopEvent' = [stopEvent EXCEPT ![utt] = TRUE]
    /\ history' = [history EXCEPT ![utt] = <<>>]
    /\ committed' = [committed EXCEPT ![utt] = 0]
    /\ UNCHANGED <<utt, thread, partial, fieldVars, lastInjected, final, resultVars,
                   keptVars, stopped, base>>

\* The whole utterance transcribes to a text; one that the decoder rejects is
\* the empty text.
DecodeFinal ==
    /\ phase = "decoding"
    /\ phase' = IF Cancelled THEN "finishing" ELSE "delivering"
    /\ \E t \in Finals \cup {<<>>} : final' = t
    /\ UNCHANGED <<utt, threadVars, fieldVars, lastInjected, resultVars, keptVars, stopped,
                   base>>

\* It is too short or too quiet for that, or the decoder raises.
DecodeNothing ==
    /\ phase = "decoding" /\ phase' = "finishing"
    /\ reason' \in {"ok", "error"}
    /\ UNCHANGED <<utt, threadVars, fieldVars, lastInjected, final, expected, needed,
                   keptVars, stopped, base>>

\* The post-processing raises, and leaves what it has made of the text so far.
PolishRaises ==
    /\ phase = "decoding" /\ phase' = "finishing" /\ reason' = "error"
    /\ \E t \in Finals \cup {<<>>} : final' = t
    /\ UNCHANGED <<utt, threadVars, fieldVars, lastInjected, expected, needed, keptVars,
                   stopped, base>>

\* The undo ledger, once "typed" is what the utterance has put in the field.
Undoable(typed) == IF typed # <<>> /\ final # <<>> THEN typed ELSE lastInjected

\* The last call to the overlay raises.
OverlayRaises == IF MayFail THEN {"error"} ELSE {}

\* The target is not in front.  (A spoken Enter that follows an empty text is
\* then skipped.)
SetAside ==
    /\ final # ledger /\ Stashes(final) /\ UNCHANGED <<doc, ledger, raised>>
    /\ needed' = (final # <<>>)
    /\ reason' \in (IF final = <<>> THEN {"ok"} ELSE {}) \cup {"focus_changed"} \cup OverlayRaises
    /\ lastInjected' = Undoable(ledger)

\* The field is brought in line, and a spoken Enter pressed, or skipped when
\* the target is no longer in front; or the injector raises, at the text or at
\* the Enter, before the undo ledger is set, or the overlay after it.
BringInLine ==
    /\ IF final = ledger THEN UNCHANGED <<doc, ledger, raised>> ELSE Reconcile(final)
    /\ clip' = clip /\ needed' = needed
    /\ IF ledger' = final
       THEN /\ reason' \in {"ok", "focus_changed"} \cup OverlayRaises
            /\ \/ lastInjected' = Undoable(final)
               \/ reason' = "error" /\ lastInjected' = lastInjected
       ELSE reason' = "error" /\ lastInjected' = lastInjected

\* Under _inject_gate and _terminal_lock, all in one.
Deliver ==
    /\ phase = "delivering" /\ phase' = "finishing"
    /\ IF Cancelled THEN UNCHANGED <<fieldVars, resultVars, lastInjected>>
       ELSE expected' = (final # <<>>) /\ (SetAside \/ BringInLine)
    /\ UNCHANGED <<utt, threadVars, final, keptVars, stopped, base>>

\* The finally block: keep a failed result, go back to idle, forget the ledger.
Finish ==
    /\ phase = "finishing" /\ phase' = "idle"
    /\ IF IsFailed THEN RecordsFailedResult ELSE UNCHANGED keptVars
    /\ ledger' = <<>>
    /\ UNCHANGED <<utt, threadVars, doc, clip, lastInjected, final, resultVars, stopped,
                   base, raised>>

\* The history of the last utterance is forgotten when the field changes otherwise.
ForgetsUtterance ==
    /\ base' = <<>> /\ final' = <<>> /\ raised' = FALSE /\ clip' = <<>>
    /\ reason' = "ok" /\ expected' = FALSE /\ needed' = FALSE
    /\ vault' = <<>> /\ refused' = FALSE

\* A plain dictation, _process_current_utterance, as far as the field and the
\* undo ledger see it; the rest is in Dictation.
Dictate(text) ==
    /\ phase = "idle" /\ ~stopped /\ Len(doc) + Len(text) <= MaxDoc
    /\ \/ doc' = doc \o text /\ lastInjected' = text
       \/ doc' \in {doc} \cup (IF MayFail THEN {doc \o text} ELSE {}) /\ UNCHANGED lastInjected
    /\ ForgetsUtterance
    /\ UNCHANGED <<phase, utt, threadVars, ledger, stopped>>

\* _undo_last_injection, in front: one Backspace for every character.
UndoLast ==
    /\ phase = "idle" /\ ~stopped /\ lastInjected # <<>>
    /\ doc' = Without(Len(lastInjected))
    /\ lastInjected' \in {<<>>} \cup (IF MayFail THEN {lastInjected} ELSE {})
    /\ ForgetsUtterance
    /\ UNCHANGED <<phase, utt, threadVars, ledger, stopped>>

-----------------------------------------------------------------------------
(* The stream thread of utterance u: _streaming_loop *)

\* The stop event it captured, or the generation it was started in.
\* (Mutant: the event is not looked at again.)
MustEndIfStopped(u) == Cancelled
MustEnd(u) == stopEvent[u] \/ Cancelled

\* Its locals go with it.
EndThread(u) ==
    /\ thread' = [thread EXCEPT ![u] = "off"]
    /\ partial' = [partial EXCEPT ![u] = <<>>]
    /\ history' = [history EXCEPT ![u] = <<>>]
    /\ committed' = [committed EXCEPT ![u] = 0]
    /\ UNCHANGED stopEvent

\* A pass: wait, peek and transcribe, looking at the stop event before and
\* after.  It returns some text, or nothing to deliver (too short, or raised).
LoopPass(u) ==
    /\ thread[u] = "listening"
    /\ \/ MustEnd(u) /\ EndThread(u)
       \/ /\ ~MustEnd(u) /\ thread' = [thread EXCEPT ![u] = "gate"]
          /\ \E t \in Texts : partial' = [partial EXCEPT ![u] = t]
          /\ UNCHANGED <<stopEvent, history, committed>>
    /\ UNCHANGED <<phase, utt, fieldVars, lastInjected, final, resultVars, keptVars,
                   stopped, base>>

\* Under _inject_gate and _terminal_lock: look again, commit, type.
LoopDelivers(u) ==
    /\ thread[u] = "gate"
    /\ \/ MustEnd(u) /\ EndThread(u) /\ UNCHANGED fieldVars
       \/ /\ ~MustEnd(u)
          /\ thread' = [thread EXCEPT ![u] = "listening"]
          /\ history' = [history EXCEPT ![u] = Window(@, partial[u])]
          /\ committed' = [committed EXCEPT ![u] = Commit(history'[u], @)]
          /\ partial' = [partial EXCEPT ![u] = <<>>]
          /\ IF committed'[u] = committed[u] THEN UNCHANGED fieldVars
             ELSE InjectDelta(SubSeq(partial[u], committed[u] + 1, committed'[u]))
          /\ UNCHANGED stopEvent
    /\ UNCHANGED <<phase, utt, lastInjected, final, resultVars, keptVars, stopped, base>>

\* PipelineWorker.stop(): cancel the generation under _terminal_lock, stop the
\* stream thread; a worker that is waiting for events ends.
Stop ==
    /\ ~stopped /\ stopped' = TRUE
    /\ phase' = IF phase = "recording" THEN "idle" ELSE phase
    /\ stopEvent' = [u \in Utterances |-> stopEvent[u] \/ (u = utt /\ phase # "idle")]
    /\ UNCHANGED <<utt, thread, partial, history, committed, fieldVars, lastInjected,
                   final, resultVars, keptVars, base>>

-----------------------------------------------------------------------------
WorkerNext ==
    \/ Press \/ Release \/ DecodeFinal \/ DecodeNothing \/ PolishRaises \/ Deliver \/ Finish
    \/ UndoLast
    \/ \E t \in Finals : Dictate(t)

LoopNext == \E u \in Utterances : LoopPass(u) \/ LoopDelivers(u)

Next == WorkerNext \/ LoopNext \/ Stop

Spec == Init /\ [][Next]_vars

-----------------------------------------------------------------------------
\* Every variable keeps its type, and a committer keeps the last passes only.
TypeOK ==
    /\ phase \in {"idle", "recording", "decoding", "delivering", "finishing"}
    /\ utt \in 0..MaxUtterances
    /\ thread \in [Utterances -> {"off", "listening", "gate"}]
    /\ stopEvent \in [Utterances -> BOOLEAN]
    /\ partial \in [Utterances -> Texts \cup {<<>>}] /\ committed \in [Utterances -> Nat]
    /\ history \in [Utterances -> Seq(Texts)]
    /\ \A u \in Utterances : Len(history[u]) <= Passes
    /\ doc \in Seq(Pieces) /\ base \in Seq(Pieces) /\ ledger \in Seq(Pieces)
    /\ lastInjected \in Seq(Pieces)
    /\ final \in Finals \cup {<<>>} /\ reason \in {"ok", "focus_changed", "error"}
    /\ {expected, needed, refused, stopped, raised} \subseteq BOOLEAN

\* The ledger is what the utterance has typed, through every interleaving of
\* stream passes, late ones of the previous utterance included, with the final
\* delivery: retracting Len(ledger) characters removes the user's streamed
\* words and nothing else.
LedgerIsField ==
    phase \in {"recording", "decoding", "delivering"} /\ ~raised
        => doc = base \o ledger

\* Of an utterance whose delivery began, the field reads exactly as the final
\* transcript, however the streamed prefix diverged; otherwise the transcript is
\* kept for the user, on the clipboard or in the recovery store, unless the
\* store was handed it and did not keep it.  (Only an injector that raised
\* during a stream pass may leave stray pieces before a delivery that succeeds.)
WordsAreKept ==
    phase = "idle" /\ ~stopped /\ final # <<>> /\ expected =>
        \/ doc = base \o final
        \/ final \in {clip, vault} \/ refused
        \/ raised /\ ~needed /\ reason # "error"

\* A stream thread types only into its own utterance and only until its chord
\* is released: what finalize delivered is never typed over by a late pass.
LatePassesAreSilent ==
    [][\A u \in Utterances :
        thread[u] = "gate" /\ thread'[u] # "gate" /\ fieldVars' # fieldVars
            => u = utt /\ phase = "recording"]_vars

\* "Once stop() returns, every later effect observes the cancelled generation":
\* a stopped pipeline neither types nor touches the clipboard.
StopIsFinal == [][stopped => UNCHANGED <<doc, clip>>]_vars
=============================================================================
