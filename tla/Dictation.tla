----------------------------- MODULE Dictation -----------------------------
(***************************************************************************)
(* What becomes of one utterance after another (pipeline.py,               *)
(* _process_current_utterance) in the modes dictation and command: it is   *)
(* transcribed, edited, cleaned, typed into the window of the press or     *)
(* routed as a command, and what could not be typed is copied or kept.     *)
(* The worker is one thread; an application thread may stop it between any *)
(* two of its steps, each of which is a section of _terminal_lock or a     *)
(* call outside it.  An utterance that is still worked at when stop()      *)
(* comes ends at its next checkpoint.                                      *)
(*                                                                         *)
(* The text of an utterance is its number, at every stage; 0 is no text.   *)
(***************************************************************************)
EXTENDS Integers, Sequences, SequencesExt

CONSTANTS
    Enter,            \* what press_enter leaves in the field
    InjectorMayFail,  \* whether a call of the injector may raise
    ClipboardMayFail, \* whether set_clipboard_text may raise
    VaultMayRefuse,   \* whether the recovery store may be absent, off or fail
    MaxUtterances     \* bound: utterances

ASSUME DictationAssumption ==
    /\ MaxUtterances \in Nat /\ Enter \notin 1..MaxUtterances
    /\ {InjectorMayFail, ClipboardMayFail, VaultMayRefuse} \subseteq BOOLEAN

Utterances == 1..MaxUtterances
Modes == {"dictation", "command"}
Reasons == {"ok", "focus_changed", "error", "sent", "enter", "undone",
            "nothing_to_undo", "empty"}

VARIABLES
    phase,         \* what the worker does next
    utt,           \* number of the current or last utterance
    mode,
    bound,         \* the injector can type into the window of the press itself
    submit,        \* "press enter" was peeled off the end of the text
    text,          \* raw or cleaned
    result,        \* command_result
    injected, discarded, expected, reason,
    lastInjected,  \* _last_injected
    stopped,       \* _stop, with the cancelled generation
    doc,           \* what was typed into the field, piece by piece
    copied,        \* the texts _stash_transcript has put on the clipboard
    kept,          \* the texts the recovery store has taken
    reports,       \* the TranscriptReady events
    typed,         \* (history) the texts that have arrived in the field
    raised,        \* (history) those whose own injector call raised
    refused        \* (history) those that the clipboard refused

workVars == <<mode, bound, submit, text, result, injected, discarded, expected, reason>>
outVars == <<doc, lastInjected, typed, raised>>
keepVars == <<copied, refused>>
vars == <<phase, utt, workVars, outVars, keepVars, kept, reports, stopped>>

Init ==
    /\ phase = "idle" /\ utt = 0 /\ mode = "dictation" /\ bound = FALSE
    /\ submit = FALSE /\ text = 0 /\ result = 0
    /\ injected = FALSE /\ discarded = FALSE /\ expected = FALSE /\ reason = "ok"
    /\ lastInjected = 0 /\ stopped = FALSE
    /\ doc = <<>> /\ copied = {} /\ kept = {} /\ reports = <<>>
    /\ typed = {} /\ raised = {} /\ refused = {}

-----------------------------------------------------------------------------
(* The worker's calls. *)

\* A section of the worker begins with a checkpoint.
At(p) == phase = p /\ ~stopped

\* _inject_text or an executor: the text arrives, or the call raises, before or
\* after it has.  "succeeds" tells which.
Inserts(t, succeeds) ==
    \/ succeeds /\ doc' = Append(doc, t) /\ typed' = typed \cup {t} /\ raised' = raised
    \/ /\ InjectorMayFail /\ ~succeeds /\ raised' = raised \cup {t}
       /\ \/ doc' = Append(doc, t) /\ typed' = typed \cup {t}
          \/ UNCHANGED <<doc, typed>>

\* _stash_transcript, which never raises.
Stashes(t) ==
    \/ t # 0 /\ copied' = copied \cup {t} /\ refused' = refused
    \/ t # 0 /\ ClipboardMayFail /\ refused' = refused \cup {t} /\ copied' = copied
    \/ t = 0 /\ UNCHANGED keepVars

FallbackText == IF mode = "command" THEN result ELSE text

-----------------------------------------------------------------------------
Press ==
    /\ At("idle") /\ utt < MaxUtterances
    /\ phase' = "recording" /\ utt' = utt + 1
    /\ mode' \in Modes /\ bound' \in BOOLEAN
    /\ UNCHANGED <<submit, text, result, injected, discarded, expected, reason, outVars, keepVars, kept, reports, stopped>>

Release ==
    /\ At("recording") /\ phase' = "capturing"
    /\ UNCHANGED <<utt, workVars, outVars, keepVars, kept, reports, stopped>>

\* A call outside the lock that raises: asr.load, asr.transcribe, an edit,
\* cleanup.clean, capture.end_utterance.
Raises ==
    /\ \E p \in {"capturing", "transcribing", "editing", "cleaning", "routing"} : At(p)
    /\ reason' = "error" /\ phase' = "failing"
    /\ UNCHANGED <<utt, mode, bound, submit, text, result, injected, discarded, expected,
                   outVars, keepVars, kept, reports, stopped>>

Discards ==
    /\ discarded' = TRUE /\ reason' = "empty" /\ phase' = "finishing"
    /\ UNCHANGED <<submit, text>>

\* end_utterance: too short, silent, or to be transcribed.
Capture ==
    /\ At("capturing")
    /\ \/ Discards
       \/ phase' = "transcribing" /\ UNCHANGED <<submit, text, discarded, reason>>
    /\ UNCHANGED <<utt, mode, bound, result, injected, expected,
                   outVars, keepVars, kept, reports, stopped>>

\* The model is loaded when it is not, and transcribes: nothing, an undo
\* command, "press enter", or a text with or without it at its end.
Transcribe ==
    /\ At("transcribing")
    /\ \/ Discards
       \/ mode = "dictation" /\ phase' = "undoing" /\ UNCHANGED <<submit, text, discarded, reason>>
       \/ mode = "dictation" /\ phase' = "entering" /\ UNCHANGED <<submit, text, discarded, reason>>
       \/ /\ phase' = "editing" /\ text' = utt /\ UNCHANGED <<discarded, reason>>
          /\ submit' \in {FALSE, mode = "dictation"}
    /\ UNCHANGED <<utt, mode, bound, result, injected, expected,
                   outVars, keepVars, kept, reports, stopped>>

\* _undo_last_injection
UndoLast ==
    /\ At("undoing") /\ phase' = "finishing"
    /\ \/ /\ lastInjected = 0 /\ reason' = "nothing_to_undo"
          /\ UNCHANGED <<doc, lastInjected>>
       \/ /\ lastInjected # 0 /\ reason' = "focus_changed"
          /\ UNCHANGED <<doc, lastInjected>>
       \/ /\ lastInjected # 0 /\ reason' = "undone"
          /\ doc' = (IF doc = <<>> THEN doc ELSE Front(doc)) /\ lastInjected' = 0
       \/ /\ lastInjected # 0 /\ InjectorMayFail /\ reason' = "error"
          /\ doc' \in {doc, IF doc = <<>> THEN doc ELSE Front(doc)}
          /\ lastInjected' = lastInjected
    /\ discarded' = (reason' # "undone")
    /\ UNCHANGED <<utt, mode, bound, submit, text, result, injected, expected,
                   typed, raised, keepVars, kept, reports, stopped>>

\* "Press enter", with nothing else said.
EnterAlone ==
    /\ At("entering")
    /\ \/ reason' = "enter" /\ doc' = Append(doc, Enter) /\ phase' = "finishing"
          /\ discarded' = discarded
       \/ reason' = "focus_changed" /\ discarded' = TRUE /\ phase' = "finishing"
          /\ doc' = doc
       \/ InjectorMayFail /\ reason' = "error" /\ phase' = "failing"
          /\ UNCHANGED <<doc, discarded>>
    /\ UNCHANGED <<utt, mode, bound, submit, text, result, injected, expected,
                   lastInjected, typed, raised, keepVars, kept, reports, stopped>>

\* Personalization, dictionary, spoken edits; they may leave nothing.
Edit ==
    /\ At("editing")
    /\ \/ phase' = "cleaning" /\ UNCHANGED <<text, discarded, reason>>
       \/ /\ text' = 0 /\ discarded' = TRUE /\ reason' = "empty" /\ phase' = "finishing"
    /\ UNCHANGED <<utt, mode, bound, submit, result, injected, expected,
                   outVars, keepVars, kept, reports, stopped>>

CleanUp ==
    /\ At("cleaning")
    /\ IF mode = "dictation" THEN phase' = "inserting" /\ expected' = TRUE
                             ELSE phase' = "routing" /\ expected' = expected
    /\ UNCHANGED <<utt, mode, bound, submit, text, result, injected, discarded, reason,
                   outVars, keepVars, kept, reports, stopped>>

-----------------------------------------------------------------------------
(* Delivery, in one section of the lock. *)

\* The inner handler of the dictation path copies the text whichever call has
\* raised; with the target in front the exception goes on to the outer one.
InnerHandler(restored) ==
    /\ Stashes(text)
    /\ reason' = IF restored THEN "error" ELSE "focus_changed"
    /\ phase' = IF restored THEN "failing" ELSE "finishing"

\* A text that was typed is followed by Enter when that was said; it is left
\* out when the window of the press is behind and cannot be given the key.
\* (Mutant: the insertion is noted after Enter.)
TypedLate(restored) ==
    /\ Inserts(text, TRUE) /\ UNCHANGED lastInjected
    /\ IF submit /\ InjectorMayFail THEN injected' = FALSE /\ InnerHandler(restored)
       ELSE injected' = TRUE /\ reason' = "ok" /\ phase' = "finishing" /\ UNCHANGED keepVars
Typed(restored) ==
    /\ typed' = typed \cup {text} /\ injected' = TRUE /\ lastInjected' = text
    /\ \/ /\ ~submit \/ ~restored
          /\ reason' = (IF submit THEN "focus_changed" ELSE "ok")
          /\ doc' = Append(doc, text) /\ phase' = "finishing"
          /\ raised' = raised /\ UNCHANGED keepVars
       \/ /\ submit /\ reason' = "sent"
          /\ doc' = doc \o <<text, Enter>> /\ phase' = "finishing"
          /\ raised' = raised /\ UNCHANGED keepVars
       \/ /\ submit /\ InjectorMayFail /\ raised' = raised
          /\ doc' \in {Append(doc, text), doc \o <<text, Enter>>}
          /\ InnerHandler(restored)

\* (Mutant: the checkpoint of the section is missing.)
InsertAnyway ==
    /\ phase = "inserting" /\ \E restored \in BOOLEAN : Typed(restored)
    /\ UNCHANGED <<utt, mode, bound, submit, text, result, discarded, expected,
                   kept, reports, stopped>>
Insert ==
    /\ At("inserting")
    /\ \E restored \in BOOLEAN :
           \/ /\ ~restored /\ ~bound
              /\ Stashes(text) /\ reason' = "focus_changed" /\ phase' = "finishing"
              /\ UNCHANGED <<injected, outVars>>
           \/ (restored \/ bound) /\ Typed(restored)
           \/ /\ restored \/ bound
              /\ Inserts(text, FALSE) /\ InnerHandler(restored)
              /\ UNCHANGED <<injected, lastInjected>>
    /\ UNCHANGED <<utt, mode, bound, submit, text, result, discarded, expected,
                   kept, reports, stopped>>

\* CommandRouter.route: a text to insert, which may be empty, a tool call, or
\* nothing.  The reason is the router's.
Route ==
    /\ At("routing") /\ result' \in {0, utt}
    /\ \/ phase' = "executing" /\ expected' = TRUE
       \/ phase' \in {"dispatching", "finishing"} /\ expected' = expected
    /\ UNCHANGED <<utt, mode, bound, submit, text, injected, discarded, reason,
                   outVars, keepVars, kept, reports, stopped>>

\* CommandExecutor.execute, if the window of the press can be put in front.
Execute ==
    /\ At("executing")
    /\ \/ /\ reason' = "focus_changed" /\ phase' = "finishing"
          /\ Stashes(IF result # 0 THEN result ELSE text)
          /\ UNCHANGED <<injected, doc, typed, raised>>
       \/ /\ result = 0 /\ phase' = "finishing"
          /\ UNCHANGED <<injected, reason, doc, typed, raised, keepVars>>
       \/ /\ result # 0 /\ Inserts(result, TRUE) /\ injected' = TRUE
          /\ phase' = "finishing" /\ UNCHANGED <<reason, keepVars>>
       \/ /\ result # 0 /\ Inserts(result, FALSE)
          /\ phase' = "failing" /\ reason' = "error" /\ UNCHANGED <<injected, keepVars>>
    /\ UNCHANGED <<utt, mode, bound, submit, text, result, discarded, expected,
                   lastInjected, kept, reports, stopped>>

\* A tool call leaves as one request; it may raise.
Dispatch ==
    /\ At("dispatching")
    /\ \/ phase' = "finishing" /\ reason' = reason
       \/ phase' = "failing" /\ reason' = "error"
    /\ UNCHANGED <<utt, mode, bound, submit, text, result, injected, discarded, expected,
                   outVars, keepVars, kept, reports, stopped>>

-----------------------------------------------------------------------------
\* The locals of an utterance end with it.
Forgets ==
    /\ mode' = "dictation" /\ bound' = FALSE /\ submit' = FALSE /\ text' = 0 /\ result' = 0
    /\ injected' = FALSE /\ discarded' = FALSE /\ expected' = FALSE /\ reason' = "ok"

\* The outer handler: what was not typed is copied.  (Mutants: it is not; the
\* exception passes by the finally clause.)
FailDropping ==
    /\ phase = "failing" /\ phase' = "finishing" /\ UNCHANGED keepVars
    /\ UNCHANGED <<utt, workVars, outVars, kept, reports, stopped>>
FailUnanswered ==
    /\ phase = "failing" /\ phase' = "idle" /\ Forgets
    /\ UNCHANGED <<utt, outVars, keepVars, kept, reports, stopped>>
Fail ==
    /\ phase = "failing" /\ phase' = "finishing"
    /\ IF ~stopped /\ ~injected THEN Stashes(FallbackText) ELSE UNCHANGED keepVars
    /\ UNCHANGED <<utt, workVars, outVars, kept, reports, stopped>>

\* The finally clause: a cancelled utterance ends here; a result that was to be
\* inserted and was not goes to the recovery store.
Finish ==
    /\ phase = "finishing"
    /\ phase' = IF stopped THEN "ended"
                ELSE IF expected /\ ~injected /\ FallbackText # 0 THEN "keeping"
                ELSE "reporting"
    /\ UNCHANGED <<utt, workVars, outVars, keepVars, kept, reports, stopped>>

\* _record_failed_result, outside the lock and without a checkpoint.
Keep ==
    /\ phase = "keeping" /\ phase' = "reporting"
    /\ \/ kept' = kept \cup {FallbackText}
       \/ VaultMayRefuse /\ kept' = kept
    /\ UNCHANGED <<utt, workVars, outVars, keepVars, reports, stopped>>

\* The TranscriptReady event.
Answer == [utt |-> utt, injected |-> injected]
Report ==
    /\ phase = "reporting" /\ phase' = "closing"
    /\ reports' = IF stopped THEN reports ELSE Append(reports, Answer)
    /\ UNCHANGED <<utt, workVars, outVars, keepVars, kept, stopped>>

\* finish_processing.
Close ==
    /\ phase = "closing" /\ phase' = (IF stopped THEN "ended" ELSE "idle") /\ Forgets
    /\ UNCHANGED <<utt, outVars, keepVars, kept, reports, stopped>>

\* A checkpoint that raises, or the loop that sees _stop.
Cancelled ==
    /\ stopped
    /\ phase \notin {"failing", "finishing", "keeping", "reporting", "closing", "ended"}
    /\ phase' = "ended"
    /\ UNCHANGED <<utt, workVars, outVars, keepVars, kept, reports, stopped>>

\* The first section of stop(); the rest of it waits for the worker.
Stop ==
    /\ ~stopped /\ stopped' = TRUE
    /\ UNCHANGED <<phase, utt, workVars, outVars, keepVars, kept, reports>>

Work ==
    \/ Raises \/ Capture \/ Transcribe \/ UndoLast \/ EnterAlone \/ Edit \/ CleanUp
    \/ Insert \/ Route \/ Execute \/ Dispatch
    \/ Fail \/ Finish \/ Keep \/ Report \/ Close \/ Cancelled

Next == Press \/ Release \/ Work \/ Stop

\* The worker goes on; the user need not press, nor release.
Spec == Init /\ [][Next]_vars /\ WF_vars(Work)
-----------------------------------------------------------------------------
\* Every variable keeps its type; a text is that of the present utterance.
TypeOK ==
    /\ phase \in {"idle", "recording", "capturing", "transcribing", "undoing", "entering",
                  "editing", "cleaning", "inserting", "routing", "executing", "dispatching",
                  "failing", "finishing", "keeping", "reporting", "closing", "ended"}
    /\ utt \in 0..MaxUtterances /\ mode \in Modes
    /\ bound \in BOOLEAN /\ submit \in BOOLEAN /\ injected \in BOOLEAN
    /\ discarded \in BOOLEAN /\ expected \in BOOLEAN /\ stopped \in BOOLEAN
    /\ text \in {0, utt} /\ result \in {0, utt} /\ lastInjected \in 0..utt
    /\ reason \in Reasons
    /\ doc \in Seq(Utterances \cup {Enter})
    /\ copied \subseteq Utterances /\ refused \subseteq Utterances /\ kept \subseteq Utterances
    /\ typed \subseteq Utterances /\ raised \subseteq Utterances
    /\ reports \in Seq([utt : Utterances, injected : BOOLEAN])

\* "Don't drop the words on the floor": a dictation that was transcribed to a
\* text and was answered is in the field, on the clipboard or in the recovery
\* store, unless the clipboard refused it or an edit emptied it.
WordsAreKept ==
    \A i \in 1..Len(reports) :
        LET u == reports[i].utt IN
        (u = utt /\ phase = "closing" /\ mode = "dictation" /\ text # 0)
            => u \in typed \cup copied \cup kept \cup refused

\* The recovery store keeps "only usable text that could not be inserted, never
\* successful dictation": nothing that is in the field, but for a call of the
\* injector that raised after it had typed.
VaultKeepsFailures == kept \cap typed \subseteq raised

\* An utterance whose key was released is answered, unless the pipeline stops.
Answered ==
    \A u \in Utterances :
        (utt = u /\ phase = "capturing")
            ~> (stopped \/ \E i \in 1..Len(reports) : reports[i].utt = u)

\* What the user sees is a session.
ToSession == INSTANCE Session WITH
    open <- IF phase \in {"idle", "ended"} THEN 0 ELSE utt,
    last <- utt,
    field <- doc,
    typed <- typed,
    copied <- copied,
    kept <- kept,
    answered <- {reports[i].utt : i \in 1..Len(reports)},
    claimed <- {reports[i].utt : i \in {j \in 1..Len(reports) : reports[j].injected}},
    over <- stopped
IsSession == ToSession!Spec
=============================================================================
