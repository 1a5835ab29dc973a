-------------------------- MODULE DictationProofs --------------------------
(***************************************************************************)
(* Theorems of Dictation, for any number of utterances and whichever calls *)
(* may fail: it implements Session, keeps the words of an utterance that   *)
(* was answered, and stores for recovery only what was not inserted.  And  *)
(* of Recognizer, the models that transcribe the utterances: who tells of  *)
(* a load holds the provider's lock, and who decodes with a whisper its    *)
(* inference lock, also while it is loaded anew for the CPU.               *)
(***************************************************************************)
EXTENDS Dictation, Recognizer, TLAPS

\* Where an utterance has no text yet, and where it has one that nobody has typed.
Early == {"recording", "capturing", "transcribing", "undoing", "entering"}
Working == {"editing", "cleaning", "inserting", "routing", "executing", "dispatching"}

\* The locals of the worker belong to the utterance that it works at.
LocalInv ==
    /\ phase \notin {"idle", "ended"} => utt # 0
    /\ phase = "idle" => text = 0 /\ result = 0 /\ ~injected
    /\ phase \in Early => text = 0
    /\ phase \in Working => text = utt
    /\ phase \in {"routing", "executing", "dispatching"} => mode = "command"
    /\ phase = "keeping" => FallbackText # 0 /\ ~injected

\* Nothing is known of an utterance that was not spoken.
PastInv ==
    /\ typed \subseteq 1..utt /\ kept \subseteq 1..utt
    /\ \A i \in 1..Len(reports) : reports[i].utt \in 1..utt

\* An utterance is typed once and answered once.
OnceInv ==
    /\ phase \in Early \cup Working => utt \notin typed /\ utt \notin kept /\ ~injected
    /\ phase \notin {"closing", "idle", "ended"} =>
           \A i \in 1..Len(reports) : reports[i].utt # utt
    /\ phase = "closing" => stopped \/ \E i \in 1..Len(reports) : reports[i].utt = utt

\* The worker knows what it has typed, but for a call that raised.
TruthInv ==
    /\ injected => utt \in typed
    /\ phase \notin {"idle", "ended"} /\ utt \in typed => injected \/ utt \in raised
    /\ VaultKeepsFailures

\* A text that has passed its delivery is somewhere, unless the worker was stopped.
KeptInv ==
    mode = "dictation" /\ text # 0 =>
        /\ phase = "finishing" => stopped \/ utt \in typed \cup copied \cup kept \cup refused
        /\ phase \in {"keeping", "reporting", "closing"} =>
               utt \in typed \cup copied \cup kept \cup refused

DictationInv == TypeOK /\ LocalInv /\ PastInv /\ OnceInv /\ TruthInv /\ KeptInv

LEMMA InitInv == Init => DictationInv
<1> SUFFICES ASSUME Init PROVE DictationInv
  OBVIOUS
<1>1. TypeOK
  <2>1. /\ utt \in 0..MaxUtterances /\ mode \in Modes /\ lastInjected \in 0..utt
        /\ reason \in Reasons
    BY DictationAssumption DEF Init, Modes, Reasons
  <2>2. doc \in Seq(Utterances \cup {Enter})
    BY DEF Init
  <2>3. reports \in Seq([utt : Utterances, injected : BOOLEAN])
    BY DEF Init
  <2>. QED BY <2>1, <2>2, <2>3 DEF Init, TypeOK
<1>2. LocalInv /\ PastInv /\ OnceInv /\ TruthInv /\ KeptInv
  BY DEF Init, LocalInv, PastInv, OnceInv, TruthInv, KeptInv, Early, Working, VaultKeepsFailures
<1>. QED BY <1>1, <1>2 DEF DictationInv

\* What Append, \o and Front make of the field and of the reports.
LEMMA FieldTypes ==
    ASSUME NEW s \in Seq(Utterances \cup {Enter}), NEW x \in Utterances
    PROVE  /\ Append(s, x) \in Seq(Utterances \cup {Enter})
           /\ Append(s, Enter) \in Seq(Utterances \cup {Enter})
           /\ s \o <<x, Enter>> \in Seq(Utterances \cup {Enter})
<1>1. <<x, Enter>> \in Seq(Utterances \cup {Enter})
  OBVIOUS
<1>. QED BY <1>1

LEMMA EnterTypes ==
    ASSUME NEW s \in Seq(Utterances \cup {Enter})
    PROVE  Append(s, Enter) \in Seq(Utterances \cup {Enter})
OBVIOUS

LEMMA FrontTypes ==
    ASSUME NEW s \in Seq(Utterances \cup {Enter}), s # <<>>
    PROVE  Front(s) \in Seq(Utterances \cup {Enter})
BY DEF Front

LEMMA ReportTypes ==
    ASSUME NEW s \in Seq([utt : Utterances, injected : BOOLEAN]),
           NEW u \in Utterances, NEW b \in BOOLEAN
    PROVE  Append(s, [utt |-> u, injected |-> b]) \in Seq([utt : Utterances, injected : BOOLEAN])
OBVIOUS

LEMMA TypeNext == DictationInv /\ [Next]_vars => TypeOK'
<1> SUFFICES ASSUME DictationInv, [Next]_vars PROVE TypeOK'
  OBVIOUS
<1> USE DictationAssumption DEF DictationInv, TypeOK, LocalInv, Early, Working, Modes, Reasons, Utterances, At, workVars, outVars, keepVars
<1>. phase \notin {"idle", "ended"} => utt \in Utterances
  OBVIOUS
<1>1. CASE Press
  BY <1>1 DEF Press
<1>2. CASE Release
  BY <1>2 DEF Release
<1>3. CASE Raises
  BY <1>3 DEF Raises
<1>4. CASE Capture
  BY ZenonT(30), <1>4 DEF Capture, Discards
<1>5. CASE Transcribe
  <2>1. submit' \in BOOLEAN /\ text' \in {0, utt} /\ reason' \in Reasons /\ discarded' \in BOOLEAN
    BY <1>5 DEF Transcribe, Discards
  <2>. QED BY <1>5, <2>1 DEF Transcribe, Discards
<1>6. CASE UndoLast
  BY <1>6, FrontTypes DEF UndoLast
<1>7. CASE EnterAlone
  BY <1>7, EnterTypes DEF EnterAlone
<1>8. CASE Edit
  BY ZenonT(30), <1>8 DEF Edit
<1>9. CASE CleanUp
  BY ZenonT(30), <1>9 DEF CleanUp
<1>10. CASE Insert
  <2>1. text = utt /\ utt \in Utterances
    BY <1>10 DEF Insert
  <2>2. doc' \in {doc, Append(doc, utt), doc \o <<utt, Enter>>}
    BY <1>10, <2>1 DEF Insert, Typed, Inserts
  <2>3. doc' \in Seq(Utterances \cup {Enter})
    BY ZenonT(30), <2>1, <2>2, FieldTypes
  <2>4. /\ typed' \subseteq Utterances /\ raised' \subseteq Utterances
        /\ copied' \subseteq Utterances /\ refused' \subseteq Utterances
    BY <1>10, <2>1 DEF Insert, Typed, Inserts, InnerHandler, Stashes
  <2>5. /\ phase' \in {"failing", "finishing"} /\ injected' \in BOOLEAN
        /\ lastInjected' \in {lastInjected, utt}
    BY <1>10, <2>1 DEF Insert, Typed, InnerHandler
  <2>6. reason' \in Reasons
    BY <1>10 DEF Insert, Typed, InnerHandler
  <2>. QED BY <1>10, <2>3, <2>4, <2>5, <2>6 DEF Insert
<1>11. CASE Route
  <2>1. result' \in {0, utt} /\ expected' \in BOOLEAN /\ phase' \in {"executing", "dispatching", "finishing"}
    BY <1>11 DEF Route
  <2>. QED BY <1>11, <2>1 DEF Route
<1>12. CASE Execute
  <2>1. text = utt /\ utt \in Utterances
    BY <1>12 DEF Execute
  <2>2. doc' = doc \/ doc' = Append(doc, utt)
    BY <1>12, <2>1 DEF Execute, Inserts
  <2>3. doc' \in Seq(Utterances \cup {Enter})
    BY <2>1, <2>2, FieldTypes
  <2>4. /\ typed' \subseteq Utterances /\ raised' \subseteq Utterances
        /\ copied' \subseteq Utterances /\ refused' \subseteq Utterances
    BY <1>12, <2>1 DEF Execute, Inserts, Stashes
  <2>5. phase' \in {"failing", "finishing"} /\ injected' \in BOOLEAN /\ reason' \in Reasons
    BY <1>12 DEF Execute
  <2>. QED BY <1>12, <2>3, <2>4, <2>5 DEF Execute
<1>13. CASE Dispatch
  BY <1>13 DEF Dispatch
<1>14. CASE Fail
  <2>1. utt \in Utterances /\ FallbackText \in {0, utt}
    BY <1>14 DEF Fail, FallbackText
  <2>2. copied' \subseteq Utterances /\ refused' \subseteq Utterances
    BY <1>14, <2>1 DEF Fail, Stashes
  <2>. QED BY <1>14, <2>2 DEF Fail
<1>15. CASE Finish
  BY <1>15 DEF Finish
<1>16. CASE Keep
  <2>1. FallbackText \in Utterances
    BY <1>16 DEF Keep, FallbackText
  <2>2. kept' \subseteq Utterances
    BY <1>16, <2>1 DEF Keep
  <2>. QED BY <1>16, <2>2 DEF Keep
<1>17. CASE Report
  <2>1. Append(reports, Answer) \in Seq([utt : Utterances, injected : BOOLEAN])
    BY <1>17, ReportTypes DEF Report, Answer
  <2>2. reports' \in Seq([utt : Utterances, injected : BOOLEAN])
    BY <1>17, <2>1 DEF Report
  <2>. QED BY <1>17, <2>2 DEF Report
<1>18. CASE Close
  BY <1>18 DEF Close, Forgets
<1>19. CASE Cancelled
  BY <1>19 DEF Cancelled
<1>20. CASE Stop
  BY <1>20 DEF Stop
<1>21. CASE UNCHANGED vars
  BY <1>21 DEF vars
<1>. QED BY <1>1, <1>2, <1>3, <1>4, <1>5, <1>6, <1>7, <1>8, <1>9, <1>10, <1>11, <1>12, <1>13, <1>14, <1>15, <1>16, <1>17, <1>18, <1>19, <1>20, <1>21 DEF Next, Work

LEMMA RestNext == DictationInv /\ [Next]_vars => (LocalInv /\ PastInv /\ OnceInv /\ TruthInv /\ KeptInv)'
<1> SUFFICES ASSUME DictationInv, [Next]_vars PROVE (LocalInv /\ PastInv /\ OnceInv /\ TruthInv /\ KeptInv)'
  OBVIOUS
<1> USE DictationAssumption DEF DictationInv, TypeOK, LocalInv, PastInv, OnceInv, TruthInv, KeptInv, VaultKeepsFailures, FallbackText, Early, Working, Modes, Utterances, At, workVars, outVars, keepVars
<1>1. CASE Press
  <2>1. LocalInv'
    BY <1>1 DEF Press
  <2>2. PastInv'
    BY <1>1 DEF Press
  <2>3. OnceInv'
    BY <1>1 DEF Press
  <2>4. TruthInv'
    BY <1>1 DEF Press
  <2>5. KeptInv'
    BY <1>1 DEF Press
  <2>. QED BY <2>1, <2>2, <2>3, <2>4, <2>5
<1>2. CASE Release
  <2>1. LocalInv'
    BY <1>2 DEF Release
  <2>2. PastInv'
    BY <1>2 DEF Release
  <2>3. OnceInv'
    BY <1>2 DEF Release
  <2>4. TruthInv'
    BY <1>2 DEF Release
  <2>5. KeptInv'
    BY <1>2 DEF Release
  <2>. QED BY <2>1, <2>2, <2>3, <2>4, <2>5
<1>3. CASE Raises
  <2>1. LocalInv'
    BY <1>3 DEF Raises
  <2>2. PastInv'
    BY <1>3 DEF Raises
  <2>3. OnceInv'
    BY <1>3 DEF Raises
  <2>4. TruthInv'
    BY <1>3 DEF Raises
  <2>5. KeptInv'
    BY <1>3 DEF Raises
  <2>. QED BY <2>1, <2>2, <2>3, <2>4, <2>5
<1>4. CASE Capture
  <2>1. LocalInv'
    BY <1>4 DEF Capture, Discards
  <2>2. PastInv'
    BY <1>4 DEF Capture, Discards
  <2>3. OnceInv'
    BY <1>4 DEF Capture, Discards
  <2>4. TruthInv'
    BY <1>4 DEF Capture, Discards
  <2>5. KeptInv'
    BY <1>4 DEF Capture, Discards
  <2>. QED BY <2>1, <2>2, <2>3, <2>4, <2>5
<1>5. CASE Transcribe
  <2>1. LocalInv'
    BY <1>5 DEF Transcribe, Discards
  <2>2. PastInv'
    BY <1>5 DEF Transcribe, Discards
  <2>3. OnceInv'
    BY <1>5 DEF Transcribe, Discards
  <2>4. TruthInv'
    BY <1>5 DEF Transcribe, Discards
  <2>5. KeptInv'
    BY <1>5 DEF Transcribe, Discards
  <2>. QED BY <2>1, <2>2, <2>3, <2>4, <2>5
<1>6. CASE UndoLast
  <2>1. LocalInv'
    BY <1>6 DEF UndoLast
  <2>2. PastInv'
    BY <1>6 DEF UndoLast
  <2>3. OnceInv'
    BY <1>6 DEF UndoLast
  <2>4. TruthInv'
    BY <1>6 DEF UndoLast
  <2>5. KeptInv'
    BY <1>6 DEF UndoLast
  <2>. QED BY <2>1, <2>2, <2>3, <2>4, <2>5
<1>7. CASE EnterAlone
  <2>1. LocalInv'
    BY <1>7 DEF EnterAlone
  <2>2. PastInv'
    BY <1>7 DEF EnterAlone
  <2>3. OnceInv'
    BY <1>7 DEF EnterAlone
  <2>4. TruthInv'
    BY <1>7 DEF EnterAlone
  <2>5. KeptInv'
    BY <1>7 DEF EnterAlone
  <2>. QED BY <2>1, <2>2, <2>3, <2>4, <2>5
<1>8. CASE Edit
  <2>1. LocalInv'
    BY <1>8 DEF Edit
  <2>2. PastInv'
    BY <1>8 DEF Edit
  <2>3. OnceInv'
    BY <1>8 DEF Edit
  <2>4. TruthInv'
    BY <1>8 DEF Edit
  <2>5. KeptInv'
    BY <1>8 DEF Edit
  <2>. QED BY <2>1, <2>2, <2>3, <2>4, <2>5
<1>9. CASE CleanUp
  <2>1. LocalInv'
    BY <1>9 DEF CleanUp
  <2>2. PastInv'
    BY <1>9 DEF CleanUp
  <2>3. OnceInv'
    BY <1>9 DEF CleanUp
  <2>4. TruthInv'
    BY <1>9 DEF CleanUp
  <2>5. KeptInv'
    BY <1>9 DEF CleanUp
  <2>. QED BY <2>1, <2>2, <2>3, <2>4, <2>5
<1>10. CASE Insert
  <2>. text = utt /\ utt \in Utterances /\ utt \notin typed /\ utt \notin kept
    BY <1>10 DEF Insert
  <2>. utt' = utt /\ kept' = kept /\ reports' = reports
    BY <1>10 DEF Insert
  <2>. phase' \in {"failing", "finishing"}
    BY <1>10 DEF Insert, Typed, InnerHandler
  <2>. typed' \in {typed, typed \cup {utt}} /\ raised' \in {raised, raised \cup {utt}}
    BY <1>10 DEF Insert, Typed, Inserts
  <2>. /\ injected' => utt \in typed'
       /\ utt \in typed' => injected' \/ utt \in raised'
    BY <1>10 DEF Insert, Typed, Inserts
  <2>1. LocalInv'
    BY <1>10 DEF Insert, Typed, Inserts, InnerHandler, Stashes
  <2>2. PastInv'
    OBVIOUS
  <2>3. OnceInv'
    BY <1>10 DEF Insert, Typed, Inserts, InnerHandler, Stashes
  <2>4. TruthInv'
    OBVIOUS
  <2>5. KeptInv'
    BY <1>10 DEF Insert, Typed, Inserts, InnerHandler, Stashes
  <2>. QED BY <2>1, <2>2, <2>3, <2>4, <2>5
<1>11. CASE Route
  <2>1. LocalInv'
    BY <1>11 DEF Route
  <2>2. PastInv'
    BY <1>11 DEF Route
  <2>3. OnceInv'
    BY <1>11 DEF Route
  <2>4. TruthInv'
    BY <1>11 DEF Route
  <2>5. KeptInv'
    BY <1>11 DEF Route
  <2>. QED BY <2>1, <2>2, <2>3, <2>4, <2>5
<1>12. CASE Execute
  <2>. text = utt /\ utt \in Utterances /\ utt \notin typed /\ utt \notin kept
    BY <1>12 DEF Execute
  <2>. mode' = "command" /\ utt' = utt /\ kept' = kept /\ reports' = reports
    BY <1>12 DEF Execute
  <2>. phase' \in {"failing", "finishing"}
    BY <1>12 DEF Execute
  <2>. /\ typed' \in {typed, typed \cup {utt}} /\ raised' \in {raised, raised \cup {utt}}
       /\ injected' => utt \in typed'
       /\ utt \in typed' => injected' \/ utt \in raised'
    BY <1>12 DEF Execute, Inserts
  <2>1. LocalInv'
    BY <1>12 DEF Execute, Inserts, Stashes
  <2>2. PastInv'
    OBVIOUS
  <2>3. OnceInv'
    BY <1>12 DEF Execute, Inserts, Stashes
  <2>4. TruthInv'
    OBVIOUS
  <2>5. KeptInv'
    OBVIOUS
  <2>. QED BY <2>1, <2>2, <2>3, <2>4, <2>5
<1>13. CASE Dispatch
  <2>1. LocalInv'
    BY <1>13 DEF Dispatch
  <2>2. PastInv'
    BY <1>13 DEF Dispatch
  <2>3. OnceInv'
    BY <1>13 DEF Dispatch
  <2>4. TruthInv'
    BY <1>13 DEF Dispatch
  <2>5. KeptInv'
    BY <1>13 DEF Dispatch
  <2>. QED BY <2>1, <2>2, <2>3, <2>4, <2>5
<1>14. CASE Fail
  <2>1. LocalInv'
    BY <1>14 DEF Fail, Stashes, FallbackText
  <2>2. PastInv'
    BY <1>14 DEF Fail, Stashes, FallbackText
  <2>3. OnceInv'
    BY <1>14 DEF Fail, Stashes, FallbackText
  <2>4. TruthInv'
    BY <1>14 DEF Fail, Stashes, FallbackText
  <2>5. KeptInv'
    BY <1>14 DEF Fail, Stashes, FallbackText
  <2>. QED BY <2>1, <2>2, <2>3, <2>4, <2>5
<1>15. CASE Finish
  <2>1. LocalInv'
    BY <1>15 DEF Finish
  <2>2. PastInv'
    BY <1>15 DEF Finish
  <2>3. OnceInv'
    BY <1>15 DEF Finish
  <2>4. TruthInv'
    BY <1>15 DEF Finish
  <2>5. KeptInv'
    BY <1>15 DEF Finish
  <2>. QED BY <2>1, <2>2, <2>3, <2>4, <2>5
<1>16. CASE Keep
  <2>1. LocalInv'
    BY <1>16 DEF Keep, FallbackText
  <2>2. PastInv'
    <3>1. FallbackText \in 1..utt
      BY <1>16 DEF Keep
    <3>. QED BY <1>16, <3>1 DEF Keep
  <2>3. OnceInv'
    BY <1>16 DEF Keep, FallbackText
  <2>4. TruthInv'
    BY <1>16 DEF Keep, FallbackText
  <2>5. KeptInv'
    BY <1>16 DEF Keep, FallbackText
  <2>. QED BY <2>1, <2>2, <2>3, <2>4, <2>5
<1>17. CASE Report
  <2>1. LocalInv'
    BY <1>17 DEF Report, Answer
  <2>2. PastInv'
    BY <1>17 DEF Report, Answer
  <2>3. OnceInv'
    BY <1>17 DEF Report, Answer
  <2>4. TruthInv'
    BY <1>17 DEF Report, Answer
  <2>5. KeptInv'
    BY <1>17 DEF Report, Answer
  <2>. QED BY <2>1, <2>2, <2>3, <2>4, <2>5
<1>18. CASE Close
  <2>1. LocalInv'
    BY <1>18 DEF Close, Forgets
  <2>2. PastInv'
    BY <1>18 DEF Close, Forgets
  <2>3. OnceInv'
    BY <1>18 DEF Close, Forgets
  <2>4. TruthInv'
    BY <1>18 DEF Close, Forgets
  <2>5. KeptInv'
    BY <1>18 DEF Close, Forgets
  <2>. QED BY <2>1, <2>2, <2>3, <2>4, <2>5
<1>19. CASE Cancelled
  <2>1. LocalInv'
    BY <1>19 DEF Cancelled
  <2>2. PastInv'
    BY <1>19 DEF Cancelled
  <2>3. OnceInv'
    BY <1>19 DEF Cancelled
  <2>4. TruthInv'
    BY <1>19 DEF Cancelled
  <2>5. KeptInv'
    BY <1>19 DEF Cancelled
  <2>. QED BY <2>1, <2>2, <2>3, <2>4, <2>5
<1>20. CASE Stop
  <2>1. LocalInv'
    BY <1>20 DEF Stop
  <2>2. PastInv'
    BY <1>20 DEF Stop
  <2>3. OnceInv'
    BY <1>20 DEF Stop
  <2>4. TruthInv'
    BY <1>20 DEF Stop
  <2>5. KeptInv'
    BY <1>20 DEF Stop
  <2>. QED BY <2>1, <2>2, <2>3, <2>4, <2>5
<1>21. CASE UNCHANGED vars
  BY <1>21 DEF vars
<1>. QED BY <1>1, <1>2, <1>3, <1>4, <1>5, <1>6, <1>7, <1>8, <1>9, <1>10, <1>11, <1>12, <1>13, <1>14, <1>15, <1>16, <1>17, <1>18, <1>19, <1>20, <1>21 DEF Next, Work

LEMMA InvNext == DictationInv /\ [Next]_vars => DictationInv'
BY TypeNext, RestNext DEF DictationInv

LEMMA InvHolds == Spec => []DictationInv
<1>. QED BY InitInv, InvNext, PTL DEF Spec

\* The worker's variables keep their types, and a text is that of the utterance
\* it belongs to: no text is carried over from one utterance into the next.
THEOREM TypeCorrect == Spec => []TypeOK
<1>1. DictationInv => TypeOK
  BY DEF DictationInv
<1>. QED BY InvHolds, <1>1, PTL

\* A dictated text that was answered is in the field, copied, stored, or was
\* refused by the clipboard: the paths through both handlers and the finally clause.
THEOREM WordsStayKept == Spec => []WordsAreKept
<1>1. DictationInv => WordsAreKept
  BY DEF DictationInv, KeptInv, WordsAreKept
<1>. QED BY InvHolds, <1>1, PTL

\* The recovery store never takes a text that is known to be in the field.
THEOREM VaultHoldsFailures == Spec => []VaultKeepsFailures
<1>1. DictationInv => VaultKeepsFailures
  BY DEF DictationInv, TruthInv
<1>. QED BY InvHolds, <1>1, PTL

-----------------------------------------------------------------------------
(* The refinement. *)

Open == IF phase \in {"idle", "ended"} THEN 0 ELSE utt
UttsOf(r) == {r[i].utt : i \in 1..Len(r)}
ClaimsOf(r) == {r[i].utt : i \in {j \in 1..Len(r) : r[j].injected}}
sessionVars == <<Open, utt, doc, typed, copied, kept, UttsOf(reports), ClaimsOf(reports), stopped>>

\* Session's answer, of the mapped state.
MappedAnswer(says) ==
    /\ ~stopped /\ Open # 0 /\ Open \notin UttsOf(reports)
    /\ says => Open \in typed
    /\ UttsOf(reports)' = UttsOf(reports) \cup {Open}
    /\ ClaimsOf(reports)' = IF says THEN ClaimsOf(reports) \cup {Open} ELSE ClaimsOf(reports)
    /\ UNCHANGED <<Open, utt, doc, typed, copied, kept, stopped>>

\* One more report is one more answer, and one more claim if it says so.
LEMMA ReportAdds ==
    ASSUME NEW r \in Seq([utt : Utterances, injected : BOOLEAN]),
           NEW u \in Utterances, NEW b \in BOOLEAN
    PROVE  LET a == Append(r, [utt |-> u, injected |-> b])
           IN  /\ UttsOf(a) = UttsOf(r) \cup {u}
               /\ ClaimsOf(a) = IF b THEN ClaimsOf(r) \cup {u} ELSE ClaimsOf(r)
<1> DEFINE e == [utt |-> u, injected |-> b]
           a == Append(r, e)
<1>1. /\ Len(r) \in Nat /\ Len(a) = Len(r) + 1
      /\ \A i \in 1..Len(r) : a[i] = r[i]
      /\ a[Len(r) + 1] = e
  OBVIOUS
<1>2. 1..Len(a) = 1..Len(r) \cup {Len(r) + 1}
  BY <1>1
<1>3. e.utt = u /\ e.injected = b
  OBVIOUS
<1> HIDE DEF a, e
<1>4. UttsOf(a) = UttsOf(r) \cup {u}
  BY <1>1, <1>2, <1>3 DEF UttsOf
<1>5. ClaimsOf(a) = IF b THEN ClaimsOf(r) \cup {u} ELSE ClaimsOf(r)
  BY <1>1, <1>2, <1>3 DEF ClaimsOf
<1>. QED BY <1>4, <1>5 DEF a, e

\* The same field, seen as what a step of Session leaves in it.
LEMMA FieldSteps ==
    ASSUME NEW s \in Seq(Utterances \cup {Enter}), NEW x \in Utterances
    PROVE  /\ s = s \o <<>>
           /\ Append(s, Enter) = s \o <<Enter>>
           /\ Append(s, x) = s \o <<x>> \o <<>>
           /\ s \o <<x, Enter>> = s \o <<x>> \o <<Enter>>
<1>1. <<x>> \in Seq(Utterances \cup {Enter}) /\ <<Enter>> \in Seq(Utterances \cup {Enter})
  OBVIOUS
<1>2. s = s \o <<>> /\ Append(s, Enter) = s \o <<Enter>>
  OBVIOUS
<1>3. Append(s, x) = s \o <<x>> \o <<>>
  BY <1>1
<1>4. s \o <<x, Enter>> = s \o <<x>> \o <<Enter>>
  BY <1>1
<1>. QED BY <1>2, <1>3, <1>4

LEMMA InitMaps == Init => ToSession!Init
BY DEF Init, ToSession!Init

\* What delivery does to the field and to the clipboard is a step of Session.
LEMMA DeliveryMaps ==
    ASSUME DictationInv, ~stopped, Open # 0, utt \notin typed,
           UNCHANGED <<Open, utt, kept, reports, stopped>>,
           \/ doc' = doc /\ typed' = typed
           \/ doc' = Append(doc, Enter) /\ typed' = typed
           \/ /\ doc' \in {Append(doc, utt), doc \o <<utt, Enter>>}
              /\ typed' = typed \cup {utt},
           copied' \in {copied, copied \cup {utt}}
    PROVE  ToSession!Type
<1>1. Open = utt /\ utt \in Utterances /\ doc \in Seq(Utterances \cup {Enter})
  BY DEF DictationInv, TypeOK, Utterances, Open
<1>2. \E enters \in {<<>>, <<Enter>>} :
         \/ typed' = typed \cup {utt} /\ doc' = doc \o <<utt>> \o enters
         \/ doc' = doc \o enters /\ typed' = typed
  BY <1>1, FieldSteps
<1>. QED BY <1>1, <1>2 DEF ToSession!Type, Open

LEMMA StepMaps == DictationInv /\ [Next]_vars => [ToSession!Next]_(ToSession!vars)
<1> SUFFICES ASSUME DictationInv, [Next]_vars PROVE [ToSession!Next]_(ToSession!vars)
  OBVIOUS
<1> USE DEF At, workVars, outVars, keepVars
<1>0. ASSUME UNCHANGED sessionVars PROVE UNCHANGED ToSession!vars
  BY <1>0 DEF sessionVars, ToSession!vars, Open, UttsOf, ClaimsOf
<1>1. CASE Press
  <2>1. ToSession!Speak
    BY <1>1 DEF Press, ToSession!Speak, DictationInv, TypeOK
  <2>. QED BY <2>1 DEF ToSession!Next
<1>2. CASE Release
  <2>1. UNCHANGED sessionVars
    BY <1>2 DEF Release, sessionVars, Open
  <2>. QED BY <1>0, <2>1
<1>3. CASE Raises
  <2>1. UNCHANGED sessionVars
    BY <1>3 DEF Raises, sessionVars, Open
  <2>. QED BY <1>0, <2>1
<1>4. CASE Capture
  <2>1. UNCHANGED sessionVars
    BY <1>4 DEF Capture, Discards, sessionVars, Open
  <2>. QED BY <1>0, <2>1
<1>5. CASE Transcribe
  <2>1. UNCHANGED sessionVars
    BY <1>5 DEF Transcribe, Discards, sessionVars, Open
  <2>. QED BY <1>0, <2>1
<1>6. CASE Edit
  <2>1. UNCHANGED sessionVars
    BY <1>6 DEF Edit, sessionVars, Open
  <2>. QED BY <1>0, <2>1
<1>7. CASE CleanUp
  <2>1. UNCHANGED sessionVars
    BY <1>7 DEF CleanUp, sessionVars, Open
  <2>. QED BY <1>0, <2>1
<1>8. CASE Route
  <2>1. UNCHANGED sessionVars
    BY <1>8 DEF Route, sessionVars, Open
  <2>. QED BY <1>0, <2>1
<1>9. CASE Dispatch
  <2>1. UNCHANGED sessionVars
    BY <1>9 DEF Dispatch, sessionVars, Open
  <2>. QED BY <1>0, <2>1
<1>10. CASE UndoLast
  <2>1. CASE doc' = doc
    <3>1. UNCHANGED sessionVars
      BY <1>10, <2>1 DEF UndoLast, sessionVars, Open
    <3>. QED BY <1>0, <3>1
  <2>2. CASE doc # <<>> /\ doc' = Front(doc)
    <3>1. utt # 0 /\ utt \notin typed
      BY <1>10 DEF UndoLast, DictationInv, LocalInv, OnceInv, Early
    <3>2. ToSession!Undo
      BY <1>10, <2>2, <3>1 DEF UndoLast, ToSession!Undo, ToSession!Front, Front
    <3>. QED BY <3>2 DEF ToSession!Next
  <2>. QED BY <1>10, <2>1, <2>2 DEF UndoLast
<1>11. CASE EnterAlone
  <2>1. utt # 0 /\ utt \notin typed
    BY <1>11 DEF EnterAlone, DictationInv, LocalInv, OnceInv, Early
  <2>2. ToSession!Type
    BY <1>11, <2>1, DeliveryMaps DEF EnterAlone, Open
  <2>. QED BY <2>2 DEF ToSession!Next
<1>12. CASE Insert
  <2>1. utt # 0 /\ utt \notin typed /\ text = utt
    BY <1>12 DEF Insert, DictationInv, LocalInv, OnceInv, Working
  <2>2. copied' \in {copied, copied \cup {utt}}
    BY <1>12, <2>1 DEF Insert, Typed, InnerHandler, Stashes
  <2>3. \/ doc' = doc /\ typed' = typed
        \/ /\ doc' \in {Append(doc, utt), doc \o <<utt, Enter>>}
           /\ typed' = typed \cup {utt}
    BY <1>12, <2>1 DEF Insert, Typed, Inserts
  <2>4. phase' \in {"failing", "finishing"}
    BY <1>12 DEF Insert, Typed, InnerHandler
  <2>5. /\ ~stopped /\ Open # 0
        /\ UNCHANGED <<Open, utt, kept, reports, stopped>>
    BY <1>12, <2>1, <2>4 DEF Insert, Open
  <2>6. ToSession!Type
    BY <2>1, <2>2, <2>3, <2>5, DeliveryMaps
  <2>. QED BY <2>6 DEF ToSession!Next
<1>13. CASE Execute
  <2>1. utt # 0 /\ utt \notin typed /\ text = utt /\ result \in {0, utt}
    BY <1>13 DEF Execute, DictationInv, TypeOK, LocalInv, OnceInv, Working
  <2>2. copied' \in {copied, copied \cup {utt}}
    BY <1>13, <2>1 DEF Execute, Stashes
  <2>3. \/ doc' = doc /\ typed' = typed
        \/ doc' = Append(doc, utt) /\ typed' = typed \cup {utt}
    BY <1>13, <2>1 DEF Execute, Inserts
  <2>4. phase' \in {"failing", "finishing"}
    BY <1>13 DEF Execute
  <2>5. /\ ~stopped /\ Open # 0
        /\ UNCHANGED <<Open, utt, kept, reports, stopped>>
    BY <1>13, <2>1, <2>4 DEF Execute, Open
  <2>6. ToSession!Type
    BY <2>1, <2>2, <2>3, <2>5, DeliveryMaps
  <2>. QED BY <2>6 DEF ToSession!Next
<1>14. CASE Fail
  <2>1. utt # 0 /\ FallbackText \in {0, utt}
    BY <1>14 DEF Fail, FallbackText, DictationInv, TypeOK, LocalInv
  <2>2. \/ copied' = copied
        \/ ~stopped /\ copied' = copied \cup {utt}
    BY <1>14, <2>1 DEF Fail, Stashes
  <2>3. CASE copied' = copied
    <3>1. UNCHANGED sessionVars
      BY <1>14, <2>3 DEF Fail, sessionVars, Open
    <3>. QED BY <1>0, <3>1
  <2>4. CASE ~stopped /\ copied' = copied \cup {utt}
    <3>1. ToSession!Copy
      BY <1>14, <2>1, <2>4 DEF Fail, ToSession!Copy
    <3>. QED BY <3>1 DEF ToSession!Next
  <2>. QED BY <2>2, <2>3, <2>4
<1>15. CASE Finish
  <2>1. CASE stopped
    <3>1. ToSession!Close
      BY <1>15, <2>1 DEF Finish, ToSession!Close, DictationInv, LocalInv
    <3>. QED BY <3>1 DEF ToSession!Next
  <2>2. CASE ~stopped
    <3>1. UNCHANGED sessionVars
      BY <1>15, <2>2 DEF Finish, sessionVars, Open
    <3>. QED BY <1>0, <3>1
  <2>. QED BY <2>1, <2>2
<1>16. CASE Keep
  <2>1. utt # 0 /\ FallbackText = utt
    BY <1>16 DEF Keep, FallbackText, DictationInv, TypeOK, LocalInv
  <2>2. CASE kept' = kept
    <3>1. UNCHANGED sessionVars
      BY <1>16, <2>2 DEF Keep, sessionVars, Open
    <3>. QED BY <1>0, <3>1
  <2>3. CASE kept' = kept \cup {utt}
    <3>1. ToSession!Keep
      BY <1>16, <2>1, <2>3 DEF Keep, ToSession!Keep
    <3>. QED BY <3>1 DEF ToSession!Next
  <2>. QED BY <1>16, <2>1, <2>2, <2>3 DEF Keep
<1>17. CASE Report
  <2>1. CASE stopped
    <3>1. UNCHANGED sessionVars
      BY <1>17, <2>1 DEF Report, sessionVars, Open
    <3>. QED BY <1>0, <3>1
  <2>2. CASE ~stopped
    <3>1. utt # 0 /\ utt \in Utterances /\ injected \in BOOLEAN /\ (injected => utt \in typed)
      BY <1>17 DEF Report, DictationInv, TypeOK, LocalInv, TruthInv, Utterances
    <3>2. utt \notin UttsOf(reports)
      BY <1>17 DEF Report, UttsOf, DictationInv, OnceInv
    <3>3. /\ UttsOf(reports') = UttsOf(reports) \cup {utt}
          /\ ClaimsOf(reports') = IF injected THEN ClaimsOf(reports) \cup {utt} ELSE ClaimsOf(reports)
      BY <1>17, <2>2, <3>1, ReportAdds DEF Report, Answer, DictationInv, TypeOK
    <3>4. Open = utt /\ ~stopped /\ UNCHANGED <<Open, utt, doc, typed, copied, kept, stopped>>
      BY <1>17, <2>2 DEF Report, Open
    <3>5. CASE injected
      <4>1. MappedAnswer(TRUE)
        BY <3>1, <3>2, <3>3, <3>4, <3>5 DEF MappedAnswer
      <4>2. ToSession!Answer(TRUE)
        BY <4>1, Zenon DEF MappedAnswer, ToSession!Answer, Open, UttsOf, ClaimsOf
      <4>. QED BY <4>2 DEF ToSession!Next
    <3>6. CASE ~injected
      <4>1. MappedAnswer(FALSE)
        BY <3>1, <3>2, <3>3, <3>4, <3>6 DEF MappedAnswer
      <4>2. ToSession!Answer(FALSE)
        BY <4>1, Zenon DEF MappedAnswer, ToSession!Answer, Open, UttsOf, ClaimsOf
      <4>. QED BY <4>2 DEF ToSession!Next
    <3>. QED BY <3>5, <3>6
  <2>. QED BY <2>1, <2>2
<1>18. CASE Close
  <2>1. utt # 0 /\ (utt \in UttsOf(reports) \/ stopped)
    BY <1>18 DEF Close, UttsOf, DictationInv, LocalInv, OnceInv
  <2>2. ToSession!Close
    BY <1>18, <2>1 DEF Close, ToSession!Close, UttsOf
  <2>. QED BY <2>2 DEF ToSession!Next
<1>19. CASE Cancelled
  <2>1. CASE phase = "idle"
    <3>1. UNCHANGED sessionVars
      BY <1>19, <2>1 DEF Cancelled, sessionVars, Open
    <3>. QED BY <1>0, <3>1
  <2>2. CASE phase # "idle"
    <3>1. ToSession!Close
      BY <1>19, <2>2 DEF Cancelled, ToSession!Close, DictationInv, LocalInv
    <3>. QED BY <3>1 DEF ToSession!Next
  <2>. QED BY <2>1, <2>2
<1>20. CASE Stop
  <2>1. ToSession!End
    BY <1>20 DEF Stop, ToSession!End
  <2>. QED BY <2>1 DEF ToSession!Next
<1>21. CASE UNCHANGED vars
  <2>1. UNCHANGED sessionVars
    BY <1>21 DEF vars, sessionVars, Open
  <2>. QED BY <1>0, <2>1
<1>. QED
  BY <1>1, <1>2, <1>3, <1>4, <1>5, <1>6, <1>7, <1>8, <1>9, <1>10, <1>11, <1>12, <1>13, <1>14, <1>15, <1>16, <1>17, <1>18, <1>19, <1>20, <1>21 DEF Next, Work

\* What the worker does is a session as the user sees it: utterances are answered
\* one by one and at most once, a text is typed at most once and while its
\* utterance is open, "injected" is never claimed of a text that is not in the
\* field, and nothing is typed, copied or answered after stop().
THEOREM ImplementsSession == Spec => IsSession
<1>. QED BY InvHolds, InitMaps, StepMaps, PTL DEF Spec, IsSession, ToSession!Spec

-----------------------------------------------------------------------------
(* The models that transcribe for the worker *)

\* Where a thread is while the listener hears of its load.
Telling == {"telling", "publishing"}

\* A lock is held by the thread that tells of a load, and by nobody else; the model of
\* which it tells is there.
LockedInv ==
    /\ \A p \in Providers : holder[p] # Free =>
          at[holder[p]] \in Telling /\ with[holder[p]] = p
    /\ \A t \in Threads : at[t] \in Telling => holder[with[t]] = t /\ loaded[with[t]]

\* From the decoding to its end, a reload for the CPU included, a client keeps the lock
\* of a whisper's inference.
DecodeInv == \A c \in Clients :
    /\ then[c] # "out" => at[c] \in Telling
    /\ at[c] \in {"inferring", "failed"} \/ then[c] = "inferring" =>
          (kind[with[c]] = "whisper" => infer[with[c]] = c)

\* No event of a provider is on its way to the tray before it is wired, and the thread
\* that lets a replaced one go is idle until the reload ends.
OrderInv ==
    /\ shown <= wired /\ wired <= serving
    /\ \A t \in Threads : at[t] = "publishing" => with[t] <= wired
    /\ at[Reloader] # "out" => at[Releaser] = "out"

AsrInv == AsrTypeOK /\ LockedInv /\ DecodeInv /\ OrderInv

\* What a thread does not do of its own, no other one does for it.
LEMMA ThreadFacts ==
    /\ Clients \subseteq Threads /\ Providers \subseteq Threads
    /\ Starter \in Threads /\ Reloader \in Threads /\ Releaser \in Threads
    /\ Reloader # Releaser /\ Reloader # Starter /\ Releaser # Starter
    /\ {Starter, Reloader, Releaser} \cap (Clients \cup Providers) = {}
    /\ Clients \cap Providers = {} /\ Free \notin Threads
    /\ Providers \subseteq Nat /\ 1 \in Providers
BY RecognizerAssumption DEF Threads, Providers

\* Every provider is a parakeet or a whisper.
LEMMA KindFacts ==
    \A k \in Kinds : \A p \in Providers : k[p] = "parakeet" \/ k[p] = "whisper"
BY RecognizerAssumption

\* Where a thread goes after a load.
LEMMA AfterFacts ==
    /\ DOMAIN After = {"warming", "loading", "transcribing"}
    /\ \A place \in DOMAIN After : After[place] \in {"out", "transcribing", "decoding"}
BY DEF After

\* A thread moves alone.
LEMMA OneMoves ==
    ASSUME AsrTypeOK, NEW t \in Threads, NEW place \in Places, Goes(t, place)
    PROVE  /\ at' \in [Threads -> Places] /\ at'[t] = place
           /\ \A u \in Threads \ {t} : at'[u] = at[u]
BY DEF AsrTypeOK, Goes

LEMMA AsrInitInv == AsrInit => AsrInv
<1> SUFFICES ASSUME AsrInit PROVE AsrInv
    OBVIOUS
<1>1. \A t \in Threads : at[t] \in {"out", "warming"} /\ then[t] = "out" /\ with[t] = 1
    BY DEF AsrInit
<1>2. AsrTypeOK
    BY ThreadFacts, RecognizerAssumption DEF AsrInit, AsrTypeOK, Providers, Places
<1>3. \A p \in Providers : holder[p] = Free
    BY DEF AsrInit
<1>4. at[Reloader] = "out" /\ at[Releaser] = "out"
    BY ThreadFacts DEF AsrInit
<1>5. LockedInv
    BY <1>1, <1>3 DEF LockedInv, Telling
<1>6. DecodeInv
    BY <1>1, ThreadFacts DEF DecodeInv
<1>7. OrderInv
    BY <1>1, <1>4 DEF OrderInv, AsrInit
<1> QED
    BY <1>2, <1>5, <1>6, <1>7 DEF AsrInv

\* A client that takes the snapshot, asks, decodes or ends leaves the lock and the model
\* alone.
LEMMA ClientMoves ==
    ASSUME AsrInv, NEW c \in Clients, Takes(c) \/ Asks(c) \/ Decodes(c) \/ Finishes(c)
    PROVE  AsrInv'
<1>0. /\ AsrTypeOK /\ LockedInv /\ DecodeInv /\ OrderInv
      /\ c \in Threads /\ with[c] \in Providers /\ serving \in Providers
      /\ c # Reloader /\ c # Releaser /\ c # Free
    BY ThreadFacts DEF AsrInv, AsrTypeOK
<1>1. /\ at' \in [Threads -> Places] /\ at'[c] \in {"asking", "transcribing", "loading", "inferring", "out"}
      /\ at[c] \in {"out", "asking", "decoding", "inferring", "failed"}
      /\ \A u \in Threads \ {c} : at'[u] = at[u]
    BY <1>0, OneMoves DEF Takes, Asks, Decodes, Finishes, Places
<1>2. /\ UNCHANGED <<kind, loaded, holder, onCpu, used, lost, wired, serving, shown, then>>
      /\ with' \in [Threads -> Providers] /\ uses' \in 0..MaxUses
      /\ \A u \in Threads \ {c} : with'[u] = with[u]
    BY <1>0, RecognizerAssumption DEF Takes, Asks, Decodes, Finishes, AsrTypeOK, provVars, appVars
<1>3. timer' \in [Providers -> BOOLEAN] /\ infer' \in [Providers -> Clients \cup {Free}]
  <2>1. CASE UNCHANGED <<timer, infer>>
    BY <1>0, <2>1 DEF AsrTypeOK
  <2>2. CASE Decodes(c)
    BY <1>0, <2>2 DEF Decodes, AsrTypeOK
  <2>3. CASE Finishes(c)
    <3>1. infer' \in [Providers -> Clients \cup {Free}]
      BY <1>0, <2>3 DEF Finishes, AsrTypeOK
    <3>2. timer' \in [Providers -> BOOLEAN]
      BY <1>0, <2>3 DEF Finishes, Rearms, AsrTypeOK
    <3> QED
      BY <3>1, <3>2
  <2> QED
    BY <2>1, <2>2, <2>3 DEF Takes, Asks, provVars
<1>4. AsrTypeOK'
    BY <1>0, <1>1, <1>2, <1>3 DEF AsrTypeOK
<1>5. LockedInv'
  <2>1. \A p \in Providers : holder[p] # c
    BY <1>0, <1>1 DEF LockedInv, Telling
  <2>2. \A p \in Providers : holder[p] # Free => holder[p] \in Threads
    BY <1>0, ThreadFacts DEF AsrTypeOK
  <2> QED
    BY <1>0, <1>1, <1>2, <2>1, <2>2 DEF LockedInv, Telling
<1>6. DecodeInv'
  <2>1. then[c] = "out"
    BY <1>0, <1>1 DEF DecodeInv, Telling
  <2>2. CASE Decodes(c)
    <3>1. at'[c] = "inferring" /\ with' = with
      BY <1>0, <2>2, OneMoves DEF Decodes, Places
    <3>2. kind[with[c]] = "whisper" => infer[with[c]] = Free /\ infer'[with[c]] = c
      BY <1>0, <2>2 DEF Decodes, AsrTypeOK
    <3>3. \A p \in Providers : infer'[p] = infer[p] \/ (p = with[c] /\ kind[p] = "whisper")
      BY <1>0, <2>2 DEF Decodes, AsrTypeOK
    <3>4. \A d \in Clients : with[d] \in Providers /\ d \in Threads /\ d # Free
      BY <1>0, ThreadFacts DEF AsrTypeOK
    <3> QED
      BY <1>0, <1>1, <1>2, <2>1, <3>1, <3>2, <3>3, <3>4 DEF DecodeInv, Telling
  <2>3. CASE Finishes(c)
    <3>1. at'[c] = "out" /\ with' = with
      BY <1>0, <2>3, OneMoves DEF Finishes, Places
    <3>2. \A p \in Providers : infer[p] # c => infer'[p] = infer[p]
      BY <1>0, <2>3 DEF Finishes, AsrTypeOK
    <3>3. \A d \in Clients : with[d] \in Providers /\ d \in Threads
      BY <1>0, ThreadFacts DEF AsrTypeOK
    <3> QED
      BY <1>0, <1>1, <1>2, <2>1, <3>1, <3>2, <3>3 DEF DecodeInv, Telling
  <2>4. CASE Takes(c) \/ Asks(c)
    <3>1. infer' = infer /\ at'[c] \in {"asking", "transcribing", "loading"}
      BY <1>0, <2>4, OneMoves DEF Takes, Asks, Places, provVars
    <3>2. \A d \in Clients : d \in Threads
      BY ThreadFacts
    <3> QED
      BY <1>0, <1>1, <1>2, <2>1, <3>1, <3>2 DEF DecodeInv, Telling
  <2> QED
    BY <2>2, <2>3, <2>4
<1>7. OrderInv'
    BY <1>0, <1>1, <1>2, ThreadFacts DEF OrderInv
<1> QED
    BY <1>4, <1>5, <1>6, <1>7 DEF AsrInv

\* A load, of a client or at startup, and the one that replaces a model for the CPU, take
\* a lock that is free and keep it until the listener has heard of them.
LEMMA LoadMoves ==
    ASSUME AsrInv, NEW t \in Clients \cup {Starter}, Loads(t) \/ (t \in Clients /\ Degrades(t))
    PROVE  AsrInv'
<1> DEFINE p == with[t]
<1>0. /\ AsrTypeOK /\ LockedInv /\ DecodeInv /\ OrderInv
      /\ t \in Threads /\ p \in Providers /\ t # Reloader /\ t # Releaser /\ t # Free
    BY ThreadFacts DEF AsrInv, AsrTypeOK
<1>1. /\ at[t] \in {"warming", "loading", "transcribing", "inferring"} /\ holder[p] = Free
      /\ UNCHANGED <<kind, infer, wired, serving, shown, with, uses>>
    BY AfterFacts DEF Loads, Degrades, appVars
<1>2. /\ at' \in [Threads -> Places] /\ \A u \in Threads \ {t} : at'[u] = at[u]
  <2>1. \E place \in Places : Goes(t, place)
    BY AfterFacts DEF Loads, Degrades, Places
  <2> QED
    BY <1>0, <2>1, OneMoves
<1>3. /\ loaded' \in [Providers -> BOOLEAN] /\ timer' \in [Providers -> BOOLEAN]
      /\ onCpu' \in [Providers -> BOOLEAN] /\ used' \in [Providers -> BOOLEAN]
      /\ lost' \in [Providers -> BOOLEAN]
    BY <1>0 DEF Loads, Degrades, AsrTypeOK
<1>4. /\ holder' \in [Providers -> Clients \cup {Starter, Free}]
      /\ then' \in [Threads -> {"out", "transcribing", "decoding", "inferring"}]
      /\ \A u \in Threads \ {t} : then'[u] = then[u]
    BY <1>0, AfterFacts DEF Loads, Degrades, Locks, AsrTypeOK
<1>5. \A q \in Providers \ {p} : loaded'[q] = loaded[q] /\ holder'[q] = holder[q]
    BY <1>0 DEF Loads, Degrades, Locks, AsrTypeOK
<1>6. \/ /\ at'[t] = "telling" /\ holder'[p] = t /\ loaded'[p]
         /\ then'[t] \in {"out", "transcribing", "decoding"} \/ (then'[t] = "inferring" /\ at[t] = "inferring")
      \/ /\ at'[t] \in {"out", "transcribing", "decoding"} \/ (at'[t] = "failed" /\ at[t] = "inferring")
         /\ holder' = holder /\ then'[t] = then[t]
  <2>1. CASE Loads(t)
    <3>1. CASE Locks(t) /\ Goes(t, "telling") /\ then' = [then EXCEPT ![t] = After[at[t]]] /\ loaded' = [loaded EXCEPT ![p] = TRUE]
      BY <1>0, <2>1, <3>1, AfterFacts DEF Locks, Goes, AsrTypeOK, Loads
    <3>2. CASE UNCHANGED <<holder, then>> /\ (Goes(t, After[at[t]]) \/ Goes(t, "out"))
      BY <1>0, <2>1, <3>2, AfterFacts DEF Goes, AsrTypeOK, Loads
    <3> QED
      BY <2>1, <3>1, <3>2 DEF Loads
  <2>2. CASE Degrades(t)
    BY <1>0, <2>2 DEF Degrades, Locks, Goes, AsrTypeOK
  <2> QED
    BY <2>1, <2>2
<1>7. AsrTypeOK'
    BY <1>0, <1>1, <1>2, <1>3, <1>4 DEF AsrTypeOK
<1>8. \A u \in Threads : with[u] \in Providers
    BY <1>0 DEF AsrTypeOK
<1>9. \A q \in Providers : holder[q] # Free => holder[q] \in Threads
    BY <1>0, ThreadFacts DEF AsrTypeOK
<1>10. \A q \in Providers : holder[q] # t
    BY <1>0, <1>1 DEF LockedInv, Telling
<1>11. LockedInv'
  <2>1. ASSUME NEW q \in Providers, holder'[q] # Free
        PROVE  at'[holder'[q]] \in Telling /\ with[holder'[q]] = q
    <3>1. CASE q = p /\ holder'[q] = t
      BY <1>0, <1>1, <1>6, <3>1, <1>10 DEF Telling
    <3>2. CASE ~(q = p /\ holder'[q] = t)
      <4>1. holder'[q] = holder[q]
        BY <1>5, <1>6, <3>2
      <4> QED
        BY <1>0, <1>2, <1>9, <1>10, <2>1, <4>1 DEF LockedInv
    <3> QED
      BY <3>1, <3>2
  <2>2. ASSUME NEW u \in Threads, at'[u] \in Telling
        PROVE  holder'[with[u]] = u /\ loaded'[with[u]]
    <3>1. CASE u = t
      BY <1>6, <2>2, <3>1 DEF Telling
    <3>2. CASE u # t
      <4>1. holder[with[u]] = u /\ loaded[with[u]] /\ u # Free
        <5>1. at[u] \in Telling
          BY <1>2, <2>2, <3>2
        <5> QED
          BY <1>0, <5>1, ThreadFacts DEF LockedInv
      <4>2. with[u] # p
        BY <1>1, <4>1
      <4> QED
        BY <1>5, <1>8, <4>1, <4>2
    <3> QED
      BY <3>1, <3>2
  <2> QED
    BY <1>1, <2>1, <2>2 DEF LockedInv
<1>12. DecodeInv'
  <2>1. ASSUME NEW d \in Clients
        PROVE  /\ then'[d] # "out" => at'[d] \in Telling
               /\ at'[d] \in {"inferring", "failed"} \/ then'[d] = "inferring" =>
                    (kind[with[d]] = "whisper" => infer[with[d]] = d)
    <3>1. CASE d = t
      <4>1. then[t] = "out"
        BY <1>0, <1>1, <3>1 DEF DecodeInv, Telling
      <4> QED
        BY <1>0, <1>6, <3>1, <4>1 DEF DecodeInv, Telling
    <3>2. CASE d # t
      BY <1>0, <1>2, <1>4, <3>2, ThreadFacts DEF DecodeInv
    <3> QED
      BY <3>1, <3>2
  <2> QED
    BY <1>1, <2>1 DEF DecodeInv
<1>13. OrderInv'
  <2>1. at'[t] # "publishing"
    BY <1>6
  <2> QED
    BY <1>0, <1>1, <1>2, <2>1, ThreadFacts DEF OrderInv
<1> QED
    BY <1>7, <1>11, <1>12, <1>13 DEF AsrInv

\* The listener drops the event of a provider that is not wired; the lock is let go after it.
LEMMA TellMoves ==
    ASSUME AsrInv, NEW t \in Clients \cup {Starter}, TellsLoaded(t)
    PROVE  AsrInv'
<1> DEFINE p == with[t]
<1>0. /\ AsrTypeOK /\ LockedInv /\ DecodeInv /\ OrderInv
      /\ t \in Threads /\ p \in Providers /\ t # Reloader /\ t # Releaser /\ t # Free
      /\ at[t] \in Telling /\ holder[p] = t
    BY ThreadFacts DEF AsrInv, AsrTypeOK, TellsLoaded, Checks, LockedInv, Telling
<1>1. /\ \A u \in Threads : with[u] \in Providers
      /\ \A q \in Providers : holder[q] # Free => holder[q] \in Threads
      /\ \A q \in Providers : holder[q] = t => q = p
      /\ then[t] \in {"out", "transcribing", "decoding", "inferring"}
      /\ wired \in Nat
  <2>1. \A q \in Providers : holder[q] # Free => holder[q] \in Threads
    BY <1>0, ThreadFacts DEF AsrTypeOK
  <2>2. \A q \in Providers : holder[q] = t => q = p
    BY <1>0 DEF LockedInv
  <2>3. then[t] \in {"out", "transcribing", "decoding", "inferring"}
    BY <1>0 DEF AsrTypeOK
  <2>4. wired \in Nat /\ \A u \in Threads : with[u] \in Providers
    BY <1>0, ThreadFacts DEF AsrTypeOK
  <2> QED
    BY <2>1, <2>2, <2>3, <2>4
<1>2. CASE Checks(t, "telling", "publishing")
  <2>1. /\ at' \in [Threads -> Places] /\ at'[t] = "publishing" /\ p = wired
        /\ \A u \in Threads \ {t} : at'[u] = at[u]
    BY <1>0, <1>2, OneMoves DEF Checks, Places
  <2>2. /\ UNCHANGED <<kind, loaded, timer, holder, infer, onCpu, used, lost, wired, serving, shown, then,
                       with, uses>>
    BY <1>2 DEF Checks, provVars, appVars
  <2>3. AsrTypeOK'
    BY <1>0, <2>1, <2>2 DEF AsrTypeOK
  <2>4. LockedInv'
    BY <1>0, <1>1, <2>1, <2>2 DEF LockedInv, Telling
  <2>5. DecodeInv'
    BY <1>0, <2>1, <2>2, ThreadFacts DEF DecodeInv, Telling
  <2>6. OrderInv'
    <3>1. \A u \in Threads : at'[u] = "publishing" => with[u] <= wired
      BY <1>0, <1>1, <2>1 DEF OrderInv
    <3> QED
      BY <1>0, <2>1, <2>2, <3>1, ThreadFacts DEF OrderInv
  <2> QED
    BY <2>3, <2>4, <2>5, <2>6 DEF AsrInv
<1>3. CASE /\ Told(t) /\ (shown' = shown \/ (at[t] = "publishing" /\ shown' = p))
           /\ UNCHANGED <<kind, loaded, infer, onCpu, used, lost, appVars, with, uses>>
  <2>1. /\ at' \in [Threads -> Places] /\ at'[t] = then[t]
        /\ \A u \in Threads \ {t} : at'[u] = at[u]
        /\ then' \in [Threads -> {"out", "transcribing", "decoding", "inferring"}]
        /\ then'[t] = "out" /\ \A u \in Threads \ {t} : then'[u] = then[u]
    BY <1>0, <1>1, <1>3 DEF Told, AsrTypeOK, Places
  <2>2. /\ timer' \in [Providers -> BOOLEAN] /\ holder' \in [Providers -> Clients \cup {Starter, Free}]
        /\ holder'[p] = Free /\ \A q \in Providers \ {p} : holder'[q] = holder[q]
    BY <1>0, <1>3 DEF Told, AsrTypeOK
  <2>3. shown' \in 0..MaxProviders /\ shown' <= wired
    BY <1>0, <1>3, RecognizerAssumption DEF AsrTypeOK, OrderInv, Providers
  <2>4. UNCHANGED <<kind, loaded, infer, onCpu, used, lost, wired, serving, with, uses>>
    BY <1>3 DEF appVars
  <2>5. AsrTypeOK'
    BY <1>0, <2>1, <2>2, <2>3, <2>4 DEF AsrTypeOK
  <2>6. LockedInv'
    <3>1. ASSUME NEW u \in Threads, at'[u] \in Telling
          PROVE  holder'[with[u]] = u /\ loaded[with[u]]
      <4>1. u # t
        BY <1>1, <2>1, <3>1 DEF Telling
      <4>2. holder[with[u]] = u /\ loaded[with[u]]
        BY <1>0, <2>1, <3>1, <4>1 DEF LockedInv
      <4> QED
        BY <1>0, <1>1, <2>2, <4>1, <4>2
    <3>2. ASSUME NEW q \in Providers, holder'[q] # Free
          PROVE  at'[holder'[q]] \in Telling /\ with[holder'[q]] = q
      <4>1. q # p /\ holder'[q] = holder[q]
        BY <2>2, <3>2
      <4>2. holder[q] # t /\ holder[q] \in Threads
        BY <1>1, <3>2, <4>1
      <4> QED
        BY <1>0, <2>1, <3>2, <4>1, <4>2 DEF LockedInv
    <3> QED
      BY <2>4, <3>1, <3>2 DEF LockedInv
  <2>7. DecodeInv'
    <3>1. ASSUME NEW d \in Clients
          PROVE  /\ then'[d] # "out" => at'[d] \in Telling
                 /\ at'[d] \in {"inferring", "failed"} \/ then'[d] = "inferring" =>
                      (kind[with[d]] = "whisper" => infer[with[d]] = d)
      <4>1. CASE d = t
        BY <1>0, <1>1, <2>1, <4>1 DEF DecodeInv
      <4>2. CASE d # t
        BY <1>0, <2>1, <4>2, ThreadFacts DEF DecodeInv
      <4> QED
        BY <4>1, <4>2
    <3> QED
      BY <2>4, <3>1 DEF DecodeInv
  <2>8. OrderInv'
    BY <1>0, <1>1, <2>1, <2>3, <2>4, ThreadFacts DEF OrderInv
  <2> QED
    BY <2>5, <2>6, <2>7, <2>8 DEF AsrInv
<1> QED
    BY <1>2, <1>3 DEF TellsLoaded

\* Who unloads moves on his own and waits for the lock.
LEMMA UnloadMoves ==
    ASSUME AsrInv, NEW t \in Providers \cup {Reloader, Releaser}, Unloads(t) \/ TellsUnloaded(t)
    PROVE  AsrInv'
<1> DEFINE p == with[t]
<1>0. /\ AsrTypeOK /\ LockedInv /\ DecodeInv /\ OrderInv
      /\ t \in Threads /\ p \in Providers /\ t \notin Clients \cup {Starter} /\ t # Free
    BY ThreadFacts DEF AsrInv, AsrTypeOK
<1>1. /\ at[t] \in {"unloading", "tellingGone", "publishingGone"}
      /\ UNCHANGED <<kind, holder, infer, onCpu, lost, wired, serving, then, with, uses>>
      /\ \E place \in {"tellingGone", "publishingGone", "detaching", "out"} : Goes(t, place)
    BY DEF Unloads, TellsUnloaded, Checks, Rest, provVars, appVars
<1>2. /\ at' \in [Threads -> Places] /\ \A u \in Threads \ {t} : at'[u] = at[u]
      /\ at'[t] \in {"tellingGone", "publishingGone", "detaching", "out"}
  <2>1. PICK place \in {"tellingGone", "publishingGone", "detaching", "out"} : Goes(t, place)
    BY <1>1
  <2> QED
    BY <1>0, <2>1, OneMoves DEF Places
<1>3. /\ loaded' \in [Providers -> BOOLEAN] /\ timer' \in [Providers -> BOOLEAN]
      /\ used' \in [Providers -> BOOLEAN] /\ shown' \in 0..MaxProviders
      /\ shown' <= wired
      /\ \A q \in Providers : holder[q] # Free => loaded'[q] = loaded[q]
  <2>1. CASE Unloads(t)
    BY <1>0, <2>1 DEF Unloads, AsrTypeOK, OrderInv
  <2>2. CASE TellsUnloaded(t)
    BY <1>0, <2>2, RecognizerAssumption DEF TellsUnloaded, Checks, AsrTypeOK, OrderInv, provVars, Providers
  <2> QED
    BY <2>1, <2>2
<1>4. AsrTypeOK'
    BY <1>0, <1>1, <1>2, <1>3 DEF AsrTypeOK
<1>5. LockedInv'
  <2>1. \A q \in Providers : holder[q] # t
    BY <1>0, <1>1 DEF LockedInv, Telling
  <2>2. \A q \in Providers : holder[q] # Free => holder[q] \in Threads
    BY <1>0, ThreadFacts DEF AsrTypeOK
  <2>3. \A u \in Threads : with[u] \in Providers /\ u # Free
    BY <1>0, ThreadFacts DEF AsrTypeOK
  <2> QED
    BY <1>0, <1>1, <1>2, <1>3, <2>1, <2>2, <2>3 DEF LockedInv, Telling
<1>6. DecodeInv'
    BY <1>0, <1>1, <1>2, ThreadFacts DEF DecodeInv
<1>7. OrderInv'
    BY <1>0, <1>1, <1>2, <1>3, ThreadFacts DEF OrderInv
<1> QED
    BY <1>4, <1>5, <1>6, <1>7 DEF AsrInv

\* A timer fires, a provider is replaced, and the replaced one is let go: by threads that
\* hold no lock.
LEMMA ReplaceMoves ==
    ASSUME AsrInv, (\E p \in Providers : Fires(p)) \/ Replaces \/ Detaches
    PROVE  AsrInv'
<1> DEFINE Movers == Providers \cup {Reloader, Releaser}
<1>0. /\ AsrTypeOK /\ LockedInv /\ DecodeInv /\ OrderInv
      /\ Movers \subseteq Threads /\ \A t \in Movers : t \notin Clients \cup {Starter}
      /\ wired \in Providers /\ serving \in Providers
    BY ThreadFacts DEF AsrInv, AsrTypeOK
<1>1. /\ UNCHANGED <<kind, loaded, holder, infer, onCpu, used, lost, shown, then, uses>>
      /\ \A u \in Threads \ Movers : at'[u] = at[u] /\ with'[u] = with[u]
    BY <1>0, ThreadFacts DEF Fires, Replaces, Detaches, Goes, provVars, AsrTypeOK
<1>2. /\ at' \in [Threads -> Places] /\ with' \in [Threads -> Providers]
      /\ timer' \in [Providers -> BOOLEAN]
  <2>1. at' \in [Threads -> Places]
    BY <1>0, ThreadFacts DEF Fires, Replaces, Detaches, Goes, AsrTypeOK, Places
  <2>2. with' \in [Threads -> Providers]
    BY <1>0, ThreadFacts DEF Fires, Replaces, Detaches, AsrTypeOK
  <2>3. timer' \in [Providers -> BOOLEAN]
    BY <1>0 DEF Fires, Replaces, Detaches, AsrTypeOK, provVars
  <2> QED
    BY <2>1, <2>2, <2>3
<1>3. \A t \in Movers : at'[t] \in Telling => at[t] \in Telling /\ at'[t] = at[t] /\ with'[t] = with[t]
    BY <1>0, ThreadFacts DEF Fires, Replaces, Detaches, Goes, AsrTypeOK, Telling
<1>4. /\ wired' \in Providers /\ serving' \in Providers /\ wired <= wired' /\ wired' <= serving'
  <2>1. wired \in Nat /\ serving \in Nat /\ wired <= serving
    BY <1>0, ThreadFacts DEF OrderInv
  <2>2. CASE Replaces
    <3>1. wired' = wired /\ serving' = serving + 1 /\ serving < MaxProviders
      BY <2>2 DEF Replaces
    <3> QED
      BY <1>0, <2>1, <3>1, RecognizerAssumption DEF Providers
  <2>3. CASE Detaches
    BY <1>0, <2>1, <2>3 DEF Detaches
  <2>4. CASE \E p \in Providers : Fires(p)
    BY <1>0, <2>1, <2>4 DEF Fires, appVars
  <2> QED
    BY <2>2, <2>3, <2>4
<1>5. at'[Reloader] # "out" => at'[Releaser] = "out"
    BY <1>0, ThreadFacts DEF Fires, Replaces, Detaches, Goes, AsrTypeOK, OrderInv
<1>6. AsrTypeOK'
    BY <1>0, <1>1, <1>2, <1>4 DEF AsrTypeOK
<1>7. LockedInv'
  <2>1. \A q \in Providers : holder[q] # Free => holder[q] \in Threads \ Movers
    BY <1>0, ThreadFacts DEF AsrTypeOK
  <2> QED
    BY <1>0, <1>1, <1>3, <2>1 DEF LockedInv
<1>8. DecodeInv'
    BY <1>0, <1>1, ThreadFacts DEF DecodeInv
<1>9. OrderInv'
  <2>1. \A t \in Threads : at'[t] = "publishing" => with'[t] <= wired
    BY <1>0, <1>1, <1>3 DEF OrderInv, Telling
  <2>2. shown <= wired /\ shown \in Nat /\ \A t \in Threads : with'[t] \in Nat
    <3>1. shown <= wired /\ shown \in Nat
      BY <1>0 DEF OrderInv, AsrTypeOK
    <3> QED
      BY <1>2, <3>1, ThreadFacts
  <2> QED
    BY <1>0, <1>1, <1>4, <1>5, <2>1, <2>2, ThreadFacts DEF OrderInv
<1> QED
    BY <1>6, <1>7, <1>8, <1>9 DEF AsrInv

LEMMA AsrStep == AsrInv /\ [AsrNext]_asrVars => AsrInv'
<1> SUFFICES ASSUME AsrInv, [AsrNext]_asrVars PROVE AsrInv'
    OBVIOUS
<1>1. CASE UNCHANGED asrVars
    BY <1>1 DEF AsrInv, AsrTypeOK, LockedInv, DecodeInv, OrderInv, asrVars, provVars, appVars
<1>2. CASE AsrNext
    BY <1>2, ClientMoves, LoadMoves, TellMoves, UnloadMoves, ReplaceMoves
    DEF AsrNext, ClientSteps, UnloadSteps
<1> QED
    BY <1>1, <1>2

\* Every variable of the providers, of the threads that load, use, unload and replace
\* them, and of the tray keeps its type.
THEOREM AsrTypes == AsrSpec => []AsrTypeOK
<1>1. AsrInv => AsrTypeOK
    BY DEF AsrInv
<1> QED
    BY <1>1, AsrInitInv, AsrStep, PTL DEF AsrSpec

\* A whisper never decodes two utterances at once, be it the same model or the one that
\* replaced it after a failure of the accelerator (faster_whisper_provider.py,
\* _infer_lock): for any clients, providers, replacements and loads that fail.
THEOREM DecodesStayApart == AsrSpec => []OneDecode
<1>1. AsrInv => OneDecode
  <2> SUFFICES ASSUME AsrInv, NEW c \in Clients, NEW d \in Clients, c # d, at[c] = "inferring",
                      at[d] = "inferring", with[c] = with[d], kind[with[c]] # "parakeet"
               PROVE  FALSE
      BY DEF OneDecode
  <2>1. kind[with[c]] = "whisper"
    BY ThreadFacts, KindFacts DEF AsrInv, AsrTypeOK
  <2> QED
    BY <2>1 DEF AsrInv, DecodeInv
<1> QED
    BY <1>1, AsrInitInv, AsrStep, PTL DEF AsrSpec

\* The tray is corrected by whoever unloads, and only a model that is there is announced.
LEMMA ReadyStep == AsrInv /\ ReadyIsLoaded /\ [AsrNext]_asrVars => ReadyIsLoaded'
<1> SUFFICES ASSUME AsrInv, ReadyIsLoaded, [AsrNext]_asrVars, shown' = wired', ~lost'[wired']
             PROVE  \/ loaded'[wired']
                    \/ \E t \in Threads : at'[t] \in {"tellingGone", "publishingGone"}
                                          /\ with'[t] = wired'
    BY DEF ReadyIsLoaded
<1> DEFINE Gone == {"tellingGone", "publishingGone"}
           Right == loaded'[wired'] \/ \E t \in Threads : at'[t] \in Gone /\ with'[t] = wired'
<1>0. /\ AsrTypeOK /\ LockedInv /\ OrderInv /\ wired \in Providers
      /\ \A t \in Threads : with[t] \in Providers
    BY DEF AsrInv, AsrTypeOK
<1>a. ASSUME UNCHANGED <<shown, wired>>, lost[wired] => lost'[wired] \/ loaded'[wired],
             loaded[wired] => loaded'[wired],
             \A t \in Threads : at[t] \in Gone => at'[t] \in Gone /\ with'[t] = with[t]
      PROVE  Right
    BY <1>a DEF ReadyIsLoaded
<1>1. CASE UNCHANGED asrVars
    BY <1>1, <1>a DEF asrVars, provVars, appVars
<1>2. ASSUME NEW c \in Clients, Takes(c) \/ Asks(c) \/ Decodes(c) \/ Finishes(c)
      PROVE  Right
  <2>1. /\ UNCHANGED <<shown, wired, lost, loaded>> /\ at[c] \notin Gone /\ c \in Threads
        /\ \A t \in Threads \ {c} : at'[t] = at[t] /\ with'[t] = with[t]
    BY <1>0, <1>2, ThreadFacts DEF Takes, Asks, Decodes, Finishes, Goes, AsrTypeOK, provVars, appVars
  <2> QED
    BY <1>a, <2>1
<1>3. ASSUME NEW t \in Clients \cup {Starter}, Loads(t)
      PROVE  Right
  <2>1. /\ UNCHANGED <<shown, wired, with>> /\ at[t] \notin Gone /\ t \in Threads
        /\ \A u \in Threads \ {t} : at'[u] = at[u]
    BY <1>0, <1>3, ThreadFacts, AfterFacts DEF Loads, Goes, AsrTypeOK, appVars
  <2>2. /\ loaded[wired] => loaded'[wired]
        /\ lost[wired] => lost'[wired] \/ loaded'[wired]
    BY <1>0, <1>3 DEF Loads, AsrTypeOK
  <2> QED
    BY <1>a, <2>1, <2>2
<1>4. ASSUME NEW c \in Clients, Degrades(c)
      PROVE  Right
  <2>1. /\ UNCHANGED <<shown, wired, with>> /\ at[c] \notin Gone /\ c \in Threads
        /\ \A u \in Threads \ {c} : at'[u] = at[u]
    BY <1>0, <1>4, ThreadFacts DEF Degrades, Goes, AsrTypeOK, appVars
  <2>2. /\ lost[wired] => lost'[wired] \/ loaded'[wired]
        /\ with[c] = wired => lost'[wired] \/ loaded'[wired]
        /\ with[c] # wired => loaded'[wired] = loaded[wired]
    BY <1>0, <1>4, <2>1 DEF Degrades, AsrTypeOK
  <2> QED
    BY <1>a, <2>1, <2>2
<1>5. ASSUME NEW t \in Clients \cup {Starter}, TellsLoaded(t)
      PROVE  Right
  <2>1. /\ UNCHANGED <<wired, lost, loaded, with>> /\ at[t] \in Telling /\ t \in Threads
        /\ \A u \in Threads \ {t} : at'[u] = at[u]
        /\ shown' = shown \/ shown' = with[t]
    BY <1>0, <1>5, ThreadFacts DEF TellsLoaded, Checks, Told, Goes, AsrTypeOK, Telling, provVars, appVars
  <2>2. CASE shown' = shown
    BY <1>a, <2>1, <2>2 DEF Telling
  <2>3. CASE shown' = with[t]
    BY <1>0, <2>1, <2>3 DEF LockedInv
  <2> QED
    BY <2>1, <2>2, <2>3
<1>6. ASSUME NEW t \in Threads, Unloads(t)
      PROVE  Right
  <2>1. /\ UNCHANGED <<shown, wired, lost, with>> /\ at[t] \notin Gone
        /\ \A u \in Threads \ {t} : at'[u] = at[u]
    BY <1>0, <1>6 DEF Unloads, Goes, AsrTypeOK, appVars
  <2>2. /\ with[t] # wired => loaded'[wired] = loaded[wired]
        /\ loaded[with[t]] => at'[t] = "tellingGone"
    BY <1>0, <1>6 DEF Unloads, Goes, AsrTypeOK
  <2>3. CASE with[t] = wired /\ loaded[wired]
    BY <2>1, <2>2, <2>3
  <2>4. CASE ~(with[t] = wired /\ loaded[wired])
    BY <1>a, <2>1, <2>2, <2>4
  <2> QED
    BY <2>3, <2>4
<1>7. ASSUME NEW t \in Threads, TellsUnloaded(t)
      PROVE  Right
  <2>1. /\ UNCHANGED <<wired, lost, with, loaded>>
        /\ \A u \in Threads \ {t} : at'[u] = at[u]
    BY <1>0, <1>7 DEF TellsUnloaded, Checks, Goes, AsrTypeOK, provVars, appVars
  <2>2. CASE at[t] = "tellingGone" /\ with[t] = wired
    BY <1>0, <1>7, <2>1, <2>2 DEF TellsUnloaded, Checks, Goes, AsrTypeOK
  <2>3. CASE at[t] = "tellingGone" /\ with[t] # wired
    <3>1. shown' = shown
      BY <1>7, <2>3 DEF TellsUnloaded, Checks
    <3> QED
      BY <2>1, <2>3, <3>1 DEF ReadyIsLoaded
  <2>4. CASE at[t] = "publishingGone"
    <3>1. shown' = 0
      BY <1>7, <2>4 DEF TellsUnloaded, Checks
    <3>2. wired # 0
      BY <1>0 DEF Providers
    <3> QED
      BY <2>1, <3>1, <3>2
  <2> QED
    BY <1>7, <2>2, <2>3, <2>4 DEF TellsUnloaded, Checks
<1>8. CASE (\E p \in Providers : Fires(p)) \/ Replaces
  <2>1. PICK t \in Threads : /\ UNCHANGED <<shown, wired, lost, loaded>> /\ at[t] \notin Gone
                             /\ \A u \in Threads \ {t} : at'[u] = at[u] /\ with'[u] = with[u]
    <3>1. ASSUME NEW p \in Providers, Fires(p)
          PROVE  /\ p \in Threads /\ UNCHANGED <<shown, wired, lost, loaded>> /\ at[p] \notin Gone
                 /\ \A u \in Threads \ {p} : at'[u] = at[u] /\ with'[u] = with[u]
      BY <1>0, <3>1, ThreadFacts DEF Fires, Goes, AsrTypeOK, appVars
    <3>2. ASSUME Replaces
          PROVE  /\ Reloader \in Threads /\ UNCHANGED <<shown, wired, lost, loaded>>
                 /\ at[Reloader] \notin Gone
                 /\ \A u \in Threads \ {Reloader} : at'[u] = at[u] /\ with'[u] = with[u]
      BY <1>0, <3>2, ThreadFacts DEF Replaces, Goes, AsrTypeOK, provVars
    <3> QED
      BY <1>8, <3>1, <3>2
  <2> QED
    BY <1>a, <2>1
<1>9. CASE Detaches
  <2>1. /\ UNCHANGED <<shown, lost, loaded>> /\ at[Reloader] \notin Gone /\ at[Releaser] = "out"
        /\ \A u \in Threads \ {Reloader, Releaser} : at'[u] = at[u] /\ with'[u] = with[u]
        /\ wired' = wired \/ wired' = serving
    BY <1>0, <1>9, ThreadFacts DEF Detaches, Goes, AsrTypeOK, OrderInv, provVars
  <2>2. wired' = wired
    <3>1. wired \in Nat /\ serving \in Nat /\ shown \in Nat /\ shown <= wired /\ wired <= serving
      BY <1>0, ThreadFacts DEF AsrTypeOK, OrderInv
    <3> QED
      BY <2>1, <3>1
  <2> QED
    BY <1>a, <2>1, <2>2
<1> QED
    BY <1>1, <1>2, <1>3, <1>4, <1>5, <1>6, <1>7, <1>8, <1>9, ThreadFacts
    DEF AsrNext, ClientSteps, UnloadSteps

\* A tray that says the wired model is ready is right or about to be corrected: no load,
\* idle unload, replacement or late event leaves it wrong (app.py, _bind_asr_lifecycle).
THEOREM ReadyStaysLoaded == AsrSpec => []ReadyIsLoaded
<1>1. AsrInit => ReadyIsLoaded
    BY DEF AsrInit, ReadyIsLoaded
<1>2. AsrInv /\ ReadyIsLoaded /\ [AsrNext]_asrVars => (AsrInv /\ ReadyIsLoaded)'
    BY AsrStep, ReadyStep
<1> QED
    BY <1>1, <1>2, AsrInitInv, PTL DEF AsrSpec
=============================================================================
