------------------------------ MODULE Session ------------------------------
(***************************************************************************)
(* What the user of hold-to-talk is promised, whatever the pipeline does   *)
(* inside: the utterances are answered one by one, in the order they were  *)
(* spoken, each at most once; a text reaches the field at most once, while *)
(* its own utterance is open; an answer that says "injected" is true; and  *)
(* once the pipeline is stopped nothing is typed, copied or answered.      *)
(***************************************************************************)
EXTENDS Integers, Sequences, SequencesExt

CONSTANTS MaxUtterances, \* bound: utterances
          Enter          \* the key, as it arrives in the field

Utterances == 1..MaxUtterances

VARIABLES
    open,     \* the utterance that is recorded or worked at; 0 is none
    last,     \* the last one that was opened
    field,    \* what this program has left in the target field
    typed,    \* the utterances whose text has arrived there
    copied,   \* the utterances whose text was put on the clipboard to paste
    kept,     \* ... or stored for recovery
    answered, \* the utterances that were answered
    claimed,  \* ... with the word that their text was injected
    over      \* the pipeline was stopped

vars == <<open, last, field, typed, copied, kept, answered, claimed, over>>

Init ==
    /\ open = 0 /\ last = 0 /\ field = <<>> /\ over = FALSE
    /\ typed = {} /\ copied = {} /\ kept = {}
    /\ answered = {} /\ claimed = {}

Speak ==
    /\ ~over /\ open = 0 /\ last < MaxUtterances
    /\ last' = last + 1 /\ open' = last'
    /\ UNCHANGED <<field, typed, copied, kept, answered, claimed, over>>

\* The text, or Enter, or both arrive; and the text may be copied as well when
\* a call raises and the pipeline cannot tell whether it has arrived.
Type ==
    /\ ~over /\ open # 0
    /\ \E enters \in {<<>>, <<Enter>>} :
           \/ /\ open \notin typed /\ typed' = typed \cup {open}
              /\ field' = field \o <<open>> \o enters
           \/ field' = field \o enters /\ typed' = typed
    /\ copied' \in {copied, copied \cup {open}}
    /\ UNCHANGED <<open, last, kept, answered, claimed, over>>

Undo ==
    /\ ~over /\ open # 0 /\ open \notin typed
    /\ field # <<>> /\ field' = Front(field)
    /\ UNCHANGED <<open, last, typed, copied, kept, answered, claimed, over>>

Keep ==
    /\ open # 0 /\ kept' = kept \cup {open}
    /\ UNCHANGED <<open, last, field, typed, copied, answered, claimed, over>>

Copy ==
    /\ ~over /\ open # 0 /\ copied' = copied \cup {open}
    /\ UNCHANGED <<open, last, field, typed, kept, answered, claimed, over>>

\* An answer says whether the text is in the field, and never wrongly so.
Answer(injected) ==
    /\ ~over /\ open # 0 /\ open \notin answered
    /\ injected => open \in typed
    /\ answered' = answered \cup {open}
    /\ claimed' = IF injected THEN claimed \cup {open} ELSE claimed
    /\ UNCHANGED <<open, last, field, typed, copied, kept, over>>

Close ==
    /\ open # 0 /\ (open \in answered \/ over)
    /\ open' = 0
    /\ UNCHANGED <<last, field, typed, copied, kept, answered, claimed, over>>

End ==
    /\ ~over /\ over' = TRUE
    /\ UNCHANGED <<open, last, field, typed, copied, kept, answered, claimed>>

Next ==
    \/ Speak \/ Type \/ Undo \/ Keep \/ Copy \/ Close \/ End
    \/ \E injected \in BOOLEAN : Answer(injected)

Spec == Init /\ [][Next]_vars
=============================================================================
