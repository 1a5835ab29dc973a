------------------------------- MODULE Memory -------------------------------
(***************************************************************************)
(* What the correction memory promises to the processes that share it: one *)
(* bounded list of corrections, from the oldest to the newest, that grows  *)
(* by one correction at a time, is forgotten as a whole, and can only be   *)
(* forgotten once it has been damaged.                                     *)
(***************************************************************************)
EXTENDS Naturals, Sequences

CONSTANTS
    Phrases,    \* what is spoken
    Targets,    \* what is written for it
    MaxTerms,   \* corrections that are kept
    Damaged     \* the content of a damaged store

VARIABLE memory

Terms == [spoken : Phrases, written : Targets]

\* A confirmed or corrected phrase becomes the newest; the oldest makes room.
Learnt(terms, term) ==
    LET known == {i \in DOMAIN terms : terms[i].spoken = term.spoken}
        at == CHOOSE i \in known : TRUE
        others == IF known = {} THEN terms
                  ELSE SubSeq(terms, 1, at - 1) \o SubSeq(terms, at + 1, Len(terms))
    IN  Append(IF Len(others) = MaxTerms THEN Tail(others) ELSE others, term)

Init == memory \in {<<>>, Damaged}

Learn == memory # Damaged /\ \E term \in Terms : memory' = Learnt(memory, term)
Forget == memory' = <<>>
Damage == memory' = Damaged

Next == Learn \/ Forget \/ Damage

Spec == Init /\ [][Next]_memory
=============================================================================
