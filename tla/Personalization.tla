-------------------------- MODULE Personalization --------------------------
(***************************************************************************)
(* The correction memory of personalization.py: store objects of several   *)
(* processes over one file.  Every operation that writes is one            *)
(* transaction under the path's advisory lock and the store's own, so it   *)
(* is one action here; what is hard is what a store still holds from       *)
(* before, and what a write that fails half-way leaves behind.             *)
(*                                                                         *)
(* The two flags enabled and learn, which every operation here reads       *)
(* together, are one.  Confirmation counts, time stamps, the scope of a    *)
(* term and the learned application styles, a second list written by the   *)
(* same transactions, are left out.                                        *)
(***************************************************************************)
EXTENDS Naturals, Sequences

CONSTANTS
    Stores,         \* store objects
    Phrases, Targets, MaxTerms,
    Missing,        \* the file does not exist
    Damaged,        \* the file is not a valid store
    Unset,          \* no explicit policy
    WriteMayFail    \* a write may raise, before or after the file was replaced

ASSUME PersonalizationAssumption ==
    /\ MaxTerms \in Nat \ {0}
    /\ Missing # Damaged
    /\ Unset \notin Targets \cup BOOLEAN
    /\ WriteMayFail \in BOOLEAN

VARIABLES
    file,   \* Missing, Damaged, or the flag and the terms that are on disk
    ram     \* each store's fields

vars == <<file, ram>>

Terms == [spoken : Phrases, written : Targets]
TermLists == {terms \in Seq(Terms) : Len(terms) <= MaxTerms}
Lists == [on : BOOLEAN, terms : TermLists]
Policies == BOOLEAN \cup {Unset}

ASSUME FileAssumption ==
    /\ Missing \notin Lists
    /\ Damaged \notin Lists \cup TermLists

Durables == [terms : TermLists, on : BOOLEAN, explicit : Policies, sound : BOOLEAN]
States == [terms : TermLists, on : BOOLEAN, explicit : Policies, sound : BOOLEAN,
           dirty : BOOLEAN, base : BOOLEAN, durable : Durables]

\* What a store falls back to when a save fails (_persisted_state_for_rollback).
Durable(r) == [terms |-> r.terms, on |-> r.on, explicit |-> r.explicit, sound |-> r.sound]

\* _effective_policy: the flag of the call, if it has one, or the store's.
Effective(policy, on) == IF policy = Unset THEN on ELSE policy

\* The target a list has for a phrase, or Unset.
TargetOf(terms, phrase) ==
    IF \E i \in DOMAIN terms : terms[i].spoken = phrase
    THEN terms[CHOOSE i \in DOMAIN terms : terms[i].spoken = phrase].written
    ELSE Unset

---------------------------------------------------------------------------
(* Reading *)

\* load() of a store that is there; an explicit policy goes before the saved one, and a
\* damaged store is closed without a new fallback.
Loaded(r) ==
    IF file = Damaged
    THEN [r EXCEPT !.terms = <<>>, !.on = FALSE, !.sound = FALSE]
    ELSE LET on == Effective(r.explicit, file.on)
         IN  [r EXCEPT !.terms = file.terms, !.on = on, !.sound = TRUE, !.dirty = FALSE,
                       !.base = file.on,
                       !.durable = [terms |-> file.terms, on |-> on,
                                    explicit |-> r.explicit, sound |-> TRUE]]

\* A transaction starts from what the file has now.
Reloaded(r) == IF file = Missing THEN r ELSE Loaded(r)

\* The constructor.
Fresh(explicit) ==
    LET blank == [terms |-> <<>>, on |-> Effective(explicit, TRUE), explicit |-> explicit,
                  sound |-> TRUE, dirty |-> FALSE, base |-> Effective(explicit, TRUE),
                  durable |-> [terms |-> <<>>, on |-> Effective(explicit, TRUE),
                               explicit |-> explicit, sound |-> TRUE]]
        r == Reloaded(blank)
    IN  [r EXCEPT !.durable = Durable(r), !.dirty = explicit # Unset]

---------------------------------------------------------------------------
(* Writing *)

\* What a completed _save_locked makes of the store.
Saved(r) == [r EXCEPT !.sound = TRUE, !.dirty = FALSE, !.base = r.on,
                      !.durable = [terms |-> r.terms, on |-> r.on,
                                   explicit |-> r.explicit, sound |-> TRUE]]

\* What _reconcile_visible_store_locked makes of it, if the visible file can be read and
\* if it cannot.
Reconciled(r) == Saved([r EXCEPT !.explicit = Unset])
Closed ==
    LET none == [terms |-> <<>>, on |-> FALSE, explicit |-> Unset, sound |-> FALSE]
    IN  [terms |-> <<>>, on |-> FALSE, explicit |-> Unset, sound |-> FALSE,
         dirty |-> FALSE, base |-> FALSE, durable |-> none]

Writes(r) == file' = [on |-> r.on, terms |-> r.terms]

\* Mutant: a write that fails leaves the store with what it wanted to write.
CommitWithoutRollback(s, r, fallback) ==
    \/ Writes(r) /\ ram' = [ram EXCEPT ![s] = Saved(r)]
    \/ WriteMayFail /\ UNCHANGED file /\ ram' = [ram EXCEPT ![s] = r]

\* _save_locked of the state r: the file is replaced, or it is left or put back and the
\* store falls back, or it could not be put back and the store takes what is visible.
Commit(s, r, fallback) ==
    \/ Writes(r) /\ ram' = [ram EXCEPT ![s] = Saved(r)]
    \/ WriteMayFail /\ UNCHANGED file /\ ram' = [ram EXCEPT ![s] = fallback]
    \/ /\ WriteMayFail /\ Writes(r)
       /\ \/ ram' = [ram EXCEPT ![s] = Reconciled(r)]
          \/ ram' = [ram EXCEPT ![s] = Closed]

Reads(s, r) == ram' = [ram EXCEPT ![s] = r] /\ UNCHANGED file

May(r, policy) == r.sound /\ Effective(policy, r.on)

Learnt(terms, term) ==
    LET known == {i \in DOMAIN terms : terms[i].spoken = term.spoken}
        at == CHOOSE i \in known : TRUE
        others == IF known = {} THEN terms
                  ELSE SubSeq(terms, 1, at - 1) \o SubSeq(terms, at + 1, Len(terms))
    IN  Append(IF Len(others) = MaxTerms THEN Tail(others) ELSE others, term)

\* Mutant: whoever comes last is right.
IsNeverStale(known, present, term) == FALSE

\* A different target that the store has not seen yet.
IsStale(known, present, term) ==
    LET old == TargetOf(present, term.spoken)
    IN  old \notin {Unset, term.written} /\ TargetOf(known, term.spoken) # old

\* record_correction(), with the policy of the call (FALSE never does anything).
Record(s, term, policy) ==
    LET r == Reloaded(ram[s])
    IN  /\ May(ram[s], policy)
        /\ IF May(r, policy) /\ ~IsStale(ram[s].terms, r.terms, term)
           THEN Commit(s, [r EXCEPT !.terms = Learnt(r.terms, term)], ram[s])
           ELSE Reads(s, r)

\* reset(), whatever the policy and the state of the file are.
Reset(s) == Commit(s, [Reloaded(ram[s]) EXCEPT !.terms = <<>>], ram[s])

---------------------------------------------------------------------------
(* The policy *)

\* update_policy() and the setters: the store only.
UpdatePolicy(s, on) ==
    /\ ram' = [ram EXCEPT ![s].on = on, ![s].explicit = on, ![s].dirty = TRUE]
    /\ UNCHANGED file

Falls(r) == [r EXCEPT !.terms = r.durable.terms, !.on = r.durable.on,
                      !.explicit = r.durable.explicit, !.sound = r.durable.sound,
                      !.dirty = FALSE]

\* Mutant: a save that writes the store's own terms.
SaveOwnTerms(r) == r.terms

\* save(): the terms of the file are kept, for a store's own terms change in transactions
\* only and the three-way merge finds nothing to add (TypeOK says what they can be); of
\* two policies that were changed independently none is written.
SaveTerms(r) == IF file = Missing THEN <<>> ELSE file.terms

Save(s) ==
    LET r == ram[s]
        remote == IF file \in {Missing, Damaged} THEN r.on ELSE file.on
        merged == [r EXCEPT !.terms = SaveTerms(r)]
    IN  \/ /\ file # Damaged /\ ~r.dirty
           /\ Commit(s, [merged EXCEPT !.on = remote, !.explicit = Unset], Falls(r))
        \/ /\ file # Damaged /\ r.dirty /\ remote \in {r.base, r.on}
           /\ Commit(s, merged, Falls(r))
        \/ /\ file = Damaged \/ (r.dirty /\ remote \notin {r.base, r.on})
           /\ Reads(s, Falls(r))

---------------------------------------------------------------------------
(* The processes and the file *)

\* A process that crashed, before or after it replaced the file, starts again.
Restart(s, explicit) == Reads(s, Fresh(explicit))

\* The file is damaged from outside.
Spoil == file' = Damaged /\ UNCHANGED ram

Init ==
    /\ file = Missing
    /\ \E explicit \in [Stores -> Policies] : ram = [s \in Stores |-> Fresh(explicit[s])]

Next ==
    \/ \E s \in Stores :
          \/ \E term \in Terms, policy \in {Unset, TRUE} : Record(s, term, policy)
          \/ Reset(s)
          \/ \E on \in BOOLEAN : UpdatePolicy(s, on)
          \/ Save(s)
          \/ \E explicit \in Policies : Restart(s, explicit)
    \/ Spoil

Spec == Init /\ [][Next]_vars

---------------------------------------------------------------------------
(* Properties *)

\* Every variable keeps its type; a closed store holds no terms, and a store's terms are
\* those it would fall back to unless it was closed.
TypeOK ==
    /\ file \in {Missing, Damaged} \cup Lists
    /\ ram \in [Stores -> States]
    /\ \A s \in Stores :
          /\ ram[s].terms = IF ram[s].sound THEN ram[s].durable.terms ELSE <<>>
          /\ ram[s].durable.sound \/ ram[s].durable.terms = <<>>

\* A store never offers a term that was not durable: its terms change to those of the
\* file, to none, or back to those of its last complete read or write, also when a write
\* failed at any point (personalization.py, _save_locked and its rollbacks).
RamFollowsDisk ==
    [][\A s \in Stores : ram'[s].terms # ram[s].terms =>
          \/ ram'[s].terms \in {<<>>, ram[s].durable.terms}
          \/ file' \notin {Missing, Damaged} /\ ram'[s].terms = file'.terms]_vars

\* "A stale writer ... cannot silently overwrite a different target learned since it
\* loaded": a target is replaced by a store that held that target.
NoSilentOverwrite ==
    [][{file, file'} \cap {Missing, Damaged} = {} =>
          \A s \in Stores, phrase \in Phrases :
             LET old == TargetOf(file.terms, phrase)
                 new == TargetOf(file'.terms, phrase)
             IN  ram'[s] # ram[s] /\ old # new /\ Unset \notin {old, new}
                    => TargetOf(ram[s].terms, phrase) = old]_vars

Memories == INSTANCE Memory WITH
    memory <- IF file = Missing THEN <<>> ELSE IF file = Damaged THEN Damaged ELSE file.terms

\* The stores together are one memory: no save, stale store, failed write or crash erases
\* a correction, brings a forgotten one back or writes over a damaged file, except reset.
IsMemory == Memories!Spec
=============================================================================
