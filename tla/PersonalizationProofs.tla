----------------------- MODULE PersonalizationProofs -----------------------
(***************************************************************************)
(* For every set of stores, phrases and targets and every bound on the     *)
(* corrections: the types of Personalization, that its stores together     *)
(* implement one Memory, that no store offers what was not durable, and    *)
(* that none replaces a correction that it had not seen.                   *)
(***************************************************************************)
EXTENDS Personalization, SequenceTheorems, TLAPS

\* A store's terms are those it would fall back to, or none once it was closed.
Good(r) ==
    /\ r \in States
    /\ r.terms = IF r.sound THEN r.durable.terms ELSE <<>>
    /\ r.durable.sound \/ r.durable.terms = <<>>

\* While there is no file no store has terms.
Blank(r) == r.terms = <<>> /\ r.durable.terms = <<>>
NothingYet == file = Missing => \A s \in Stores : Blank(ram[s])

IInv == TypeOK /\ NothingYet

LEMMA EmptyList == <<>> \in TermLists
  BY PersonalizationAssumption DEF TermLists

\* What is learnt is a list within the bound.
LEMMA LearntType ==
  ASSUME NEW terms \in TermLists, NEW term \in Terms
  PROVE  Learnt(terms, term) \in TermLists
<1> DEFINE known == {i \in DOMAIN terms : terms[i].spoken = term.spoken}
           at == CHOOSE i \in known : TRUE
           others == IF known = {} THEN terms
                     ELSE SubSeq(terms, 1, at - 1) \o SubSeq(terms, at + 1, Len(terms))
<1>1. others \in Seq(Terms) /\ Len(others) <= MaxTerms
  <2>1. terms \in Seq(Terms) /\ Len(terms) <= MaxTerms /\ Len(terms) \in Nat
    BY DEF TermLists
  <2>2. CASE known = {}
    BY <2>1, <2>2
  <2>3. CASE known # {}
    <3>1. at \in 1..Len(terms)
      BY <2>1, <2>3
    <3>. HIDE DEF at
    <3>2. SubSeq(terms, 1, at - 1) \in Seq(Terms) /\ Len(SubSeq(terms, 1, at - 1)) = at - 1
      BY <2>1, <3>1
    <3>3. /\ SubSeq(terms, at + 1, Len(terms)) \in Seq(Terms)
          /\ Len(SubSeq(terms, at + 1, Len(terms))) = Len(terms) - at
      BY <2>1, <3>1
    <3>4. others = SubSeq(terms, 1, at - 1) \o SubSeq(terms, at + 1, Len(terms))
      BY <2>3 DEF at
    <3>. HIDE DEF others
    <3>5. others \in Seq(Terms) /\ Len(others) = (at - 1) + (Len(terms) - at)
      BY <3>2, <3>3, <3>4
    <3>. QED BY <2>1, <3>1, <3>5, PersonalizationAssumption
  <2>. QED BY <2>2, <2>3
<1>2. Learnt(terms, term) = Append(IF Len(others) = MaxTerms THEN Tail(others) ELSE others,
                                   term)
  BY DEF Learnt
<1>. HIDE DEF others
<1>. QED BY <1>1, <1>2, PersonalizationAssumption DEF TermLists

LEMMA EffectiveType ==
  ASSUME NEW p \in Policies, NEW on \in BOOLEAN
  PROVE  Effective(p, on) \in BOOLEAN
  BY DEF Effective, Policies

LEMMA LoadedType ==
  ASSUME file \in {Damaged} \cup Lists, NEW r \in States, Good(r)
  PROVE  /\ Good(Loaded(r))
         /\ file # Damaged => Loaded(r).terms = file.terms
         /\ file = Damaged => ~Loaded(r).sound
<1>1. CASE file = Damaged
  BY <1>1, EmptyList DEF Loaded, Good, States
<1>2. CASE file \in Lists
  <2>1. file # Damaged /\ file.terms \in TermLists /\ file.on \in BOOLEAN
    BY <1>2, FileAssumption DEF Lists
  <2>2. Effective(r.explicit, file.on) \in BOOLEAN
    BY <2>1, EffectiveType DEF States
  <2>. QED BY <2>1, <2>2 DEF Loaded, Good, States, Durables
<1>. QED BY <1>1, <1>2

LEMMA ReloadedType ==
  ASSUME file \in {Missing, Damaged} \cup Lists, NEW r \in States, Good(r)
  PROVE  Good(Reloaded(r))
  BY LoadedType DEF Reloaded

LEMMA FreshType ==
  ASSUME file \in {Missing, Damaged} \cup Lists, NEW explicit \in Policies
  PROVE  Good(Fresh(explicit)) /\ (file = Missing => Blank(Fresh(explicit)))
<1> DEFINE on == Effective(explicit, TRUE)
           blank == [terms |-> <<>>, on |-> on, explicit |-> explicit,
                     sound |-> TRUE, dirty |-> FALSE, base |-> on,
                     durable |-> [terms |-> <<>>, on |-> on,
                                  explicit |-> explicit, sound |-> TRUE]]
           r == Reloaded(blank)
<1>1. on \in BOOLEAN
  BY EffectiveType
<1>. HIDE DEF on
<1>2. blank \in States /\ Good(blank)
  BY <1>1, EmptyList DEF States, Durables, Good
<1>. HIDE DEF blank
<1>3. Good(r)
  BY <1>2, ReloadedType
<1>4. file = Missing => r = blank
  BY DEF Reloaded
<1>. HIDE DEF r
<1>5. Fresh(explicit) = [r EXCEPT !.durable = Durable(r), !.dirty = explicit # Unset]
  BY DEF Fresh, r, blank, on
<1>6. Good(Fresh(explicit))
  <2>1. r \in States /\ (r.sound \/ r.terms = <<>>)
    BY <1>3 DEF Good
  <2>2. Durable(r) \in Durables /\ Durable(r).terms = r.terms /\ Durable(r).sound = r.sound
    BY <2>1 DEF Durable, States, Durables
  <2>. DEFINE d == Durable(r)
  <2>. HIDE DEF d
  <2>3. Fresh(explicit) = [r EXCEPT !.durable = d, !.dirty = explicit # Unset]
    BY <1>5 DEF d
  <2>4. (explicit # Unset) \in BOOLEAN
    OBVIOUS
  <2>5. d \in Durables /\ d.terms = r.terms /\ d.sound = r.sound
    BY <2>2 DEF d
  <2>. QED BY <2>1, <2>3, <2>4, <2>5 DEF Good, States
<1>7. file = Missing => Blank(Fresh(explicit))
  BY <1>3, <1>4, <1>5 DEF Blank, Durable, Good, States, blank
<1>. QED BY <1>6, <1>7

LEMMA FreshTerms ==
  ASSUME file \in {Missing, Damaged} \cup Lists, NEW explicit \in Policies
  PROVE  \/ Fresh(explicit).terms = <<>>
         \/ file \in Lists /\ Fresh(explicit).terms = file.terms
  BY DEF Fresh, Reloaded, Loaded

LEMMA ClosedType == Good(Closed)
  BY EmptyList DEF Good, Closed, States, Durables, Policies

LEMMA SavedType ==
  ASSUME NEW r \in States
  PROVE  Good(Saved(r)) /\ Good(Reconciled(r))
  BY DEF Good, Saved, Reconciled, States, Durables, Policies

LEMMA FallsType ==
  ASSUME NEW r, Good(r)
  PROVE  Good(Falls(r)) /\ (Blank(r) => Blank(Falls(r)))
  BY DEF Good, Falls, States, Durables, Blank

LEMMA StoresAreGood ==
  ASSUME IInv
  PROVE  \A s \in Stores : Good(ram[s])
<1>. TAKE s \in Stores
<1>1. ram[s] \in States
  BY DEF IInv, TypeOK
<1>2. /\ ram[s].terms = IF ram[s].sound THEN ram[s].durable.terms ELSE <<>>
      /\ ram[s].durable.sound \/ ram[s].durable.terms = <<>>
  BY DEF IInv, TypeOK
<1>. QED BY <1>1, <1>2 DEF Good

\* One store changes and the others stay good.
LEMMA StoreStep ==
  ASSUME IInv, NEW s \in Stores, NEW r,
         Good(r), file' = Missing => Blank(r),
         ram' = [ram EXCEPT ![s] = r],
         file' \in {Missing, Damaged} \cup Lists, file' = Missing => file = Missing
  PROVE  IInv'
<1>1. ram' \in [Stores -> States]
  BY DEF IInv, TypeOK, Good
<1>2. \A t \in Stores : Good(ram'[t])
  BY StoresAreGood DEF IInv, TypeOK
<1>3. file' = Missing => \A t \in Stores : Blank(ram'[t])
  BY DEF IInv, TypeOK, NothingYet
<1>. QED BY <1>1, <1>2, <1>3 DEF IInv, TypeOK, NothingYet, Good, Blank

\* A write leaves every store good, and a file that holds what was to be written unless
\* it left what there was.
LEMMA CommitStep ==
  ASSUME IInv, NEW s \in Stores, NEW r \in States, NEW fallback,
         Good(fallback), file = Missing => Blank(fallback),
         Commit(s, r, fallback)
  PROVE  /\ IInv'
         /\ file' = file \/ (file' \in Lists /\ file' # Missing /\ file' # Damaged
                                          /\ file'.terms = r.terms)
<1>1. CASE UNCHANGED file /\ ram' = [ram EXCEPT ![s] = fallback]
  BY <1>1, StoreStep DEF IInv, TypeOK
<1>2. CASE Writes(r) /\ \E new \in {Saved(r), Reconciled(r), Closed} :
                           ram' = [ram EXCEPT ![s] = new]
  <2>1. file' \in Lists /\ file' # Missing /\ file' # Damaged /\ file'.terms = r.terms
    BY <1>2, FileAssumption DEF Writes, Lists, States
  <2>2. PICK new \in {Saved(r), Reconciled(r), Closed} : ram' = [ram EXCEPT ![s] = new]
    BY <1>2
  <2>3. Good(new)
    BY <2>2, SavedType, ClosedType
  <2>. QED BY <2>1, <2>2, <2>3, StoreStep
<1>. QED BY <1>1, <1>2 DEF Commit

\* A transaction that writes starts from the terms the file has, and only reset() may
\* start from a damaged one.
LEMMA ReloadedTerms ==
  ASSUME IInv, NEW s \in Stores
  PROVE  /\ Reloaded(ram[s]) \in States
         /\ Good(Reloaded(ram[s]))
         /\ file = Missing => Blank(Reloaded(ram[s]))
         /\ file = Missing => Reloaded(ram[s]).terms = <<>>
         /\ file = Damaged => ~Reloaded(ram[s]).sound
         /\ file \in Lists => Reloaded(ram[s]).terms = file.terms
<1>1. Good(ram[s]) /\ ram[s] \in States /\ (file = Missing => Blank(ram[s]))
  BY StoresAreGood DEF Good, IInv, NothingYet
<1>2. file \in {Missing, Damaged} \cup Lists
  BY DEF IInv, TypeOK
<1>3. Good(Reloaded(ram[s]))
  BY <1>1, <1>2, ReloadedType
<1>4. CASE file = Missing
  BY <1>1, <1>3, <1>4, FileAssumption, PersonalizationAssumption DEF Reloaded, Good, Blank
<1>5. CASE file # Missing
  <2>1. file \in {Damaged} \cup Lists /\ Reloaded(ram[s]) = Loaded(ram[s])
    BY <1>2, <1>5 DEF Reloaded
  <2>. QED BY <1>1, <1>3, <1>5, <2>1, LoadedType, FileAssumption DEF Good
<1>. QED BY <1>4, <1>5

---------------------------------------------------------------------------
(* The invariant *)

LEMMA InitIInv == Init => IInv
<1>. SUFFICES ASSUME Init PROVE IInv
  OBVIOUS
<1>1. PICK explicit \in [Stores -> Policies] : ram = [s \in Stores |-> Fresh(explicit[s])]
  BY DEF Init
<1>2. file = Missing
  BY DEF Init
<1>3. \A s \in Stores : Good(ram[s]) /\ Blank(ram[s])
  <2>. TAKE s \in Stores
  <2>1. ram[s] = Fresh(explicit[s]) /\ explicit[s] \in Policies
    BY <1>1
  <2>. QED BY <1>2, <2>1, FreshType
<1>. QED BY <1>1, <1>2, <1>3 DEF IInv, TypeOK, NothingYet, Good

\* What a step does to the file, with the invariant it keeps: nothing, one more
\* correction, no corrections, or damage.
Progress ==
    \/ file' = file
    \/ /\ file' \in Lists
       /\ \/ file = Missing /\ file'.terms = <<>>
          \/ file \in Lists /\ file'.terms = file.terms
          \/ file'.terms = <<>>
          \/ /\ file # Damaged
             /\ \E term \in Terms :
                   file'.terms = Learnt(IF file = Missing THEN <<>> ELSE file.terms, term)
    \/ file' = Damaged

LEMMA RecordStep ==
  ASSUME IInv, NEW s \in Stores, NEW term \in Terms, NEW policy \in Policies,
         Record(s, term, policy)
  PROVE  IInv' /\ Progress
<1> DEFINE r == Reloaded(ram[s])
           new == [r EXCEPT !.terms = Learnt(r.terms, term)]
<1>1. /\ r \in States /\ Good(r)
      /\ file = Missing => Blank(r) /\ r.terms = <<>>
      /\ file = Damaged => ~r.sound
      /\ file \in Lists => r.terms = file.terms
  BY ReloadedTerms
<1>2. Good(ram[s]) /\ (file = Missing => Blank(ram[s]))
  BY StoresAreGood DEF IInv, NothingYet
<1>3. file \in {Missing, Damaged} \cup Lists
  BY DEF IInv, TypeOK
<1>4. CASE Reads(s, r)
  BY <1>1, <1>3, <1>4, StoreStep DEF Reads, Progress
<1>5. CASE May(r, policy) /\ Commit(s, new, ram[s])
  <2>1. file # Damaged
    BY <1>1, <1>5 DEF May
  <2>2. r.terms \in TermLists /\ Learnt(r.terms, term) \in TermLists
    BY <1>1, LearntType DEF States
  <2>3. new \in States /\ new.terms = Learnt(r.terms, term)
    BY <1>1, <2>2 DEF States
  <2>4. /\ IInv'
        /\ file' = file \/ (file' \in Lists /\ file'.terms = new.terms)
    BY <1>2, <1>5, <2>3, CommitStep
  <2>5. r.terms = IF file = Missing THEN <<>> ELSE file.terms
    BY <1>1, <1>3, <2>1
  <2>. HIDE DEF r, new
  <2>. QED BY <2>1, <2>3, <2>4, <2>5 DEF Progress
<1>. QED BY <1>4, <1>5 DEF Record

LEMMA ResetStep ==
  ASSUME IInv, NEW s \in Stores, Reset(s)
  PROVE  IInv' /\ Progress
<1> DEFINE r == Reloaded(ram[s])
           new == [r EXCEPT !.terms = <<>>]
<1>1. r \in States
  BY ReloadedTerms
<1>2. new \in States /\ new.terms = <<>>
  BY <1>1, EmptyList DEF States
<1>3. Good(ram[s]) /\ (file = Missing => Blank(ram[s]))
  BY StoresAreGood DEF IInv, NothingYet
<1>4. Commit(s, new, ram[s])
  BY DEF Reset
<1>. HIDE DEF new
<1>. QED BY <1>2, <1>3, <1>4, CommitStep DEF Progress

\* What save() writes is a state of a store, with the terms of the file.
LEMMA SaveStates ==
  ASSUME IInv, NEW s \in Stores, Save(s)
  PROVE  \/ Reads(s, Falls(ram[s]))
         \/ /\ file # Damaged
            /\ \E r \in States : /\ r.terms = SaveTerms(ram[s])
                                /\ Commit(s, r, Falls(ram[s]))
<1> DEFINE r == ram[s]
           remote == IF file \in {Missing, Damaged} THEN r.on ELSE file.on
           merged == [r EXCEPT !.terms = SaveTerms(r)]
           clean == [merged EXCEPT !.on = remote, !.explicit = Unset]
<1>1. CASE Reads(s, Falls(r))
  BY <1>1
<1>2. CASE file # Damaged
           /\ (Commit(s, clean, Falls(r)) \/ Commit(s, merged, Falls(r)))
  <2>1. SaveTerms(r) \in TermLists /\ remote \in BOOLEAN
    BY <1>2, EmptyList DEF SaveTerms, States, Lists, IInv, TypeOK
  <2>2. merged \in States /\ merged.terms = SaveTerms(r)
    BY <2>1 DEF States, IInv, TypeOK
  <2>3. clean \in States /\ clean.terms = SaveTerms(r)
    BY <2>1, <2>2 DEF States, Policies
  <2>. HIDE DEF clean, merged
  <2>. QED BY <1>2, <2>2, <2>3
<1>. QED BY <1>1, <1>2 DEF Save

LEMMA SaveStep ==
  ASSUME IInv, NEW s \in Stores, Save(s)
  PROVE  IInv' /\ Progress
<1>1. Good(Falls(ram[s])) /\ (file = Missing => Blank(Falls(ram[s])))
  BY StoresAreGood, FallsType DEF IInv, NothingYet
<1>2. file \in {Missing, Damaged} \cup Lists
  BY DEF IInv, TypeOK
<1>3. CASE Reads(s, Falls(ram[s]))
  BY <1>1, <1>2, <1>3, StoreStep DEF Reads, Progress
<1>4. CASE /\ file # Damaged
           /\ \E r \in States : /\ r.terms = SaveTerms(ram[s])
                               /\ Commit(s, r, Falls(ram[s]))
  BY <1>1, <1>2, <1>4, CommitStep DEF Progress, SaveTerms
<1>. QED BY <1>3, <1>4, SaveStates

LEMMA NextStep == IInv /\ [Next]_vars => IInv' /\ (Progress \/ UNCHANGED file)
<1>. SUFFICES ASSUME IInv, [Next]_vars PROVE IInv' /\ (Progress \/ UNCHANGED file)
  OBVIOUS
<1>1. file \in {Missing, Damaged} \cup Lists
  BY DEF IInv, TypeOK
<1>2. CASE \E s \in Stores, term \in Terms, policy \in {Unset, TRUE} :
             Record(s, term, policy)
  BY <1>2, RecordStep DEF Policies
<1>3. CASE \E s \in Stores : Reset(s)
  BY <1>3, ResetStep
<1>4. CASE \E s \in Stores, on \in BOOLEAN : UpdatePolicy(s, on)
  <2>1. PICK s \in Stores, on \in BOOLEAN : UpdatePolicy(s, on)
    BY <1>4
  <2>2. Good(ram[s]) /\ (file = Missing => Blank(ram[s]))
    BY StoresAreGood DEF IInv, NothingYet
  <2>. DEFINE new == [ram[s] EXCEPT !.on = on, !.explicit = on, !.dirty = TRUE]
  <2>3. Good(new) /\ (file = Missing => Blank(new))
    BY <2>2 DEF Good, States, Policies, Blank
  <2>4. ram' = [ram EXCEPT ![s] = new] /\ file' = file
    BY <2>1 DEF UpdatePolicy, IInv, TypeOK
  <2>. HIDE DEF new
  <2>. QED BY <1>1, <2>3, <2>4, StoreStep DEF Progress
<1>5. CASE \E s \in Stores : Save(s)
  BY <1>5, SaveStep
<1>6. CASE \E s \in Stores, explicit \in Policies : Restart(s, explicit)
  BY <1>1, <1>6, FreshType, StoreStep DEF Restart, Reads, Progress
<1>7. CASE Spoil
  BY <1>7, PersonalizationAssumption DEF Spoil, Progress, IInv, TypeOK, NothingYet
<1>8. CASE UNCHANGED vars
  BY <1>8 DEF vars, IInv, TypeOK, NothingYet
<1>. QED BY <1>2, <1>3, <1>4, <1>5, <1>6, <1>7, <1>8 DEF Next

---------------------------------------------------------------------------
(* The theorems *)

\* The types of personalization.py's fields hold for every number of processes, and a
\* closed store has no terms.
THEOREM TypeCorrect == Spec => []TypeOK
<1>1. Init => IInv
  BY InitIInv
<1>2. IInv /\ [Next]_vars => IInv'
  BY NextStep
<1>3. IInv => TypeOK
  BY DEF IInv
<1>. QED BY <1>1, <1>2, <1>3, PTL DEF Spec

\* The stores of any number of processes implement one memory: no stale save, failed
\* write or crash erases a correction or brings a forgotten one back.
THEOREM ImplementsMemory == Spec => IsMemory
<1> DEFINE memory(f) == IF f = Missing THEN <<>> ELSE IF f = Damaged THEN Damaged ELSE f.terms
<1>1. Init => Memories!Init
  BY DEF Init, Memories!Init
<1>2. IInv /\ [Next]_vars => [Memories!Next]_(memory(file))
  <2>. SUFFICES ASSUME IInv, [Next]_vars PROVE [Memories!Next]_(memory(file))
    OBVIOUS
  <2>1. Progress \/ file' = file
    BY NextStep
  <2>2. file \in {Missing, Damaged} \cup Lists
    BY DEF IInv, TypeOK
  <2>3. CASE file' = file
    BY <2>3
  <2>4. CASE file' = Damaged
    BY <2>4, PersonalizationAssumption DEF Memories!Next, Memories!Damage
  <2>5. CASE file' \in Lists
    <3>1. file' # Missing /\ file' # Damaged
      BY <2>5, FileAssumption
    <3>2. CASE file'.terms = <<>>
      BY <3>1, <3>2 DEF Memories!Next, Memories!Forget
    <3>3. CASE file \in Lists /\ file'.terms = file.terms
      BY <3>1, <3>3, FileAssumption
    <3>4. CASE /\ file # Damaged
               /\ \E term \in Terms : file'.terms = Learnt(memory(file), term)
      <4>1. memory(file) # Damaged
        BY <2>2, <3>4, FileAssumption, EmptyList DEF Lists
      <4>2. \E term \in Memories!Terms : file'.terms = Memories!Learnt(memory(file), term)
        <5>1. \A terms, term : Learnt(terms, term) = Memories!Learnt(terms, term)
          BY Zenon DEF Learnt, Memories!Learnt
        <5>. QED BY <3>4, <5>1 DEF Terms, Memories!Terms
      <4>. QED BY <3>1, <4>1, <4>2 DEF Memories!Next, Memories!Learn
    <3>. QED BY <2>1, <2>3, <2>5, <3>1, <3>2, <3>3, <3>4 DEF Progress
  <2>. QED BY <2>1, <2>3, <2>4, <2>5 DEF Progress
<1>3. Init => IInv
  BY InitIInv
<1>4. IInv /\ [Next]_vars => IInv'
  BY NextStep
<1>. QED BY <1>1, <1>2, <1>3, <1>4, PTL DEF Spec, IsMemory, Memories!Spec

\* A store's terms come from the file, or from what it had before.
LEMMA RamStep ==
  ASSUME IInv, NEW s \in Stores, NEW r, ram' = [ram EXCEPT ![s] = r],
         \/ r.terms \in {<<>>, ram[s].terms, ram[s].durable.terms}
         \/ file' \in Lists /\ r.terms = file'.terms
  PROVE  \A t \in Stores : ram'[t].terms # ram[t].terms =>
            \/ ram'[t].terms \in {<<>>, ram[t].durable.terms}
            \/ file' \notin {Missing, Damaged} /\ ram'[t].terms = file'.terms
  BY FileAssumption DEF IInv, TypeOK

LEMMA CommitRam ==
  ASSUME NEW s \in Stores, NEW r \in States, NEW fallback, Commit(s, r, fallback)
  PROVE  \E new : /\ ram' = [ram EXCEPT ![s] = new]
                  /\ \/ new.terms = <<>>
                     \/ new = fallback
                     \/ file' \in Lists /\ new.terms = file'.terms
<1>1. CASE UNCHANGED file /\ ram' = [ram EXCEPT ![s] = fallback]
  BY <1>1
<1>2. CASE Writes(r) /\ \E new \in {Saved(r), Reconciled(r)} : ram' = [ram EXCEPT ![s] = new]
  <2>1. file' \in Lists /\ file'.terms = r.terms
    BY <1>2 DEF Writes, Lists, States
  <2>2. Saved(r).terms = r.terms /\ Reconciled(r).terms = r.terms
    BY DEF Saved, Reconciled, States
  <2>. QED BY <1>2, <2>1, <2>2
<1>3. CASE ram' = [ram EXCEPT ![s] = Closed]
  <2>1. Closed.terms = <<>>
    BY DEF Closed
  <2>. QED BY <1>3, <2>1
<1>. QED BY <1>1, <1>2, <1>3 DEF Commit

\* No store ever offers a correction that was not durable, whatever failed.
THEOREM RamIsDurable == Spec => RamFollowsDisk
<1> DEFINE Follows ==
       \A s \in Stores : ram'[s].terms # ram[s].terms =>
          \/ ram'[s].terms \in {<<>>, ram[s].durable.terms}
          \/ file' \notin {Missing, Damaged} /\ ram'[s].terms = file'.terms
<1>1. IInv /\ [Next]_vars => [Follows]_vars
  <2>. SUFFICES ASSUME IInv, Next PROVE Follows
    OBVIOUS
  <2>1. \A s \in Stores : /\ ram[s] \in States
                         /\ Falls(ram[s]).terms = ram[s].durable.terms
    BY DEF IInv, TypeOK, Falls, States
  <2>2. \A s \in Stores : /\ Reloaded(ram[s]) \in States
                         /\ \/ Reloaded(ram[s]).terms = <<>>
                            \/ file \in Lists /\ Reloaded(ram[s]).terms = file.terms
    <3>. TAKE s \in Stores
    <3>1. Good(Reloaded(ram[s])) /\ Reloaded(ram[s]) \in States
      BY ReloadedTerms
    <3>2. file \in {Missing, Damaged} \cup Lists
      BY DEF IInv, TypeOK
    <3>. QED BY <3>1, <3>2, ReloadedTerms DEF Good
  <2>3. CASE \E s \in Stores, term \in Terms, policy \in {Unset, TRUE} :
               Record(s, term, policy)
    <3>1. PICK s \in Stores, term \in Terms, policy \in {Unset, TRUE} :
               Record(s, term, policy)
      BY <2>3
    <3>. DEFINE r == Reloaded(ram[s])
                new == [r EXCEPT !.terms = Learnt(r.terms, term)]
    <3>2. CASE Reads(s, r)
      BY <2>2, <3>2, RamStep DEF Reads
    <3>3. CASE Commit(s, new, ram[s])
      <4>1. Learnt(r.terms, term) \in TermLists
        BY <2>2, LearntType DEF States
      <4>2. new \in States
        BY <2>2, <4>1 DEF States
      <4>. HIDE DEF new
      <4>. QED BY <3>3, <4>2, CommitRam, RamStep
    <3>. QED BY <3>1, <3>2, <3>3 DEF Record
  <2>4. CASE \E s \in Stores : Reset(s)
    <3>1. PICK s \in Stores : Reset(s)
      BY <2>4
    <3>. DEFINE new == [Reloaded(ram[s]) EXCEPT !.terms = <<>>]
    <3>2. new \in States
      BY <2>2, EmptyList DEF States
    <3>3. Commit(s, new, ram[s])
      BY <3>1 DEF Reset
    <3>. HIDE DEF new
    <3>. QED BY <3>2, <3>3, CommitRam, RamStep
  <2>5. CASE \E s \in Stores, on \in BOOLEAN : UpdatePolicy(s, on)
    BY <2>5 DEF UpdatePolicy, IInv, TypeOK, States
  <2>6. CASE \E s \in Stores : Save(s)
    <3>1. PICK s \in Stores : Save(s)
      BY <2>6
    <3>2. CASE Reads(s, Falls(ram[s]))
      BY <2>1, <3>2, RamStep DEF Reads
    <3>3. CASE \E r \in States : Commit(s, r, Falls(ram[s]))
      BY <2>1, <3>3, CommitRam, RamStep
    <3>4. \/ Reads(s, Falls(ram[s]))
          \/ \E r \in States : Commit(s, r, Falls(ram[s]))
      BY <2>1, <3>1, SaveStates
    <3>. QED BY <3>2, <3>3, <3>4
  <2>7. CASE \E s \in Stores, explicit \in Policies : Restart(s, explicit)
    <3>1. PICK s \in Stores, explicit \in Policies : Restart(s, explicit)
      BY <2>7
    <3>2. \/ Fresh(explicit).terms = <<>>
          \/ file \in Lists /\ Fresh(explicit).terms = file.terms
      BY FreshTerms DEF IInv, TypeOK
    <3>. QED BY <3>1, <3>2, RamStep DEF Restart, Reads
  <2>8. CASE Spoil
    BY <2>8 DEF Spoil
  <2>. QED BY <2>3, <2>4, <2>5, <2>6, <2>7, <2>8 DEF Next
<1>2. Init => IInv
  BY InitIInv
<1>3. IInv /\ [Next]_vars => IInv'
  BY NextStep
<1>. QED BY <1>1, <1>2, <1>3, PTL DEF Spec, RamFollowsDisk

---------------------------------------------------------------------------
(* No correction is overwritten by a store that had not seen it *)

\* A list has one target per phrase.
Single(terms) ==
    \A i, j \in DOMAIN terms : terms[i].spoken = terms[j].spoken => i = j

SingleInv == file \in Lists => Single(file.terms)

LEMMA TargetIs ==
  ASSUME NEW terms, Single(terms), NEW i \in DOMAIN terms
  PROVE  TargetOf(terms, terms[i].spoken) = terms[i].written
<1>. DEFINE k == CHOOSE j \in DOMAIN terms : terms[j].spoken = terms[i].spoken
<1>1. k \in DOMAIN terms /\ terms[k].spoken = terms[i].spoken
  OBVIOUS
<1>2. k = i
  BY <1>1 DEF Single
<1>. QED BY <1>2 DEF TargetOf

\* What is left of a list when entries go has no other target for a phrase.
LEMMA TargetStays ==
  ASSUME NEW terms, Single(terms), NEW rest, Single(rest), NEW phrase,
         \A i \in DOMAIN rest : rest[i].spoken = phrase =>
            \E j \in DOMAIN terms : terms[j] = rest[i]
  PROVE  TargetOf(rest, phrase) \in {Unset, TargetOf(terms, phrase)}
<1>1. CASE \E i \in DOMAIN rest : rest[i].spoken = phrase
  <2>1. PICK i \in DOMAIN rest : rest[i].spoken = phrase
    BY <1>1
  <2>2. PICK j \in DOMAIN terms : terms[j] = rest[i]
    BY <2>1
  <2>3. TargetOf(rest, phrase) = rest[i].written /\ TargetOf(terms, phrase) = terms[j].written
    BY <2>1, <2>2, TargetIs
  <2>. QED BY <2>2, <2>3
<1>2. CASE ~ \E i \in DOMAIN rest : rest[i].spoken = phrase
  BY <1>2 DEF TargetOf
<1>. QED BY <1>1, <1>2

\* Learning keeps one target per phrase, gives its own phrase the new one, and may drop
\* the oldest correction, but changes none.
LEMMA LearntTargets ==
  ASSUME NEW terms \in TermLists, Single(terms), NEW term \in Terms
  PROVE  /\ Single(Learnt(terms, term))
         /\ TargetOf(Learnt(terms, term), term.spoken) = term.written
         /\ \A phrase : phrase # term.spoken =>
               TargetOf(Learnt(terms, term), phrase) \in {Unset, TargetOf(terms, phrase)}
<1> DEFINE known == {i \in DOMAIN terms : terms[i].spoken = term.spoken}
           at == CHOOSE i \in known : TRUE
           others == IF known = {} THEN terms
                     ELSE SubSeq(terms, 1, at - 1) \o SubSeq(terms, at + 1, Len(terms))
           rest == IF Len(others) = MaxTerms THEN Tail(others) ELSE others
           learnt == Append(rest, term)
<1>0. terms \in Seq(Terms) /\ Len(terms) \in Nat /\ DOMAIN terms = 1..Len(terms)
  BY DEF TermLists
<1>1. /\ others \in Seq(Terms) /\ Single(others)
      /\ \A i \in DOMAIN others : others[i].spoken # term.spoken
                                  /\ \E j \in DOMAIN terms : terms[j] = others[i]
  <2>1. CASE known = {}
    BY <1>0, <2>1
  <2>2. CASE known # {}
    <3>1. at \in 1..Len(terms) /\ terms[at].spoken = term.spoken
      BY <1>0, <2>2
    <3>. HIDE DEF at
    <3>. DEFINE front == SubSeq(terms, 1, at - 1)
                back == SubSeq(terms, at + 1, Len(terms))
    <3>2. /\ front \in Seq(Terms) /\ Len(front) = at - 1
          /\ \A i \in 1..(at - 1) : front[i] = terms[i]
      BY <1>0, <3>1
    <3>3. /\ back \in Seq(Terms) /\ Len(back) = Len(terms) - at
          /\ \A i \in 1..(Len(terms) - at) : back[i] = terms[at + i]
      <4>1. at + 1 \in Int /\ Len(terms) \in Int /\ \A i \in (at + 1)..Len(terms) : terms[i] \in Terms
        BY <1>0, <3>1
      <4>2. /\ back \in Seq(Terms)
            /\ Len(back) = IF at + 1 <= Len(terms) THEN Len(terms) - (at + 1) + 1 ELSE 0
            /\ \A i \in 1..(Len(terms) - (at + 1) + 1) : back[i] = terms[at + 1 + i - 1]
        BY <4>1, SubSeqProperties
      <4>. HIDE DEF back
      <4>3. Len(back) = Len(terms) - at
        <5>1. Len(terms) \in Nat /\ at \in 1..Len(terms)
          BY <1>0, <3>1
        <5>2. \A n \in Nat : \A k \in 1..n :
                 (IF k + 1 <= n THEN n - (k + 1) + 1 ELSE 0) = n - k
          OBVIOUS
        <5>. QED BY <4>2, <5>1, <5>2
      <4>4. ASSUME NEW i \in 1..(Len(terms) - at) PROVE back[i] = terms[at + i]
        <5>1. i \in 1..(Len(terms) - (at + 1) + 1) /\ at + 1 + i - 1 = at + i
          BY <1>0, <3>1, <4>4
        <5>. QED BY <4>2, <5>1
      <4>. QED BY <4>2, <4>3, <4>4
    <3>4. others = front \o back
      BY <2>2 DEF at
    <3>. HIDE DEF front, back, others
    <3>5. /\ others \in Seq(Terms) /\ Len(others) = Len(terms) - 1
          /\ \A i \in 1..(at - 1) : others[i] = terms[i]
          /\ \A i \in at..(Len(terms) - 1) : others[i] = terms[i + 1]
      <4>1. /\ others \in Seq(Terms) /\ Len(others) = Len(front) + Len(back)
            /\ \A i \in 1..(Len(front) + Len(back)) :
                  others[i] = IF i <= Len(front) THEN front[i] ELSE back[i - Len(front)]
        BY <3>2, <3>3, <3>4, ConcatProperties
      <4>2. Len(others) = Len(terms) - 1
        BY <1>0, <3>1, <3>2, <3>3, <4>1
      <4>3. ASSUME NEW i \in at..(Len(terms) - 1) PROVE others[i] = terms[i + 1]
        <5>1. i - Len(front) \in 1..(Len(terms) - at) /\ at + (i - Len(front)) = i + 1
          BY <1>0, <3>1, <3>2, <4>3
        <5>2. i \in 1..(Len(front) + Len(back)) /\ ~(i <= Len(front))
          BY <1>0, <3>1, <3>2, <3>3, <4>3
        <5>3. others[i] = back[i - Len(front)]
          BY <4>1, <5>2
        <5>. QED BY <3>3, <5>1, <5>3
      <4>4. ASSUME NEW i \in 1..(at - 1) PROVE others[i] = terms[i]
        <5>1. i \in 1..(Len(front) + Len(back)) /\ i <= Len(front)
          BY <1>0, <3>1, <3>2, <3>3, <4>4
        <5>. QED BY <3>2, <4>1, <4>4, <5>1
      <4>. QED BY <4>1, <4>2, <4>3, <4>4
    <3>. DEFINE from(i) == IF i < at THEN i ELSE i + 1
    <3>6. /\ DOMAIN others = 1..(Len(terms) - 1)
          /\ \A i \in DOMAIN others : from(i) \in DOMAIN terms /\ from(i) # at
                                      /\ others[i] = terms[from(i)]
          /\ \A i, j \in DOMAIN others : from(i) = from(j) => i = j
      BY <1>0, <3>1, <3>5
    <3>. HIDE DEF from
    <3>7. Single(others)
      BY <3>6 DEF Single
    <3>8. \A i \in DOMAIN others : others[i].spoken # term.spoken
      BY <1>0, <3>1, <3>6 DEF Single
    <3>. QED BY <3>5, <3>6, <3>7, <3>8
  <2>. QED BY <2>1, <2>2
<1>. HIDE DEF others
<1>2. /\ rest \in Seq(Terms) /\ Single(rest)
      /\ \A i \in DOMAIN rest : rest[i].spoken # term.spoken
                                /\ \E j \in DOMAIN terms : terms[j] = rest[i]
  <2>1. CASE Len(others) # MaxTerms
    BY <1>1, <2>1
  <2>2. CASE Len(others) = MaxTerms
    <3>1. others # <<>> /\ rest = Tail(others)
      BY <1>1, <2>2, PersonalizationAssumption
    <3>2. /\ rest \in Seq(Terms) /\ DOMAIN rest = 1..(Len(others) - 1)
          /\ Len(others) \in Nat /\ DOMAIN others = 1..Len(others)
          /\ \A i \in DOMAIN rest : i + 1 \in DOMAIN others /\ rest[i] = others[i + 1]
      BY <1>1, <3>1
    <3>3. Single(rest)
      BY <1>1, <3>2 DEF Single
    <3>. QED BY <1>1, <3>2, <3>3
  <2>. QED BY <2>1, <2>2
<1>. HIDE DEF rest
<1>3. /\ DOMAIN rest = 1..Len(rest) /\ Len(rest) \in Nat
      /\ DOMAIN learnt = 1..(Len(rest) + 1) /\ learnt[Len(rest) + 1] = term
      /\ \A i \in 1..Len(rest) : learnt[i] = rest[i]
  BY <1>2
<1>. HIDE DEF learnt
<1>4. Single(learnt)
  BY <1>2, <1>3 DEF Single
<1>5. TargetOf(learnt, term.spoken) = term.written
  BY <1>3, <1>4, TargetIs
<1>6. ASSUME NEW phrase, phrase # term.spoken
      PROVE  TargetOf(learnt, phrase) \in {Unset, TargetOf(terms, phrase)}
  BY <1>2, <1>3, <1>4, <1>6, TargetStays
<1>7. learnt = Learnt(terms, term)
  BY DEF Learnt, learnt, rest, others
<1>. QED BY <1>4, <1>5, <1>6, <1>7

LEMMA SingleStep == IInv /\ SingleInv /\ [Next]_vars => SingleInv'
<1>. SUFFICES ASSUME IInv, SingleInv, Progress \/ UNCHANGED file, file' \in Lists
              PROVE  Single(file'.terms)
  BY NextStep DEF SingleInv
<1>0. file \in {Missing, Damaged} \cup Lists
  BY DEF IInv, TypeOK
<1>1. CASE file' = file
  BY <1>1 DEF SingleInv
<1>2. CASE file'.terms = <<>>
  BY <1>2 DEF Single
<1>3. CASE file \in Lists /\ file'.terms = file.terms
  BY <1>3 DEF SingleInv
<1>4. CASE /\ file # Damaged
           /\ \E term \in Terms :
                 file'.terms = Learnt(IF file = Missing THEN <<>> ELSE file.terms, term)
  <2>1. PICK term \in Terms :
           file'.terms = Learnt(IF file = Missing THEN <<>> ELSE file.terms, term)
    BY <1>4
  <2>2. CASE file = Missing
    <3>1. Single(<<>>)
      BY DEF Single
    <3>. QED BY <2>1, <2>2, <3>1, EmptyList, LearntTargets
  <2>3. CASE file \in Lists
    <3>1. file # Missing /\ file.terms \in TermLists
      BY <2>3, FileAssumption DEF Lists
    <3>. QED BY <2>1, <2>3, <3>1, LearntTargets DEF SingleInv
  <2>. QED BY <1>0, <1>4, <2>2, <2>3
<1>. QED BY <1>1, <1>2, <1>3, <1>4, FileAssumption DEF Progress

\* A write leaves the terms that were to be written, or the file as it was, and touches
\* one store.
LEMMA CommitTerms ==
  ASSUME NEW s \in Stores, NEW r \in States, NEW fallback, Commit(s, r, fallback), IInv
  PROVE  /\ file' = file \/ file'.terms = r.terms
         /\ \A t \in Stores \ {s} : ram'[t] = ram[t]
  BY DEF Commit, Writes, IInv, TypeOK

\* A correction is replaced by a store that had seen it and by no other: neither a save of
\* terms loaded long ago nor a record in a stale process overwrites it.
THEOREM StaleNeverOverwrites == Spec => NoSilentOverwrite
<1> DEFINE Kept ==
       {file, file'} \cap {Missing, Damaged} = {} =>
          \A s \in Stores, phrase \in Phrases :
             LET old == TargetOf(file.terms, phrase)
                 new == TargetOf(file'.terms, phrase)
             IN  ram'[s] # ram[s] /\ old # new /\ Unset \notin {old, new}
                    => TargetOf(ram[s].terms, phrase) = old
<1>1. IInv /\ SingleInv /\ [Next]_vars => [Kept]_vars
  <2>. SUFFICES ASSUME IInv, SingleInv, Next, file \notin {Missing, Damaged},
                       NEW t \in Stores, NEW phrase \in Phrases, ram'[t] # ram[t],
                       TargetOf(file.terms, phrase) # TargetOf(file'.terms, phrase),
                       TargetOf(file.terms, phrase) # Unset,
                       TargetOf(file'.terms, phrase) # Unset
                PROVE  TargetOf(ram[t].terms, phrase) = TargetOf(file.terms, phrase)
    OBVIOUS
  <2>1. file \in Lists /\ file.terms \in TermLists /\ Single(file.terms)
    BY DEF IInv, TypeOK, SingleInv, Lists
  <2>2. file' # file
    OBVIOUS
  <2>3. ASSUME NEW s \in Stores, NEW term \in Terms, NEW policy \in {Unset, TRUE},
               Record(s, term, policy)
        PROVE  TargetOf(ram[t].terms, phrase) = TargetOf(file.terms, phrase)
    <3>. DEFINE r == Reloaded(ram[s])
                new == [r EXCEPT !.terms = Learnt(r.terms, term)]
    <3>1. r \in States /\ r.terms = file.terms
      BY <2>1, ReloadedTerms
    <3>2. ~IsStale(ram[s].terms, r.terms, term) /\ Commit(s, new, ram[s])
      BY <2>2, <2>3 DEF Record, Reads
    <3>3. new \in States /\ new.terms = Learnt(file.terms, term)
      BY <2>1, <3>1, LearntType DEF States
    <3>. HIDE DEF r, new
    <3>4. file'.terms = Learnt(file.terms, term) /\ s = t
      BY <2>2, <3>2, <3>3, CommitTerms
    <3>5. phrase = term.spoken /\ TargetOf(file'.terms, phrase) = term.written
      BY <2>1, <3>4, LearntTargets
    <3>. QED BY <3>1, <3>2, <3>4, <3>5 DEF IsStale
  <2>4. ASSUME NEW s \in Stores, Reset(s) PROVE FALSE
    <3>. DEFINE new == [Reloaded(ram[s]) EXCEPT !.terms = <<>>]
    <3>1. new \in States /\ new.terms = <<>>
      BY ReloadedTerms, EmptyList DEF States
    <3>2. Commit(s, new, ram[s])
      BY <2>4 DEF Reset
    <3>. HIDE DEF new
    <3>3. file'.terms = <<>>
      BY <2>2, <3>1, <3>2, CommitTerms
    <3>. QED BY <3>3 DEF TargetOf
  <2>5. ASSUME NEW s \in Stores, Save(s) PROVE FALSE
    <3>1. CASE \E r \in States : r.terms = SaveTerms(ram[s]) /\ Commit(s, r, Falls(ram[s]))
      BY <2>2, <3>1, CommitTerms DEF SaveTerms
    <3>. QED BY <2>2, <2>5, <3>1, SaveStates DEF Reads
  <2>6. ASSUME NEW s \in Stores,
               \/ \E on \in BOOLEAN : UpdatePolicy(s, on)
               \/ \E explicit \in Policies : Restart(s, explicit)
        PROVE  FALSE
    BY <2>2, <2>6 DEF UpdatePolicy, Restart, Reads
  <2>7. ~Spoil
    BY DEF Spoil
  <2>. QED BY <2>3, <2>4, <2>5, <2>6, <2>7 DEF Next
<1>2. Init => IInv /\ SingleInv
  BY InitIInv, FileAssumption DEF Init, SingleInv
<1>3. IInv /\ SingleInv /\ [Next]_vars => (IInv /\ SingleInv)'
  BY NextStep, SingleStep
<1>. QED BY <1>1, <1>2, <1>3, PTL DEF Spec, NoSilentOverwrite
=============================================================================
