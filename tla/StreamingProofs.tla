-------------------------- MODULE StreamingProofs --------------------------
(***************************************************************************)
(* Theorems of Streaming, for all texts, agreement policies and numbers of *)
(* utterances: the ledger is what was typed, a released utterance is not   *)
(* typed into any more, and no transcript that reaches its delivery is     *)
(* dropped silently.                                                       *)
(***************************************************************************)
EXTENDS Streaming, SequenceTheorems, WellFoundedInduction, TLAPS

\* A stream thread that has not been told to end is that of the open recording;
\* one at the gate has a text to deliver, and no thread runs ahead of its press.
ThreadInv ==
    \A u \in Utterances :
        /\ thread[u] # "off" /\ ~stopEvent[u] /\ ~stopped => u = utt /\ phase = "recording"
        /\ thread[u] = "gate" => partial[u] \in Texts
        /\ u > utt => thread[u] = "off"

\* An utterance begins with nothing typed, decoded or failed.
FreshInv ==
    /\ phase = "idle" /\ ~stopped => ledger = <<>>
    /\ phase # "idle" => utt \in Utterances
    /\ phase \in {"recording", "decoding"} => final = <<>>
    /\ phase \in {"recording", "decoding", "delivering"} =>
           reason = "ok" /\ ~expected /\ ~needed

\* A delivery either brought the field in line or failed in a way that Finish sees.
Succeeded == final # <<>> /\ expected /\ ~needed /\ reason # "error"
DeliveredInv ==
    phase = "finishing" /\ ~stopped /\ Succeeded => doc = base \o final \/ raised

StreamInv == TypeOK /\ ThreadInv /\ FreshInv /\ LedgerIsField /\ DeliveredInv

-----------------------------------------------------------------------------
(* The field, as a sequence. *)

\* Retracting all but n pieces of the ledger leaves those n.
LEMMA RetractLeaves ==
    ASSUME NEW b \in Seq(Pieces), NEW l \in Seq(Pieces), NEW n \in 0..Len(l)
    PROVE  SubSeq(b \o l, 1, Len(b \o l) - (Len(l) - n)) = b \o SubSeq(l, 1, n)
<1> DEFINE s == SubSeq(b \o l, 1, Len(b \o l) - (Len(l) - n))
           t == b \o SubSeq(l, 1, n)
<1>1. /\ b \o l \in Seq(Pieces) /\ Len(b \o l) = Len(b) + Len(l)
      /\ Len(b) \in Nat /\ Len(l) \in Nat
      /\ \A i \in 1..Len(b) + Len(l) : (b \o l)[i] = IF i <= Len(b) THEN b[i] ELSE l[i - Len(b)]
  BY ConcatProperties, LenProperties
<1>2. /\ SubSeq(l, 1, n) \in Seq(Pieces) /\ Len(SubSeq(l, 1, n)) = n
      /\ \A i \in 1..n : SubSeq(l, 1, n)[i] = l[i]
  BY <1>1
<1>3. /\ t \in Seq(Pieces) /\ Len(t) = Len(b) + n
      /\ \A i \in 1..Len(b) + n : t[i] = IF i <= Len(b) THEN b[i] ELSE l[i - Len(b)]
  BY <1>1, <1>2, ConcatProperties
<1>4. /\ s \in Seq(Pieces) /\ Len(s) = Len(b) + n
      /\ \A i \in 1..Len(b) + n : s[i] = (b \o l)[i]
  BY SMTT(30), <1>1
<1>5. \A i \in 1..Len(s) : s[i] = t[i]
  BY <1>1, <1>3, <1>4
<1>. QED BY <1>3, <1>4, <1>5, SeqEqual

\* Concatenation is associative.
LEMMA Associates ==
    ASSUME NEW x \in Seq(Pieces), NEW y \in Seq(Pieces), NEW z \in Seq(Pieces)
    PROVE  (x \o y) \o z = x \o (y \o z)
<1> DEFINE s == (x \o y) \o z
           t == x \o (y \o z)
<1>1. Len(x) \in Nat /\ Len(y) \in Nat /\ Len(z) \in Nat
  BY LenProperties
<1>2. /\ x \o y \in Seq(Pieces) /\ Len(x \o y) = Len(x) + Len(y)
      /\ \A i \in 1..Len(x) + Len(y) : (x \o y)[i] = IF i <= Len(x) THEN x[i] ELSE y[i - Len(x)]
  BY ConcatProperties
<1>3. /\ y \o z \in Seq(Pieces) /\ Len(y \o z) = Len(y) + Len(z)
      /\ \A i \in 1..Len(y) + Len(z) : (y \o z)[i] = IF i <= Len(y) THEN y[i] ELSE z[i - Len(y)]
  BY ConcatProperties
<1>4. /\ s \in Seq(Pieces) /\ Len(s) = Len(x) + Len(y) + Len(z)
      /\ \A i \in 1..Len(s) :
             s[i] = IF i <= Len(x) + Len(y) THEN (x \o y)[i] ELSE z[i - (Len(x) + Len(y))]
  BY <1>1, <1>2, ConcatProperties
<1>5. /\ t \in Seq(Pieces) /\ Len(t) = Len(x) + Len(y) + Len(z)
      /\ \A i \in 1..Len(t) : t[i] = IF i <= Len(x) THEN x[i] ELSE (y \o z)[i - Len(x)]
  BY <1>1, <1>3, ConcatProperties
<1>6. \A i \in 1..Len(s) : s[i] = t[i]
  BY <1>1, <1>2, <1>3, <1>4, <1>5
<1>. QED BY <1>4, <1>5, <1>6, SeqEqual

\* A text is its prefix and the rest.
LEMMA PrefixAndRest ==
    ASSUME NEW l \in Seq(Pieces), NEW d \in Seq(Pieces), IsPrefix(l, d)
    PROVE  /\ SubSeq(d, Len(l) + 1, Len(d)) \in Seq(Pieces)
           /\ l \o SubSeq(d, Len(l) + 1, Len(d)) = d
<1>1. Len(l) \in Nat /\ Len(d) \in Nat /\ Len(l) <= Len(d)
  BY LenProperties DEF IsPrefix
<1>2. SubSeq(d, 1, Len(l)) = l
  BY SubSeqFull DEF IsPrefix
<1>3. SubSeq(d, 1, Len(l)) \o SubSeq(d, Len(l) + 1, Len(d)) = SubSeq(d, 1, Len(d))
  <2>1. 1 \in 1..Len(d) + 1 /\ Len(l) \in 1 - 1..Len(d) /\ Len(d) \in Len(l)..Len(d)
    BY <1>1
  <2>. QED BY <2>1, ConcatAdjacentSubSeq
<1>. QED BY <1>1, <1>2, <1>3, SubSeqFull

\* The three ways of a reconcile end in the same field.
LEMMA ExtendsTo ==
    ASSUME NEW b \in Seq(Pieces), NEW l \in Seq(Pieces), NEW d \in Seq(Pieces), IsPrefix(l, d)
    PROVE  (b \o l) \o SubSeq(d, Len(l) + 1, Len(d)) = b \o d
<1> DEFINE rest == SubSeq(d, Len(l) + 1, Len(d))
<1>1. rest \in Seq(Pieces) /\ l \o rest = d
  BY PrefixAndRest
<1> HIDE DEF rest
<1>2. (b \o l) \o rest = b \o (l \o rest)
  BY ZenonT(30), <1>1, Associates
<1>. QED BY <1>1, <1>2 DEF rest

LEMMA ShortensTo ==
    ASSUME NEW b \in Seq(Pieces), NEW l \in Seq(Pieces), NEW d \in Seq(Pieces), IsPrefix(d, l)
    PROVE  SubSeq(b \o l, 1, Len(b \o l) - (Len(l) - Len(d))) = b \o d
<1>1. Len(d) \in 0..Len(l) /\ SubSeq(l, 1, Len(d)) = d
  BY LenProperties, SubSeqFull DEF IsPrefix
<1>. QED BY ZenonT(30), <1>1, RetractLeaves

LEMMA RetractsAll ==
    ASSUME NEW b \in Seq(Pieces), NEW l \in Seq(Pieces)
    PROVE  SubSeq(b \o l, 1, Len(b \o l) - Len(l)) = b
<1>1. 0 \in 0..Len(l) /\ SubSeq(l, 1, 0) = <<>> /\ Len(l) - 0 = Len(l)
  BY LenProperties, SubSeqEmpty
<1>2. SubSeq(b \o l, 1, Len(b \o l) - (Len(l) - 0)) = b \o <<>>
  BY <1>1, RetractLeaves
<1>. QED BY <1>1, <1>2, ConcatEmptySeq

\* Any retraction leaves a text.
LEMMA RetractTypes ==
    ASSUME NEW s \in Seq(Pieces), NEW n \in Nat
    PROVE  SubSeq(s, 1, Len(s) - n) \in Seq(Pieces)
BY LenProperties, SubSeqProperties

-----------------------------------------------------------------------------
(* The committer. *)

\* A nonempty set of numbers up to n has a greatest one.
LEMMA GreatestNumber ==
    ASSUME NEW n \in Nat, NEW T \in SUBSET (0..n), T # {}
    PROVE  \E m \in T : \A k \in T : k <= m
<1> DEFINE gaps == {n - k : k \in T}
<1>1. gaps \subseteq Nat /\ gaps # {}
  <2>1. \A k \in T : n - k \in Nat
    OBVIOUS
  <2>2. PICK k \in T : TRUE
    OBVIOUS
  <2>3. n - k \in gaps
    OBVIOUS
  <2>. QED BY <2>1, <2>3
<1>2. PICK g \in gaps : \A x \in gaps : <<x, g>> \notin OpToRel(<, Nat)
  BY <1>1, NatLessThanWellFounded, WFMin
<1>3. \A x \in gaps : ~(x < g)
  BY <1>1, <1>2 DEF OpToRel
<1>4. n - g \in T /\ \A k \in T : k <= n - g
  BY <1>1, <1>3
<1>. QED BY <1>4

\* Passes agree on no more than the shortest of them has.
LEMMA AgreedBounds ==
    ASSUME NEW h \in Seq(Texts), Len(h) > 0
    PROVE  Agreed(h) \in Nat /\ \A i \in 1..Len(h) : Agreed(h) <= Len(h[i])
<1> DEFINE common(n) == \A i \in 1..Len(h) : Len(h[i]) >= n /\ SubSeq(h[i], 1, n) = SubSeq(h[1], 1, n)
           N == {n \in 0..Len(h[1]) : common(n)}
<1>1. h[1] \in Texts /\ \A i \in 1..Len(h) : h[i] \in Seq(Pieces) /\ Len(h[i]) \in Nat
  BY StreamingAssumption, LenProperties, ElementOfSeq
<1>2. 0 \in N
  <2>1. \A i \in 1..Len(h) : SubSeq(h[i], 1, 0) = <<>>
    BY SubSeqEmpty
  <2>. QED BY <1>1, <2>1
<1>3. PICK m \in N : \A k \in N : k <= m
  <2>1. N \in SUBSET (0..Len(h[1])) /\ N # {} /\ Len(h[1]) \in Nat
    BY SMTT(30), <1>1, <1>2
  <2> HIDE DEF N
  <2>. QED BY <2>1, GreatestNumber
<1>4. common(m) /\ ~(m < Len(h[1]) /\ common(m + 1))
  BY <1>1, <1>3
<1>5. Agreed(h) \in 0..Len(h[1]) /\ common(Agreed(h))
  BY <1>1, <1>3, <1>4 DEF Agreed
<1>. QED BY <1>1, <1>5

\* The window ends with the last pass and never has more than Passes of them.
LEMMA WindowTypes ==
    ASSUME NEW h \in Seq(Texts), Len(h) <= Passes, NEW t \in Texts
    PROVE  /\ Window(h, t) \in Seq(Texts) /\ Len(Window(h, t)) \in 1..Passes
           /\ Last(Window(h, t)) = t
<1> DEFINE h2 == Append(h, t)
<1>1. /\ h2 \in Seq(Texts) /\ Len(h2) = Len(h) + 1 /\ h2[Len(h2)] = t /\ Len(h) \in Nat
  BY AppendProperties, LenProperties
<1>2. CASE Len(h2) <= Passes
  BY <1>1, <1>2, StreamingAssumption DEF Window, Last
<1>3. CASE Len(h2) > Passes
  <2>1. Len(h2) = Passes + 1 /\ Len(h2) - Passes + 1 = 2
    BY <1>1, <1>3, StreamingAssumption
  <2>4. Window(h, t) = SubSeq(h2, 2, Len(h2))
    BY <1>3, <2>1 DEF Window, LastOf
  <2>2. \A i \in 2..Len(h2) : h2[i] \in Texts
    BY <1>1, ElementOfSeq
  <2>3. /\ SubSeq(h2, 2, Len(h2)) \in Seq(Texts) /\ Len(SubSeq(h2, 2, Len(h2))) = Passes
        /\ SubSeq(h2, 2, Len(h2))[Passes] = t
    BY <1>1, <2>1, <2>2, SubSeqProperties, StreamingAssumption
  <2>. QED BY <2>4, <2>3, StreamingAssumption DEF Last
<1>. QED BY <1>1, <1>2, <1>3, StreamingAssumption

\* What is committed only grows, and is never more than the last pass has.
LEMMA CommitBounds ==
    ASSUME NEW h \in Seq(Texts), Len(h) > 0, NEW n \in Nat
    PROVE  /\ Commit(h, n) \in Nat /\ Commit(h, n) >= n
           /\ Commit(h, n) # n => Commit(h, n) <= Len(Last(h))
<1>1. Len(h) \in 1..Len(h) /\ Last(h) \in Seq(Pieces) /\ Len(Last(h)) \in Nat
  BY StreamingAssumption, LenProperties, ElementOfSeq DEF Last
<1>2. Agreed(h) \in Nat /\ Agreed(h) <= Len(Last(h))
  BY <1>1, AgreedBounds DEF Last
<1>. QED BY <1>1, <1>2 DEF Commit

\* The words that a pass delivers are words of that pass.
LEMMA DeltaTypes ==
    ASSUME NEW t \in Seq(Pieces), NEW a \in Nat, NEW b \in Nat, b <= Len(t)
    PROVE  SubSeq(t, a + 1, b) \in Seq(Pieces)
<1>1. \A i \in a + 1..b : t[i] \in Pieces
  BY LenProperties, ElementOfSeq
<1>. QED BY <1>1, SubSeqProperties

-----------------------------------------------------------------------------
(* The injector. *)

\* A call, or several, that end well, or raise and leave the ledger alone.
LEMMA TypesEffect ==
    ASSUME NEW steps \in Seq(Seq(Pieces)), steps # <<>>, NEW now, Types(steps, now),
           doc \in Seq(Pieces), raised \in BOOLEAN
    PROVE  /\ doc' \in Seq(Pieces) /\ raised' \in BOOLEAN
           /\ \/ doc' = Last(steps) /\ ledger' = now /\ raised' = raised
              \/ ledger' = ledger /\ raised'
<1>1. Len(steps) \in 1..Len(steps) /\ Last(steps) \in Seq(Pieces)
  BY LenProperties, ElementOfSeq DEF Last
<1>2. Range(<<doc>> \o steps) \subseteq Seq(Pieces)
  <2>1. <<doc>> \in Seq(Seq(Pieces))
    OBVIOUS
  <2>2. <<doc>> \o steps \in Seq(Seq(Pieces))
    BY <2>1, ConcatProperties
  <2>. QED BY <2>2, LenProperties, ElementOfSeq DEF Range
<1>. QED BY <1>1, <1>2 DEF Types

LEMMA ReconcileEffect ==
    ASSUME TypeOK, NEW d \in Seq(Pieces), Reconcile(d)
    PROVE  /\ doc' \in Seq(Pieces) /\ raised' \in BOOLEAN
           /\ \/ /\ ledger' = d /\ raised' = raised
                 /\ doc = base \o ledger => doc' = base \o d
              \/ ledger' = ledger /\ raised'
<1> DEFINE rest == SubSeq(d, Len(ledger) + 1, Len(d))
<1>. doc \in Seq(Pieces) /\ base \in Seq(Pieces) /\ ledger \in Seq(Pieces) /\ raised \in BOOLEAN
  BY DEF TypeOK
<1>. Len(ledger) \in Nat /\ Len(d) \in Nat /\ Len(doc) \in Nat
  BY LenProperties
<1>1. CASE IsPrefix(ledger, d)
  <2>1. rest \in Seq(Pieces) /\ doc \o rest \in Seq(Pieces)
    BY <1>1, PrefixAndRest, ConcatProperties
  <2>2. <<doc \o rest>> \in Seq(Seq(Pieces)) /\ <<doc \o rest>> # <<>>
        /\ Last(<<doc \o rest>>) = doc \o rest
    BY SMTT(30), <2>1 DEF Last
  <2>3. Types(<<doc \o rest>>, d)
    BY <1>1 DEF Reconcile
  <2>4. doc = base \o ledger => doc \o rest = base \o d
    <3>1. (base \o ledger) \o rest = base \o d
      BY <1>1, ExtendsTo
    <3>. QED BY <3>1
  <2>. QED BY <2>2, <2>3, <2>4, TypesEffect
<1>2. CASE ~IsPrefix(ledger, d) /\ IsPrefix(d, ledger)
  <2> DEFINE now == Without(Len(ledger) - Len(d))
  <2>1. Len(ledger) - Len(d) \in Nat
    BY <1>2 DEF IsPrefix
  <2>2. now \in Seq(Pieces)
    BY <2>1, RetractTypes DEF Without
  <2>3. <<now>> \in Seq(Seq(Pieces)) /\ <<now>> # <<>> /\ Last(<<now>>) = now
    BY <2>2 DEF Last
  <2>4. Types(<<now>>, d)
    BY <1>2 DEF Reconcile
  <2>5. doc = base \o ledger => now = base \o d
    <3>1. SubSeq(base \o ledger, 1, Len(base \o ledger) - (Len(ledger) - Len(d))) = base \o d
      BY <1>2, ShortensTo
    <3>. QED BY <3>1 DEF Without
  <2>. QED BY <2>3, <2>4, <2>5, TypesEffect
<1>3. CASE ~IsPrefix(ledger, d) /\ ~IsPrefix(d, ledger)
  <2> DEFINE bare == Without(Len(ledger))
  <2>1. bare \in Seq(Pieces) /\ bare \o d \in Seq(Pieces)
    BY RetractTypes, ConcatProperties DEF Without
  <2>2. <<bare, bare \o d>> \in Seq(Seq(Pieces)) /\ <<bare, bare \o d>> # <<>>
        /\ Last(<<bare, bare \o d>>) = bare \o d
    BY <2>1 DEF Last
  <2>3. Types(<<bare, bare \o d>>, d)
    BY <1>3 DEF Reconcile
  <2>4. doc = base \o ledger => bare = base
    BY RetractsAll DEF Without
  <2>. QED BY <2>2, <2>3, <2>4, TypesEffect
<1>. QED BY <1>1, <1>2, <1>3

\* A pass that delivers keeps the ledger equal to what it types.
LEMMA InjectDeltaEffect ==
    ASSUME TypeOK, NEW delta \in Seq(Pieces), InjectDelta(delta)
    PROVE  /\ doc' \in Seq(Pieces) /\ ledger' \in Seq(Pieces) /\ raised' \in BOOLEAN
           /\ ~raised' => ~raised /\ (doc = base \o ledger => doc' = base \o ledger')
<1>. doc \in Seq(Pieces) /\ base \in Seq(Pieces) /\ ledger \in Seq(Pieces) /\ raised \in BOOLEAN
  BY DEF TypeOK
<1>1. doc \o delta \in Seq(Pieces) /\ ledger \o delta \in Seq(Pieces)
  BY ConcatProperties
<1>2. <<doc \o delta>> \in Seq(Seq(Pieces)) /\ <<doc \o delta>> # <<>>
      /\ Last(<<doc \o delta>>) = doc \o delta
  BY <1>1 DEF Last
<1>3. doc = base \o ledger => doc \o delta = base \o (ledger \o delta)
  BY Associates
<1>4. CASE Types(<<doc \o delta>>, ledger \o delta)
  BY <1>1, <1>2, <1>3, <1>4, TypesEffect
<1>5. CASE UNCHANGED <<doc, ledger, raised>>
  BY <1>5
<1>. QED BY <1>4, <1>5 DEF InjectDelta

-----------------------------------------------------------------------------
(* The invariant. *)

LEMMA InitStream == Init => StreamInv
<1> SUFFICES ASSUME Init PROVE StreamInv
  OBVIOUS
<1>1. TypeOK
  <2>1. /\ partial \in [Utterances -> Texts \cup {<<>>}] /\ committed \in [Utterances -> Nat]
        /\ history \in [Utterances -> Seq(Texts)]
        /\ \A u \in Utterances : history[u] = <<>>
    BY DEF Init
  <2>2. Passes \in Nat /\ utt \in 0..MaxUtterances
    BY StreamingAssumption DEF Init
  <2>3. \A u \in Utterances : Len(history[u]) <= Passes
    BY <2>1, <2>2
  <2>4. /\ doc \in Seq(Pieces) /\ base \in Seq(Pieces) /\ ledger \in Seq(Pieces)
        /\ lastInjected \in Seq(Pieces)
    BY DEF Init
  <2>5. {expected, needed, refused, stopped, raised} \subseteq BOOLEAN
    BY DEF Init
  <2>. QED BY <2>1, <2>2, <2>3, <2>4, <2>5 DEF Init, TypeOK
<1>2. ThreadInv /\ FreshInv /\ DeliveredInv
  BY DEF Init, ThreadInv, FreshInv, DeliveredInv, Succeeded
<1>3. LedgerIsField
  BY DEF Init, LedgerIsField
<1>. QED BY <1>1, <1>2, <1>3 DEF StreamInv

\* The undo ledger stays a text.
LEMMA UndoableTypes ==
    ASSUME TypeOK, NEW typed \in Seq(Pieces)
    PROVE  Undoable(typed) \in Seq(Pieces)
BY DEF TypeOK, Undoable

\* What a delivery leaves behind.
LEMMA DeliverEffect ==
    ASSUME StreamInv, Deliver
    PROVE  /\ doc' \in Seq(Pieces) /\ ledger' \in Seq(Pieces) /\ lastInjected' \in Seq(Pieces)
           /\ reason' \in {"ok", "focus_changed", "error"} /\ raised' \in BOOLEAN
           /\ expected' \in BOOLEAN /\ needed' \in BOOLEAN
           /\ ~stopped /\ final # <<>> /\ expected' /\ ~needed' /\ reason' # "error" =>
                  doc' = base \o final \/ raised'
<1>. /\ doc \in Seq(Pieces) /\ ledger \in Seq(Pieces) /\ lastInjected \in Seq(Pieces)
     /\ raised \in BOOLEAN /\ reason = "ok" /\ expected = FALSE /\ needed = FALSE
  BY DEF StreamInv, TypeOK, FreshInv, Deliver
<1>1. final \in Seq(Pieces)
  <2>1. Finals \subseteq Seq(Pieces) /\ <<>> \in Seq(Pieces)
    BY StreamingAssumption
  <2>. QED BY <2>1 DEF StreamInv, TypeOK
<1>2. doc = base \o ledger \/ raised
  BY DEF StreamInv, LedgerIsField, Deliver
<1>6. Undoable(ledger) \in Seq(Pieces) /\ Undoable(final) \in Seq(Pieces)
  BY <1>1, UndoableTypes DEF StreamInv
<1>3. CASE Cancelled
  BY <1>3 DEF Deliver, Cancelled, fieldVars, resultVars
<1>4. CASE ~Cancelled /\ expected' = (final # <<>>) /\ SetAside
  <2>1. /\ doc' = doc /\ ledger' = ledger /\ raised' = raised /\ lastInjected' = Undoable(ledger)
        /\ needed' = (final # <<>>) /\ reason' \in {"ok", "focus_changed", "error"}
    BY <1>4 DEF SetAside, OverlayRaises
  <2>. QED BY <1>4, <1>6, <2>1
<1>5. CASE ~Cancelled /\ expected' = (final # <<>>) /\ BringInLine
  <2>1. /\ doc' \in Seq(Pieces) /\ raised' \in BOOLEAN /\ ledger' \in Seq(Pieces)
        /\ ledger' = final => doc' = base \o final \/ raised'
    <3>1. CASE final = ledger
      BY <1>2, <1>5, <3>1 DEF BringInLine
    <3>2. CASE final # ledger
      <4>1. Reconcile(final)
        BY <1>5, <3>2 DEF BringInLine
      <4>2. /\ doc' \in Seq(Pieces) /\ raised' \in BOOLEAN
            /\ \/ /\ ledger' = final /\ raised' = raised
                  /\ doc = base \o ledger => doc' = base \o final
               \/ ledger' = ledger /\ raised'
        BY <1>1, <4>1, ReconcileEffect DEF StreamInv
      <4>. QED BY <1>1, <1>2, <4>2
    <3>. QED BY <3>1, <3>2
  <2>2. /\ reason' \in {"ok", "focus_changed", "error"} /\ needed' = needed
        /\ lastInjected' \in {Undoable(final), lastInjected}
        /\ reason' # "error" => ledger' = final
    BY <1>5 DEF BringInLine, OverlayRaises
  <2>. QED BY <1>5, <1>6, <2>1, <2>2
<1>. QED BY <1>3, <1>4, <1>5 DEF Deliver

\* What a stream thread types, and when.
LEMMA LoopEffect ==
    ASSUME StreamInv, NEW u \in Utterances, LoopDelivers(u)
    PROVE  /\ thread' \in [Utterances -> {"off", "listening", "gate"}]
           /\ thread'[u] \in {"off", "listening"} /\ \A v \in Utterances \ {u} : thread'[v] = thread[v]
           /\ partial' \in [Utterances -> Texts \cup {<<>>}] /\ committed' \in [Utterances -> Nat]
           /\ history' \in [Utterances -> Seq(Texts)] /\ \A v \in Utterances : Len(history'[v]) <= Passes
           /\ doc' \in Seq(Pieces) /\ ledger' \in Seq(Pieces) /\ raised' \in BOOLEAN
           /\ UNCHANGED fieldVars \/ (u = utt /\ phase = "recording" /\ ~stopped)
           /\ thread'[u] # "off" => ~stopEvent[u] /\ ~stopped
           /\ ~raised' => ~raised /\ (doc = base \o ledger => doc' = base \o ledger')
<1>. /\ thread \in [Utterances -> {"off", "listening", "gate"}]
     /\ partial \in [Utterances -> Texts \cup {<<>>}] /\ committed \in [Utterances -> Nat]
     /\ history \in [Utterances -> Seq(Texts)] /\ \A v \in Utterances : Len(history[v]) <= Passes
     /\ doc \in Seq(Pieces) /\ ledger \in Seq(Pieces) /\ raised \in BOOLEAN
     /\ Passes \in Nat
  BY StreamingAssumption DEF StreamInv, TypeOK
<1>1. CASE MustEnd(u) /\ EndThread(u) /\ UNCHANGED fieldVars
  BY <1>1 DEF EndThread, fieldVars
<1>2. CASE ~(MustEnd(u) /\ EndThread(u) /\ UNCHANGED fieldVars)
  <2>1. /\ ~MustEnd(u) /\ thread[u] = "gate"
        /\ thread' = [thread EXCEPT ![u] = "listening"]
        /\ history' = [history EXCEPT ![u] = Window(@, partial[u])]
        /\ committed' = [committed EXCEPT ![u] = Commit(history'[u], @)]
        /\ partial' = [partial EXCEPT ![u] = <<>>]
        /\ IF committed'[u] = committed[u] THEN UNCHANGED fieldVars
           ELSE InjectDelta(SubSeq(partial[u], committed[u] + 1, committed'[u]))
    BY <1>2 DEF LoopDelivers
  <2>2. u = utt /\ phase = "recording" /\ ~stopped /\ ~stopEvent[u]
    BY <2>1 DEF MustEnd, Cancelled, StreamInv, ThreadInv
  <2>3. partial[u] \in Texts
    BY <2>1 DEF StreamInv, ThreadInv
  <2>4. /\ history'[u] \in Seq(Texts) /\ Len(history'[u]) \in 1..Passes
        /\ Last(history'[u]) = partial[u]
    BY <2>1, <2>3, WindowTypes
  <2>5. /\ committed'[u] \in Nat
        /\ committed'[u] # committed[u] => committed'[u] <= Len(partial[u])
    <3>1. committed'[u] = Commit(history'[u], committed[u]) /\ committed[u] \in Nat
      BY <2>1
    <3>2. Len(history'[u]) > 0 /\ history'[u] \in Seq(Texts)
      BY <2>4
    <3>. QED BY <2>4, <3>1, <3>2, CommitBounds
  <2>6. /\ doc' \in Seq(Pieces) /\ ledger' \in Seq(Pieces) /\ raised' \in BOOLEAN
        /\ ~raised' => ~raised /\ (doc = base \o ledger => doc' = base \o ledger')
    <3>1. CASE committed'[u] = committed[u]
      BY <2>1, <3>1 DEF fieldVars
    <3>2. CASE committed'[u] # committed[u]
      <4>1. SubSeq(partial[u], committed[u] + 1, committed'[u]) \in Seq(Pieces)
        BY <2>3, <2>5, <3>2, DeltaTypes, StreamingAssumption
      <4>. QED BY <2>1, <3>2, <4>1, InjectDeltaEffect DEF StreamInv
    <3>. QED BY <3>1, <3>2
  <2>. QED BY SMTT(30), <2>1, <2>2, <2>4, <2>5, <2>6
<1>. QED BY <1>1, <1>2

LEMMA NextStream == StreamInv /\ [Next]_vars => StreamInv'
<1> SUFFICES ASSUME StreamInv, [Next]_vars PROVE StreamInv'
  OBVIOUS
<1> USE DEF StreamInv, resultVars, keptVars
<1>. <<>> \in Seq(Pieces) /\ MaxUtterances \in Nat /\ Utterances = 1..MaxUtterances
  BY StreamingAssumption DEF Utterances
<1>1. CASE Press
  <2>1. utt' \in Utterances /\ utt \in Int
    BY <1>1 DEF Press, TypeOK
  <2>2. TypeOK'
    <3>1. thread' \in [Utterances -> {"off", "listening", "gate"}]
      BY <1>1, <2>1 DEF Press, TypeOK
    <3>2. base' \in Seq(Pieces) /\ utt' \in 0..MaxUtterances
      BY <1>1, <2>1 DEF Press, TypeOK
    <3>. QED BY <1>1, <3>1, <3>2 DEF Press, TypeOK
  <2>3. ThreadInv'
    BY <1>1, <2>1 DEF Press, ThreadInv, TypeOK
  <2>4. FreshInv' /\ DeliveredInv'
    BY <1>1, <2>1 DEF Press, FreshInv, DeliveredInv, Succeeded
  <2>5. LedgerIsField'
    <3>1. ledger' = <<>> /\ doc' = doc /\ base' = doc /\ doc \in Seq(Pieces)
      BY <1>1 DEF Press, FreshInv, TypeOK
    <3>2. doc \o <<>> = doc
      BY <3>1, ConcatEmptySeq
    <3>. QED BY <3>1, <3>2 DEF LedgerIsField
  <2>. QED BY <2>2, <2>3, <2>4, <2>5
<1>2. CASE Release
  <2>1. utt \in Utterances
    BY <1>2 DEF Release, FreshInv
  <2>2. TypeOK'
    <3>1. \A u \in Utterances : history'[u] = history[u] \/ history'[u] = <<>>
      BY <1>2 DEF Release, TypeOK
    <3>2. /\ history' \in [Utterances -> Seq(Texts)] /\ committed' \in [Utterances -> Nat]
          /\ stopEvent' \in [Utterances -> BOOLEAN]
      BY <1>2, <2>1 DEF Release, TypeOK
    <3>3. \A u \in Utterances : Len(history'[u]) <= Passes
      BY SMTT(30), <3>1, StreamingAssumption DEF TypeOK
    <3>. QED BY <1>2, <3>2, <3>3 DEF Release, TypeOK, fieldVars
  <2>3. ThreadInv'
    BY <1>2, <2>1 DEF Release, ThreadInv, TypeOK
  <2>4. FreshInv' /\ DeliveredInv' /\ LedgerIsField'
    BY <1>2 DEF Release, FreshInv, DeliveredInv, Succeeded, LedgerIsField, fieldVars
  <2>. QED BY <2>2, <2>3, <2>4
<1>3. CASE DecodeFinal
  <2>1. TypeOK'
    BY <1>3 DEF DecodeFinal, TypeOK, threadVars, fieldVars
  <2>2. ThreadInv'
    BY <1>3 DEF DecodeFinal, ThreadInv, threadVars
  <2>3. FreshInv' /\ DeliveredInv' /\ LedgerIsField'
    BY <1>3 DEF DecodeFinal, Cancelled, FreshInv, DeliveredInv, Succeeded, LedgerIsField, fieldVars
  <2>. QED BY <2>1, <2>2, <2>3
<1>4. CASE DecodeNothing
  <2>1. TypeOK'
    BY <1>4 DEF DecodeNothing, TypeOK, threadVars, fieldVars
  <2>2. ThreadInv'
    BY <1>4 DEF DecodeNothing, ThreadInv, threadVars
  <2>3. FreshInv' /\ DeliveredInv' /\ LedgerIsField'
    BY <1>4 DEF DecodeNothing, FreshInv, DeliveredInv, Succeeded, LedgerIsField, fieldVars
  <2>. QED BY <2>1, <2>2, <2>3
<1>5. CASE Deliver
  <2>1. /\ doc' \in Seq(Pieces) /\ ledger' \in Seq(Pieces) /\ lastInjected' \in Seq(Pieces)
        /\ reason' \in {"ok", "focus_changed", "error"} /\ raised' \in BOOLEAN
        /\ expected' \in BOOLEAN /\ needed' \in BOOLEAN
        /\ ~stopped /\ final # <<>> /\ expected' /\ ~needed' /\ reason' # "error" =>
               doc' = base \o final \/ raised'
    BY <1>5, DeliverEffect
  <2>2. /\ phase = "delivering" /\ phase' = "finishing"
        /\ UNCHANGED <<utt, threadVars, final, keptVars, stopped, base>>
    BY <1>5 DEF Deliver
  <2>3. TypeOK'
    BY <2>1, <2>2 DEF TypeOK, threadVars
  <2>4. ThreadInv'
    BY <2>2 DEF ThreadInv, threadVars
  <2>5. FreshInv' /\ DeliveredInv' /\ LedgerIsField'
    BY <2>1, <2>2 DEF FreshInv, DeliveredInv, Succeeded, LedgerIsField
  <2>. QED BY <2>3, <2>4, <2>5
<1>6. CASE Finish
  <2>1. TypeOK'
    BY <1>6 DEF Finish, RecordsFailedResult, TypeOK, threadVars
  <2>2. ThreadInv'
    BY <1>6 DEF Finish, ThreadInv, threadVars
  <2>3. FreshInv' /\ DeliveredInv' /\ LedgerIsField'
    BY <1>6 DEF Finish, FreshInv, DeliveredInv, Succeeded, LedgerIsField
  <2>. QED BY <2>1, <2>2, <2>3
<1>7. ASSUME NEW t \in Finals, Dictate(t) PROVE StreamInv'
  <2>1. t \in Seq(Pieces)
    BY StreamingAssumption
  <2>2. doc' \in {doc, doc \o t} /\ lastInjected' \in {lastInjected, t}
    BY <1>7 DEF Dictate
  <2>3. doc' \in Seq(Pieces) /\ lastInjected' \in Seq(Pieces)
    <3>1. doc \in Seq(Pieces) /\ lastInjected \in Seq(Pieces)
      BY DEF TypeOK
    <3>2. doc \o t \in Seq(Pieces)
      BY <2>1, <3>1, ConcatProperties
    <3>. QED BY <2>1, <2>2, <3>1, <3>2
  <2>4. TypeOK'
    BY <1>7, <2>3 DEF Dictate, ForgetsUtterance, TypeOK, threadVars
  <2>5. ThreadInv'
    BY <1>7 DEF Dictate, ThreadInv, threadVars
  <2>6. FreshInv' /\ DeliveredInv' /\ LedgerIsField'
    BY <1>7 DEF Dictate, FreshInv, DeliveredInv, Succeeded, LedgerIsField
  <2>. QED BY <2>4, <2>5, <2>6
<1>8. CASE UndoLast
  <2>1. doc' \in Seq(Pieces)
    <3>1. Len(lastInjected) \in Nat /\ doc \in Seq(Pieces)
      BY LenProperties DEF TypeOK
    <3>. QED BY <1>8, <3>1, RetractTypes DEF UndoLast, Without
  <2>2. lastInjected' \in {lastInjected, <<>>}
    BY <1>8 DEF UndoLast
  <2>3. lastInjected' \in Seq(Pieces)
    BY <2>2 DEF TypeOK
  <2>4. TypeOK'
    BY <1>8, <2>1, <2>3 DEF UndoLast, ForgetsUtterance, TypeOK, threadVars
  <2>5. ThreadInv'
    BY <1>8 DEF UndoLast, ThreadInv, threadVars
  <2>6. FreshInv' /\ DeliveredInv' /\ LedgerIsField'
    BY <1>8 DEF UndoLast, FreshInv, DeliveredInv, Succeeded, LedgerIsField
  <2>. QED BY <2>4, <2>5, <2>6
<1>9. ASSUME NEW u \in Utterances, LoopPass(u) PROVE StreamInv'
  <2>1. /\ thread' \in [Utterances -> {"off", "listening", "gate"}]
        /\ partial' \in [Utterances -> Texts \cup {<<>>}] /\ committed' \in [Utterances -> Nat]
        /\ history' \in [Utterances -> Seq(Texts)]
        /\ \A v \in Utterances : history'[v] = history[v] \/ history'[v] = <<>>
        /\ UNCHANGED stopEvent
        /\ \A v \in Utterances \ {u} : thread'[v] = thread[v] /\ partial'[v] = partial[v]
        /\ \/ thread'[u] = "off"
           \/ thread[u] # "off" /\ thread'[u] = "gate" /\ partial'[u] \in Texts
    <3>1. CASE MustEnd(u) /\ EndThread(u)
      BY <3>1 DEF EndThread, TypeOK
    <3>2. CASE ~(MustEnd(u) /\ EndThread(u))
      BY ZenonT(30), <1>9, <3>2 DEF LoopPass, TypeOK
    <3>. QED BY <3>1, <3>2
  <2>2. \A v \in Utterances : Len(history'[v]) <= Passes
    BY <2>1, StreamingAssumption DEF TypeOK
  <2>3. UNCHANGED <<phase, utt, fieldVars, lastInjected, final, resultVars, keptVars, stopped, base>>
    BY <1>9 DEF LoopPass
  <2>4. TypeOK'
    BY <2>1, <2>2, <2>3 DEF TypeOK, fieldVars
  <2>5. ThreadInv'
    BY <2>1, <2>3 DEF ThreadInv
  <2>6. FreshInv' /\ DeliveredInv' /\ LedgerIsField'
    BY <2>3 DEF FreshInv, DeliveredInv, Succeeded, LedgerIsField, fieldVars
  <2>. QED BY <2>4, <2>5, <2>6
<1>10. ASSUME NEW u \in Utterances, LoopDelivers(u) PROVE StreamInv'
  <2>1. /\ thread' \in [Utterances -> {"off", "listening", "gate"}]
        /\ thread'[u] \in {"off", "listening"} /\ \A v \in Utterances \ {u} : thread'[v] = thread[v]
        /\ partial' \in [Utterances -> Texts \cup {<<>>}] /\ committed' \in [Utterances -> Nat]
        /\ history' \in [Utterances -> Seq(Texts)] /\ \A v \in Utterances : Len(history'[v]) <= Passes
        /\ doc' \in Seq(Pieces) /\ ledger' \in Seq(Pieces) /\ raised' \in BOOLEAN
        /\ UNCHANGED fieldVars \/ (u = utt /\ phase = "recording" /\ ~stopped)
        /\ thread'[u] # "off" => ~stopEvent[u] /\ ~stopped
        /\ ~raised' => ~raised /\ (doc = base \o ledger => doc' = base \o ledger')
    BY <1>10, LoopEffect
  <2>2. /\ UNCHANGED <<phase, utt, lastInjected, final, resultVars, keptVars, stopped, base>>
        /\ UNCHANGED stopEvent
        /\ \A v \in Utterances \ {u} : partial'[v] = partial[v]
        /\ thread[u] = "gate"
    BY <1>10 DEF LoopDelivers, EndThread, TypeOK
  <2>3. TypeOK'
    BY <2>1, <2>2 DEF TypeOK
  <2>4. ThreadInv'
    BY <2>1, <2>2 DEF ThreadInv
  <2>5. FreshInv'
    BY <2>1, <2>2 DEF FreshInv, fieldVars
  <2>6. DeliveredInv'
    BY <2>1, <2>2 DEF DeliveredInv, Succeeded, fieldVars
  <2>7. LedgerIsField'
    BY <2>1, <2>2 DEF LedgerIsField
  <2>. QED BY <2>3, <2>4, <2>5, <2>6, <2>7
<1>11. CASE Stop
  <2>1. TypeOK'
    BY <1>11 DEF Stop, TypeOK, fieldVars
  <2>2. ThreadInv'
    BY <1>11 DEF Stop, ThreadInv
  <2>3. FreshInv' /\ DeliveredInv' /\ LedgerIsField'
    BY <1>11 DEF Stop, FreshInv, DeliveredInv, Succeeded, LedgerIsField, fieldVars
  <2>. QED BY <2>1, <2>2, <2>3
<1>12. CASE UNCHANGED vars
  <2>1. TypeOK'
    BY <1>12 DEF vars, TypeOK
  <2>2. (ThreadInv /\ FreshInv /\ DeliveredInv /\ LedgerIsField)'
    BY <1>12 DEF vars, ThreadInv, FreshInv, DeliveredInv, Succeeded, LedgerIsField
  <2>. QED BY <2>1, <2>2
<1>13. CASE PolishRaises
  <2>1. TypeOK'
    BY <1>13 DEF PolishRaises, TypeOK, threadVars, fieldVars
  <2>2. ThreadInv'
    BY <1>13 DEF PolishRaises, ThreadInv, threadVars
  <2>3. FreshInv' /\ DeliveredInv' /\ LedgerIsField'
    BY <1>13 DEF PolishRaises, FreshInv, DeliveredInv, Succeeded, LedgerIsField, fieldVars
  <2>. QED BY <2>1, <2>2, <2>3
<1>. QED
  BY <1>1, <1>2, <1>3, <1>4, <1>5, <1>6, <1>7, <1>8, <1>9, <1>10, <1>11, <1>12, <1>13
  DEF Next, WorkerNext, LoopNext

LEMMA StreamHolds == Spec => []StreamInv
<1>. QED BY InitStream, NextStream, PTL DEF Spec

-----------------------------------------------------------------------------
(* Theorems. *)

\* Every variable keeps its type, for any texts and policy; a committer never
\* holds more passes than the agreement needs.
THEOREM TypeCorrect == Spec => []TypeOK
<1>1. StreamInv => TypeOK
  BY DEF StreamInv
<1>. QED BY StreamHolds, <1>1, PTL

\* While an utterance is open and no call has raised, the ledger is what it has
\* typed: whatever pass, late pass and delivery interleave, a retraction of
\* Len(ledger) pieces takes the words of this utterance and nothing else.
THEOREM LedgerStaysField == Spec => []LedgerIsField
<1>1. StreamInv => LedgerIsField
  BY DEF StreamInv
<1>. QED BY StreamHolds, <1>1, PTL

\* A stream thread that outlives its join types nothing more.
THEOREM LateStaySilent == Spec => LatePassesAreSilent
<1>1. StreamInv /\ [Next]_vars =>
          [\A u \in Utterances :
              thread[u] = "gate" /\ thread'[u] # "gate" /\ fieldVars' # fieldVars
                  => u = utt /\ phase = "recording"]_vars
  <2> SUFFICES ASSUME StreamInv, Next,
                      NEW u \in Utterances,
                      thread[u] = "gate", thread'[u] # "gate", fieldVars' # fieldVars
               PROVE  u = utt /\ phase = "recording"
    BY DEF vars, fieldVars
  <2>1. CASE Press
    <3>1. utt' # u
      <4>1. ~(u > utt) /\ utt \in Int
        BY DEF StreamInv, ThreadInv, TypeOK
      <4>. QED BY <2>1, <4>1 DEF Press
    <3>. QED BY <2>1, <3>1 DEF Press, StreamInv, TypeOK
  <2>2. CASE Release \/ DecodeFinal \/ DecodeNothing \/ PolishRaises \/ Deliver \/ Finish \/ UndoLast \/ Stop
    BY <2>2 DEF Release, DecodeFinal, DecodeNothing, PolishRaises, Deliver, Finish, UndoLast, Stop, threadVars
  <2>3. ASSUME NEW t \in Finals, Dictate(t) PROVE FALSE
    BY <2>3 DEF Dictate, threadVars
  <2>4. ASSUME NEW v \in Utterances, LoopPass(v) PROVE FALSE
    BY <2>4 DEF LoopPass
  <2>5. ASSUME NEW v \in Utterances, LoopDelivers(v) PROVE u = utt /\ phase = "recording"
    BY <2>5, LoopEffect
  <2>. QED BY <2>1, <2>2, <2>3, <2>4, <2>5 DEF Next, WorkerNext, LoopNext
<1>. QED BY StreamHolds, <1>1, PTL DEF Spec, LatePassesAreSilent

\* Once stop() has cancelled the generation nothing is typed or copied.
THEOREM StopStaysFinal == Spec => StopIsFinal
<1>1. [Next]_vars => [stopped => UNCHANGED <<doc, clip>>]_vars
  <2> SUFFICES ASSUME Next, stopped PROVE UNCHANGED <<doc, clip>>
    OBVIOUS
  <2>1. CASE \/ Press \/ Release \/ DecodeFinal \/ DecodeNothing \/ PolishRaises
             \/ Deliver \/ Finish \/ UndoLast \/ Stop
    BY <2>1 DEF Press, Release, DecodeFinal, DecodeNothing, PolishRaises, Deliver, Finish,
                UndoLast, Stop, Cancelled, fieldVars
  <2>2. ASSUME NEW t \in Finals, Dictate(t) PROVE FALSE
    BY <2>2 DEF Dictate
  <2>3. ASSUME NEW u \in Utterances, LoopPass(u) \/ LoopDelivers(u) PROVE UNCHANGED <<doc, clip>>
    BY <2>3 DEF LoopPass, LoopDelivers, MustEnd, Cancelled, fieldVars
  <2>. QED BY <2>1, <2>2, <2>3 DEF Next, WorkerNext, LoopNext
<1>. QED BY <1>1, PTL DEF Spec, StopIsFinal

\* No transcript that reached its delivery is dropped silently, whatever raises
\* or refuses: the field reads as the final transcript, or the user finds it on
\* the clipboard or in the store, or the store was handed it and turned it down.
THEOREM WordsStayKept == Spec => []WordsAreKept
<1>1. Init => WordsAreKept
  BY DEF Init, WordsAreKept
<1>2. StreamInv /\ WordsAreKept /\ [Next]_vars => WordsAreKept'
  <2> SUFFICES ASSUME StreamInv, WordsAreKept, [Next]_vars PROVE WordsAreKept'
    OBVIOUS
  <2>1. CASE Press \/ Release \/ DecodeFinal \/ DecodeNothing \/ PolishRaises \/ Deliver \/ Stop
    BY <2>1 DEF Press, Release, DecodeFinal, DecodeNothing, PolishRaises, Deliver, Stop,
                resultVars, keptVars, WordsAreKept
  <2>2. CASE Finish
    <3>1. ~stopped /\ Succeeded => doc = base \o final \/ raised
      BY <2>2 DEF Finish, StreamInv, DeliveredInv
    <3>2. ~stopped /\ final # <<>> /\ expected /\ ~Succeeded => vault' = final \/ refused'
      BY <2>2 DEF Finish, IsFailed, RecordsFailedResult, Succeeded, Cancelled
    <3>. QED BY <2>2, <3>1, <3>2 DEF Finish, resultVars, Succeeded, WordsAreKept
  <2>3. CASE UndoLast
    BY <2>3 DEF UndoLast, ForgetsUtterance, WordsAreKept
  <2>4. ASSUME NEW t \in Finals, Dictate(t) PROVE WordsAreKept'
    BY <2>4 DEF Dictate, ForgetsUtterance, WordsAreKept
  <2>5. ASSUME NEW u \in Utterances, LoopPass(u) PROVE WordsAreKept'
    BY <2>5 DEF LoopPass, WordsAreKept, fieldVars, resultVars, keptVars
  <2>6. ASSUME NEW u \in Utterances, LoopDelivers(u) PROVE WordsAreKept'
    <3>1. UNCHANGED fieldVars \/ phase = "recording"
      BY <2>6, LoopEffect
    <3>. QED BY <2>6, <3>1 DEF LoopDelivers, WordsAreKept, fieldVars, resultVars, keptVars
  <2>7. CASE UNCHANGED vars
    BY <2>7 DEF vars, WordsAreKept
  <2>. QED BY <2>1, <2>2, <2>3, <2>4, <2>5, <2>6, <2>7 DEF Next, WorkerNext, LoopNext
<1>. QED BY StreamHolds, <1>1, <1>2, PTL DEF Spec
=============================================================================
