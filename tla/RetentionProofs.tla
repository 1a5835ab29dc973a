-------------------------- MODULE RetentionProofs --------------------------
(***************************************************************************)
(* For every number of windows, saves, records and crashes and every       *)
(* policy: the types of Retention, that the vault never holds more than    *)
(* the policy in force allows unless the file system refused, and that     *)
(* nothing new enters a vault that is off.                                 *)
(***************************************************************************)
EXTENDS Retention, FiniteSetTheorems, SequenceTheorems, TLAPS

Vaults == Seq(1..MaxRecords)

LEMMA BoundsAreNumbers ==
  /\ 0 \in Policies
  /\ \A p \in Policies : p \in Nat
  /\ MaxSaves \in Nat /\ MaxRecords \in Nat /\ MaxCrashes \in Nat
<1>1. MaxItems \in Nat
  BY RetentionAssumption
<1>2. MaxSaves \in Nat /\ MaxRecords \in Nat /\ MaxCrashes \in Nat
  BY RetentionAssumption
<1>. QED BY <1>1, <1>2 DEF Policies

LEMMA VaultElements ==
  ASSUME NEW entries \in Vaults
  PROVE  /\ Len(entries) \in Nat /\ DOMAIN entries = 1..Len(entries)
         /\ \A i \in 1..Len(entries) : entries[i] \in 1..MaxRecords
<1>1. Len(entries) \in Nat /\ DOMAIN entries = 1..Len(entries) /\ entries \in Seq(1..MaxRecords)
  BY DEF Vaults
<1>2. \A i \in 1..Len(entries) : entries[i] \in 1..MaxRecords
  BY <1>1, ElementOfSeq
<1>. QED BY <1>1, <1>2

\* Pruning returns entries of the vault, no more of them than the policy allows.
LEMMA PruneKeeps ==
  ASSUME NEW entries \in Vaults, policy' \in Nat, expired \in Nat
  PROVE  /\ Prune(entries) \in Vaults
         /\ Len(Prune(entries)) <= policy'
         /\ ToSet(Prune(entries)) \subseteq ToSet(entries)
<1> DEFINE Old == {i \in DOMAIN entries : entries[i] <= expired}
           old == Cardinality(Old)
           surplus == Len(entries) - policy'
           cut == (IF old > surplus THEN old ELSE surplus) + 1
<1>1. Len(entries) \in Nat /\ DOMAIN entries = 1..Len(entries)
  BY DEF Vaults
<1>2. old \in Nat
  <2>1. IsFiniteSet(1..Len(entries)) /\ Old \subseteq 1..Len(entries)
    BY <1>1, FS_Interval
  <2>. QED BY <2>1, FS_Subset, FS_CardinalityType
<1>. HIDE DEF old
<1>3. cut \in Int /\ cut >= 1 /\ cut >= surplus + 1
  BY <1>1, <1>2
<1>4. Prune(entries) = SubSeq(entries, cut, Len(entries))
  BY DEF Prune, old
<1>. HIDE DEF cut
<1>5. /\ SubSeq(entries, cut, Len(entries)) \in Vaults
      /\ Len(SubSeq(entries, cut, Len(entries))) =
            IF cut <= Len(entries) THEN Len(entries) - cut + 1 ELSE 0
      /\ \A i \in 1..(Len(entries) - cut + 1) :
            SubSeq(entries, cut, Len(entries))[i] = entries[cut + i - 1]
  <2>1. \A i \in cut..Len(entries) : entries[i] \in 1..MaxRecords
    BY <1>1, <1>3, VaultElements
  <2>. QED BY <1>1, <1>3, <2>1, SubSeqProperties DEF Vaults
<1>6. Len(Prune(entries)) <= policy'
  BY <1>1, <1>3, <1>4, <1>5
<1>7. \A i \in DOMAIN Prune(entries) : Prune(entries)[i] \in ToSet(entries)
  <2>. TAKE i \in DOMAIN Prune(entries)
  <2>1. i \in 1..Len(Prune(entries)) /\ i \in Int
    BY <1>4, <1>5 DEF Vaults
  <2>2. Prune(entries)[i] = entries[cut + i - 1] /\ cut + i - 1 \in DOMAIN entries
    BY <1>1, <1>3, <1>4, <1>5, <2>1
  <2>. QED BY <2>2 DEF ToSet
<1>. QED BY <1>4, <1>5, <1>6, <1>7 DEF ToSet

LEMMA EmptyVault == <<>> \in Vaults /\ Len(<<>>) = 0 /\ ToSet(<<>>) = {}
  BY DEF Vaults, ToSet

LEMMA RemoveKeeps ==
  ASSUME NEW entries \in Vaults, NEW i \in DOMAIN entries
  PROVE  /\ RemoveAt(entries, i) \in Vaults
         /\ Len(RemoveAt(entries, i)) = Len(entries) - 1
         /\ ToSet(RemoveAt(entries, i)) \subseteq ToSet(entries)
<1> DEFINE front == SubSeq(entries, 1, i - 1)
           back == SubSeq(entries, i + 1, Len(entries))
<1>1. Len(entries) \in Nat /\ i \in 1..Len(entries)
  BY DEF Vaults
<1>2. /\ front \in Vaults /\ Len(front) = i - 1
      /\ \A j \in 1..(i - 1) : front[j] = entries[j]
  <2>1. /\ i - 1 \in Int /\ 1 \in Int
        /\ \A j \in 1..(i - 1) : entries[j] \in 1..MaxRecords
    BY <1>1, VaultElements
  <2>2. /\ front \in Seq(1..MaxRecords)
        /\ Len(front) = IF 1 <= i - 1 THEN (i - 1) - 1 + 1 ELSE 0
        /\ \A j \in 1..((i - 1) - 1 + 1) : front[j] = entries[1 + j - 1]
    BY <2>1, SubSeqProperties
  <2>. HIDE DEF front
  <2>. QED BY <1>1, <2>2 DEF Vaults
<1>3. /\ back \in Vaults /\ Len(back) = Len(entries) - i
      /\ \A j \in 1..(Len(entries) - i) : back[j] = entries[i + j]
  <2>1. /\ i + 1 \in Int /\ Len(entries) \in Int
        /\ \A j \in (i + 1)..Len(entries) : entries[j] \in 1..MaxRecords
    BY <1>1, VaultElements
  <2>2. /\ back \in Seq(1..MaxRecords)
        /\ Len(back) = IF i + 1 <= Len(entries) THEN Len(entries) - (i + 1) + 1 ELSE 0
        /\ \A j \in 1..(Len(entries) - (i + 1) + 1) : back[j] = entries[(i + 1) + j - 1]
    BY SMTT(30), <2>1, SubSeqProperties
  <2>. HIDE DEF back
  <2>3. Len(back) = Len(entries) - i
    <3>1. \A n \in Nat : \A k \in 1..n :
             (IF k + 1 <= n THEN n - (k + 1) + 1 ELSE 0) = n - k
      OBVIOUS
    <3>. QED BY <1>1, <2>2, <3>1
  <2>4. ASSUME NEW j \in 1..(Len(entries) - i) PROVE back[j] = entries[i + j]
    <3>1. j \in 1..(Len(entries) - (i + 1) + 1) /\ (i + 1) + j - 1 = i + j
      BY <1>1, <2>4
    <3>. QED BY <2>2, <3>1
  <2>. QED BY <2>2, <2>3, <2>4 DEF Vaults
<1>4. RemoveAt(entries, i) = front \o back
  BY DEF RemoveAt
<1>. HIDE DEF front, back
<1>5. /\ front \o back \in Vaults
      /\ Len(front \o back) = Len(entries) - 1
      /\ \A j \in 1..Len(front \o back) :
            (front \o back)[j] = IF j <= Len(front) THEN front[j] ELSE back[j - Len(front)]
  BY SMTT(30), <1>1, <1>2, <1>3 DEF Vaults
<1>6. \A j \in DOMAIN (front \o back) : (front \o back)[j] \in ToSet(entries)
  <2>. TAKE j \in DOMAIN (front \o back)
  <2>1. j \in 1..(Len(entries) - 1)
    BY <1>5 DEF Vaults
  <2>2. CASE j <= i - 1
    BY <1>1, <1>2, <1>5, <2>1, <2>2 DEF ToSet
  <2>3. CASE j > i - 1
    <3>1. (front \o back)[j] = back[j - (i - 1)] /\ j - (i - 1) \in 1..(Len(entries) - i)
      BY <1>1, <1>2, <1>5, <2>1, <2>3
    <3>2. i + (j - (i - 1)) = j + 1 /\ j + 1 \in 1..Len(entries)
      BY <1>1, <2>1
    <3>3. (front \o back)[j] = entries[j + 1] /\ j + 1 \in DOMAIN entries
      BY <1>3, <3>1, <3>2, VaultElements
    <3>. QED BY <3>3 DEF ToSet
  <2>. QED BY <1>1, <2>1, <2>2, <2>3
<1>. QED BY <1>4, <1>5, <1>6 DEF ToSet

---------------------------------------------------------------------------
(* What a section of the store does *)

IInv == TypeOK /\ RetentionIsEnforced

\* The store after a section, and what the section may have put into the vault.
StoreStep ==
    /\ policy' \in Policies /\ vault' \in Vaults /\ refused' \in BOOLEAN
    /\ Len(vault') > policy' => refused'
    /\ policy = 0 /\ policy' = 0 => ToSet(vault') \subseteq ToSet(vault)

\* Nothing changed, or something was taken out, or what is left is within the policy.
LEMMA StoreUnchanged ==
  ASSUME IInv, UNCHANGED <<vault, policy, refused>>
  PROVE  StoreStep
  BY DEF IInv, TypeOK, RetentionIsEnforced, StoreStep, Vaults

LEMMA StoreRefused ==
  ASSUME IInv, policy' \in Policies, UNCHANGED vault, refused' = TRUE
  PROVE  StoreStep
  BY DEF IInv, TypeOK, StoreStep, Vaults

LEMMA StoreCleared ==
  ASSUME IInv, policy' \in Policies, vault' = <<>>, refused' \in BOOLEAN
  PROVE  StoreStep
  BY EmptyVault, RetentionAssumption DEF StoreStep, Policies

LEMMA StorePruned ==
  ASSUME IInv, policy' \in Policies, NEW entries \in Vaults, vault' = Prune(entries),
         refused' \in BOOLEAN,
         policy = 0 /\ policy' = 0 => entries = vault
  PROVE  StoreStep
<1>1. policy' \in Nat /\ expired \in Nat
  <2>1. expired \in 0..MaxRecords
    BY DEF IInv, TypeOK
  <2>. QED BY <2>1, BoundsAreNumbers
<1>2. /\ vault' \in Vaults /\ Len(vault') <= policy'
      /\ ToSet(vault') \subseteq ToSet(entries)
  BY <1>1, PruneKeeps
<1>3. ~(Len(vault') > policy')
  BY <1>1, <1>2, VaultElements
<1>. QED BY <1>2, <1>3 DEF StoreStep

LEMMA UpdatePolicyStep ==
  ASSUME IInv, NEW t \in Threads, UpdatePolicy(t)
  PROVE  StoreStep /\ ok' \in [Threads -> BOOLEAN]
<1>1. policy' \in Policies /\ vault \in Vaults /\ ok' \in [Threads -> BOOLEAN]
  BY DEF UpdatePolicy, IInv, TypeOK, Vaults
<1>2. CASE vault' = (IF holds[t] = 0 THEN <<>> ELSE Prune(vault)) /\ refused' = FALSE
  <2>1. CASE holds[t] = 0
    BY <1>1, <1>2, <2>1, StoreCleared
  <2>2. CASE holds[t] # 0
    BY <1>1, <1>2, <2>2, StorePruned
  <2>. QED BY <1>1, <2>1, <2>2
<1>3. CASE refused' = TRUE /\ UNCHANGED vault
  BY <1>1, <1>3, StoreRefused
<1>. QED BY <1>2, <1>3 DEF UpdatePolicy

LEMMA KeepsStep ==
  ASSUME IInv, NEW t \in Threads, NEW entries \in Vaults, policy > 0, UNCHANGED policy,
         Keeps(t, Prune(entries)) \/ Refuses(t)
  PROVE  StoreStep /\ ok' \in [Threads -> BOOLEAN]
<1>1. policy' \in Policies /\ policy # 0 /\ ok' \in [Threads -> BOOLEAN]
  <2>1. policy \in Policies /\ policy # 0
    <3>1. policy \in Policies
      BY DEF IInv, TypeOK
    <3>. QED BY <3>1
  <2>2. ok' \in [Threads -> BOOLEAN]
    BY DEF IInv, TypeOK, Keeps, Refuses
  <2>. QED BY <2>1, <2>2
<1>2. CASE Keeps(t, Prune(entries))
  BY <1>1, <1>2, StorePruned DEF Keeps
<1>3. CASE Refuses(t)
  BY <1>1, <1>3, StoreUnchanged DEF Refuses
<1>. QED BY <1>1, <1>2, <1>3

---------------------------------------------------------------------------
(* The invariant *)

LEMMA InitIInv == Init => IInv
<1>. SUFFICES ASSUME Init PROVE IInv
  OBVIOUS
<1>1. disk \in Policies /\ policy = disk /\ policy \in Nat
  BY BoundsAreNumbers DEF Init
<1>2. vault \in Vaults /\ Len(vault) = 0
  BY EmptyVault DEF Init
<1>3. RetentionIsEnforced
  BY <1>1, <1>2 DEF RetentionIsEnforced
<1>4. vault \in Seq(1..MaxRecords)
  BY <1>2 DEF Vaults
<1>5. /\ expired \in 0..MaxRecords /\ events \in Nat
      /\ saves \in 0..MaxSaves /\ records \in 0..MaxRecords /\ crashes \in 0..MaxCrashes
  BY BoundsAreNumbers DEF Init
<1>6. /\ holds \in [Threads -> Policies] /\ ok \in [Threads -> BOOLEAN]
      /\ writer = {t \in Threads : at[t] \in {"saved", "applied"}}
  BY BoundsAreNumbers DEF Init
<1>7. TypeOK
  BY <1>1, <1>4, <1>5, <1>6 DEF Init, TypeOK
<1>. QED BY <1>3, <1>7 DEF IInv

\* The variables of the store are in StoreStep; the others keep their types, part by part.
Numbers ==
    /\ disk \in Policies
    /\ expired \in 0..MaxRecords
    /\ events \in Nat
    /\ saves \in 0..MaxSaves /\ records \in 0..MaxRecords /\ crashes \in 0..MaxCrashes

Flags ==
    /\ error \in BOOLEAN /\ signalling \in BOOLEAN
    /\ latest \in BOOLEAN /\ pending \in BOOLEAN /\ failed \in BOOLEAN

Locations == {"idle", "noting", "saved", "applied", "publishing", "woken", "taken",
              "loaded", "noting once", "reapplying", "noting last"}

Places ==
    /\ at \in [Threads -> Locations]
    /\ holds \in [Threads -> Policies]
    /\ ok \in [Threads -> BOOLEAN]

OneWriter ==
    /\ writer = {t \in Threads : at[t] \in {"saved", "applied"}}
    /\ \A t, u \in writer : t = u

Control == Numbers /\ Flags /\ Places /\ OneWriter

LEMMA ControlFacts == IInv => Control /\ vault \in Vaults
  BY DEF IInv, TypeOK, Control, Numbers, Flags, Locations, Places, OneWriter, Vaults

LEMMA Assembled ==
  ASSUME StoreStep, Control'
  PROVE  IInv'
<1>1. TypeOK'
  BY DEF StoreStep, Control, TypeOK, Numbers, Flags, Locations, Places, OneWriter, Vaults
<1>. QED BY <1>1 DEF StoreStep, IInv, RetentionIsEnforced

LEMMA OkStays == IInv => ok \in [Threads -> BOOLEAN]
  BY DEF IInv, TypeOK

LEMMA NextStep ==
  ASSUME IInv, Next
  PROVE  StoreStep /\ Control'
<1>0. /\ Reloader \in Threads /\ Worker \in Threads /\ Savers \subseteq Threads
      /\ 0 \in Policies
  BY BoundsAreNumbers DEF Threads
<1>. USE <1>0
<1>1. CASE Record
  <2>1. ASSUME policy > 0 PROVE StoreStep /\ ok' \in [Threads -> BOOLEAN]
    <3>1. Append(vault, records + 1) \in Vaults
      <4>1. records + 1 \in 1..MaxRecords
        BY <1>1, BoundsAreNumbers, ControlFacts DEF Record, Control, Numbers
      <4>. QED BY <4>1, ControlFacts DEF Vaults
    <3>2. UNCHANGED policy /\ (Keeps(Worker, Prune(Append(vault, records + 1))) \/ Refuses(Worker))
      <4>1. policy # 0
        BY <2>1
      <4>. QED BY <1>1, <4>1 DEF Record
    <3>. QED BY <2>1, <3>1, <3>2, KeepsStep
  <2>2. StoreStep /\ ok' \in [Threads -> BOOLEAN]
    BY <1>1, <2>1, OkStays, StoreUnchanged DEF Record
  <2>3. Numbers'
    BY <1>1, BoundsAreNumbers, ControlFacts DEF Control, Record, coalescer, bounds, Numbers
  <2>4. Flags'
    BY <1>1, ControlFacts DEF Control, Record, coalescer, bounds, Flags
  <2>5. Places'
    BY <1>1, <2>2, ControlFacts DEF Control, Record, coalescer, bounds, Places, Locations
  <2>6. OneWriter'
    BY <1>1, ControlFacts DEF Control, Record, coalescer, bounds, OneWriter, Places
  <2>. QED BY <2>2, <2>3, <2>4, <2>5, <2>6 DEF Control
<1>2. CASE \E t \in Savers \cup {Worker} : Noted(t)
  <2>1. PICK t \in Savers \cup {Worker} : Noted(t)
    BY <1>2
  <2>2. StoreStep /\ ok' \in [Threads -> BOOLEAN]
    BY <2>1, OkStays, StoreUnchanged DEF Noted, Notes, Notes
  <2>3. Numbers'
    BY <2>1, BoundsAreNumbers, ControlFacts
      DEF Control, Noted, Notes, coalescer, bounds, Numbers
  <2>4. Flags'
    BY <2>1, ControlFacts DEF Control, Noted, Notes, coalescer, bounds, Flags
  <2>5. Places'
    BY <2>1, <2>2, ControlFacts DEF Control, Noted, Notes, coalescer, bounds, Places, Locations
  <2>6. OneWriter'
    BY <2>1, ControlFacts DEF Control, Noted, Notes, coalescer, bounds, OneWriter, Places
  <2>. QED BY <2>2, <2>3, <2>4, <2>5, <2>6 DEF Control
<1>3. CASE \E t \in Savers : Snapshot(t)
  <2>1. PICK t \in Savers : Snapshot(t)
    BY <1>3
  <2>2. StoreStep /\ ok' \in [Threads -> BOOLEAN]
    BY <2>1, ControlFacts, KeepsStep DEF Snapshot
  <2>3. Numbers'
    BY <2>1, BoundsAreNumbers, ControlFacts DEF Control, Snapshot, coalescer, bounds, Numbers
  <2>4. Flags'
    BY <2>1, ControlFacts DEF Control, Snapshot, coalescer, bounds, Flags
  <2>5. Places'
    BY <2>1, <2>2, ControlFacts DEF Control, Snapshot, coalescer, bounds, Places, Locations
  <2>6. OneWriter'
    BY <2>1, ControlFacts DEF Control, Snapshot, coalescer, bounds, OneWriter, Places
  <2>. QED BY <2>2, <2>3, <2>4, <2>5, <2>6 DEF Control
<1>4. CASE \E t \in Savers : Clear(t)
  <2>1. PICK t \in Savers : Clear(t)
    BY <1>4
  <2>0. ok' \in [Threads -> BOOLEAN] /\ policy' \in Policies
    BY <2>1, OkStays DEF Clear, Keeps, Refuses, IInv, TypeOK
  <2>2. StoreStep /\ ok' \in [Threads -> BOOLEAN]
    BY <2>1, <2>0, StoreCleared, StoreUnchanged DEF Clear, Keeps, Refuses
  <2>3. Numbers'
    BY <2>1, BoundsAreNumbers, ControlFacts DEF Control, Clear, coalescer, bounds, Numbers
  <2>4. Flags'
    BY <2>1, ControlFacts DEF Control, Clear, coalescer, bounds, Flags
  <2>5. Places'
    BY <2>1, <2>2, ControlFacts DEF Control, Clear, coalescer, bounds, Places, Locations
  <2>6. OneWriter'
    BY <2>1, ControlFacts DEF Control, Clear, coalescer, bounds, OneWriter, Places
  <2>. QED BY <2>2, <2>3, <2>4, <2>5, <2>6 DEF Control
<1>5. CASE \E t \in Savers : Delete(t)
  <2>1. PICK t \in Savers : Delete(t)
    BY <1>5
  <2>a. /\ \E i \in DOMAIN vault : vault' = RemoveAt(vault, i)
        /\ UNCHANGED <<policy, refused, ok>>
    BY <2>1 DEF Delete, ram
  <2>b. /\ vault' \in Vaults /\ Len(vault') = Len(vault) - 1
        /\ ToSet(vault') \subseteq ToSet(vault)
    BY <2>a, ControlFacts, RemoveKeeps
  <2>c. policy \in Policies /\ refused \in BOOLEAN /\ (Len(vault) > policy => refused)
    BY DEF IInv, TypeOK, RetentionIsEnforced
  <2>d. Len(vault') > policy => Len(vault) > policy
    <3>1. Len(vault) \in Nat /\ policy \in Nat
      BY <2>c, BoundsAreNumbers, ControlFacts, VaultElements
    <3>. QED BY <2>b, <3>1
  <2>2. StoreStep /\ ok' \in [Threads -> BOOLEAN]
    BY <2>a, <2>b, <2>c, <2>d, OkStays DEF StoreStep
  <2>3. Numbers'
    BY <2>1, BoundsAreNumbers, ControlFacts DEF Control, Delete, ram, bounds, Numbers
  <2>4. Flags'
    BY <2>1, ControlFacts DEF Control, Delete, ram, bounds, Flags
  <2>5. Places'
    BY <2>1, <2>2, ControlFacts DEF Control, Delete, ram, bounds, Places, Locations
  <2>6. OneWriter'
    BY <2>1, ControlFacts DEF Control, Delete, ram, bounds, OneWriter, Places
  <2>. QED BY <2>2, <2>3, <2>4, <2>5, <2>6 DEF Control
<1>6. CASE \E t \in Savers, p \in Policies : Save(t, p)
  <2>1. PICK t \in Savers, p \in Policies : Save(t, p)
    BY <1>6
  <2>2. StoreStep /\ ok' \in [Threads -> BOOLEAN]
    BY <2>1, OkStays, StoreUnchanged DEF Save, store
  <2>3. Numbers'
    BY <2>1, BoundsAreNumbers, ControlFacts DEF Control, Save, coalescer, bounds, Numbers
  <2>4. Flags'
    BY <2>1, ControlFacts DEF Control, Save, coalescer, bounds, Flags
  <2>5. Places'
    BY <2>1, <2>2, ControlFacts DEF Control, Save, coalescer, bounds, Places, Locations
  <2>6. OneWriter'
    BY <2>1, ControlFacts DEF Control, Save, coalescer, bounds, OneWriter, Places
  <2>. QED BY <2>2, <2>3, <2>4, <2>5, <2>6 DEF Control
<1>7. CASE \E t \in Savers : SaveApplies(t)
  <2>1. PICK t \in Savers : SaveApplies(t)
    BY <1>7
  <2>2. StoreStep /\ ok' \in [Threads -> BOOLEAN]
    BY <2>1, UpdatePolicyStep DEF SaveApplies
  <2>3. Numbers'
    BY <2>1, BoundsAreNumbers, ControlFacts DEF Control, SaveApplies, coalescer, bounds, Numbers
  <2>4. Flags'
    BY <2>1, ControlFacts DEF Control, SaveApplies, coalescer, bounds, Flags
  <2>5. Places'
    BY <2>1, <2>2, ControlFacts DEF Control, SaveApplies, coalescer, bounds, Places, Locations
  <2>6. OneWriter'
    BY <2>1, ControlFacts DEF Control, SaveApplies, coalescer, bounds, OneWriter, Places
  <2>. QED BY <2>2, <2>3, <2>4, <2>5, <2>6 DEF Control
<1>8. CASE \E t \in Savers : SaveNotes(t)
  <2>1. PICK t \in Savers : SaveNotes(t)
    BY <1>8
  <2>2. StoreStep /\ ok' \in [Threads -> BOOLEAN]
    BY <2>1, OkStays, StoreUnchanged DEF SaveNotes, Notes, Notes
  <2>3. Numbers'
    BY <2>1, BoundsAreNumbers, ControlFacts
      DEF Control, SaveNotes, Notes, coalescer, bounds, Numbers
  <2>4. Flags'
    BY <2>1, ControlFacts DEF Control, SaveNotes, Notes, coalescer, bounds, Flags
  <2>5. Places'
    BY <2>1, <2>2, ControlFacts
      DEF Control, SaveNotes, Notes, coalescer, bounds, Places, Locations
  <2>6. OneWriter'
    BY <2>1, ControlFacts DEF Control, SaveNotes, Notes, coalescer, bounds, OneWriter, Places
  <2>. QED BY <2>2, <2>3, <2>4, <2>5, <2>6 DEF Control
<1>9. CASE \E t \in Savers : SavePublishes(t)
  <2>1. PICK t \in Savers : SavePublishes(t)
    BY <1>9
  <2>2. StoreStep /\ ok' \in [Threads -> BOOLEAN]
    BY <2>1, OkStays, StoreUnchanged DEF SavePublishes, store
  <2>3. Numbers'
    BY <2>1, BoundsAreNumbers, ControlFacts DEF Control, SavePublishes, bounds, Numbers
  <2>4. Flags'
    BY <2>1, ControlFacts DEF Control, SavePublishes, bounds, Flags
  <2>5. Places'
    BY <2>1, <2>2, ControlFacts DEF Control, SavePublishes, bounds, Places, Locations
  <2>6. OneWriter'
    BY <2>1, ControlFacts DEF Control, SavePublishes, bounds, OneWriter, Places
  <2>. QED BY <2>2, <2>3, <2>4, <2>5, <2>6 DEF Control
<1>10. CASE Request \/ Signal
  <2>2. StoreStep /\ ok' \in [Threads -> BOOLEAN]
    BY <1>10, OkStays, StoreUnchanged DEF Request, Signal, store
  <2>3. Numbers'
    BY <1>10, BoundsAreNumbers, ControlFacts DEF Control, Request, Signal, bounds, Numbers
  <2>4. Flags'
    BY <1>10, ControlFacts DEF Control, Request, Signal, bounds, Flags
  <2>5. Places'
    BY <1>10, <2>2, ControlFacts DEF Control, Request, Signal, bounds, Places, Locations
  <2>6. OneWriter'
    BY <1>10, ControlFacts DEF Control, Request, Signal, bounds, OneWriter, Places
  <2>. QED BY <2>2, <2>3, <2>4, <2>5, <2>6 DEF Control
<1>11. CASE Wake \/ Take
  <2>2. StoreStep /\ ok' \in [Threads -> BOOLEAN]
    BY <1>11, OkStays, StoreUnchanged DEF Wake, Take, store
  <2>3. Numbers'
    BY <1>11, BoundsAreNumbers, ControlFacts DEF Control, Wake, Take, bounds, Numbers
  <2>4. Flags'
    BY <1>11, ControlFacts DEF Control, Wake, Take, bounds, Flags
  <2>5. Places'
    BY <1>11, <2>2, ControlFacts DEF Control, Wake, Take, bounds, Places, Locations
  <2>6. OneWriter'
    BY <1>11, ControlFacts DEF Control, Wake, Take, bounds, OneWriter, Places
  <2>. QED BY <2>2, <2>3, <2>4, <2>5, <2>6 DEF Control
<1>12. CASE Load
  <2>2. StoreStep /\ ok' \in [Threads -> BOOLEAN]
    BY <1>12, OkStays, StoreUnchanged DEF Load, store
  <2>3. Numbers'
    BY <1>12, BoundsAreNumbers, ControlFacts
      DEF Control, Load, store, coalescer, bounds, Numbers
  <2>4. Flags'
    BY <1>12, ControlFacts DEF Control, Load, store, coalescer, bounds, Flags
  <2>5. Places'
    BY <1>12, <2>2, ControlFacts DEF Control, Load, store, coalescer, bounds, Numbers,
                                     Places, Locations
  <2>6. OneWriter'
    BY <1>12, ControlFacts DEF Control, Load, store, coalescer, bounds, OneWriter, Places
  <2>. QED BY <2>2, <2>3, <2>4, <2>5, <2>6 DEF Control
<1>13. CASE Abandon
  <2>2. StoreStep /\ ok' \in [Threads -> BOOLEAN]
    BY <1>13, OkStays, StoreUnchanged DEF Abandon, store
  <2>3. Numbers'
    BY <1>13, BoundsAreNumbers, ControlFacts
      DEF Control, Abandon, store, coalescer, bounds, Numbers
  <2>4. Flags'
    BY <1>13, ControlFacts DEF Control, Abandon, store, coalescer, bounds, Flags
  <2>5. Places'
    BY <1>13, <2>2, ControlFacts
      DEF Control, Abandon, store, coalescer, bounds, Places, Locations
  <2>6. OneWriter'
    BY <1>13, ControlFacts DEF Control, Abandon, store, coalescer, bounds, OneWriter, Places
  <2>. QED BY <2>2, <2>3, <2>4, <2>5, <2>6 DEF Control
<1>14. CASE ReloadApplies
  <2>2. StoreStep /\ ok' \in [Threads -> BOOLEAN]
    BY <1>14, UpdatePolicyStep DEF ReloadApplies
  <2>3. Numbers'
    BY <1>14, BoundsAreNumbers, ControlFacts
      DEF Control, ReloadApplies, coalescer, bounds, Numbers
  <2>4. Flags'
    BY <1>14, ControlFacts DEF Control, ReloadApplies, coalescer, bounds, Flags
  <2>5. Places'
    BY <1>14, <2>2, ControlFacts
      DEF Control, ReloadApplies, coalescer, bounds, Places, Locations
  <2>6. OneWriter'
    BY <1>14, ControlFacts DEF Control, ReloadApplies, coalescer, bounds, OneWriter, Places
  <2>. QED BY <2>2, <2>3, <2>4, <2>5, <2>6 DEF Control
<1>15. CASE ReloadNotes
  <2>2. StoreStep /\ ok' \in [Threads -> BOOLEAN]
    BY <1>15, OkStays, StoreUnchanged DEF ReloadNotes, Notes, Notes
  <2>3. Numbers'
    BY <1>15, BoundsAreNumbers, ControlFacts
      DEF Control, ReloadNotes, Notes, coalescer, bounds, Numbers
  <2>4. Flags'
    BY <1>15, ControlFacts DEF Control, ReloadNotes, Notes, coalescer, bounds, Flags
  <2>5. Places'
    BY <1>15, <2>2, ControlFacts
      DEF Control, ReloadNotes, Notes, coalescer, bounds, Places, Locations
  <2>6. OneWriter'
    BY <1>15, ControlFacts DEF Control, ReloadNotes, Notes, coalescer, bounds, OneWriter, Places
  <2>. QED BY <2>2, <2>3, <2>4, <2>5, <2>6 DEF Control
<1>16. CASE Expire
  <2>2. StoreStep /\ ok' \in [Threads -> BOOLEAN]
    BY <1>16, OkStays, StoreUnchanged DEF Expire, ram
  <2>3. Numbers'
    BY <1>16, BoundsAreNumbers, ControlFacts DEF Control, Expire, ram, bounds, Numbers
  <2>4. Flags'
    BY <1>16, ControlFacts DEF Control, Expire, ram, bounds, Flags
  <2>5. Places'
    BY <1>16, <2>2, ControlFacts DEF Control, Expire, ram, bounds, Places, Locations
  <2>6. OneWriter'
    BY <1>16, ControlFacts DEF Control, Expire, ram, bounds, OneWriter, Places
  <2>. QED BY <2>2, <2>3, <2>4, <2>5, <2>6 DEF Control
<1>17. CASE Crash
  <2>1. policy' \in Policies /\ vault \in Vaults /\ policy' = disk
    BY <1>17, ControlFacts DEF Crash, Control, Numbers
  <2>a. ASSUME vault' = (IF disk = 0 THEN <<>> ELSE Prune(vault)), refused' = FALSE
        PROVE  StoreStep
    <3>1. CASE disk = 0
      BY <2>1, <2>a, <3>1, StoreCleared
    <3>2. CASE disk # 0
      BY <2>1, <2>a, <3>2, StorePruned
    <3>. QED BY <3>1, <3>2
  <2>2. StoreStep /\ ok' \in [Threads -> BOOLEAN]
    BY <1>17, <2>1, <2>a, StoreRefused DEF Crash
  <2>3. Numbers'
    BY <1>17, BoundsAreNumbers, ControlFacts DEF Control, Crash, bounds, Numbers
  <2>4. Flags'
    BY <1>17, ControlFacts DEF Control, Crash, bounds, Flags
  <2>5. Places'
    BY <1>17, <2>2, ControlFacts DEF Control, Crash, bounds, Places, Locations
  <2>6. OneWriter'
    BY <1>17, ControlFacts DEF Control, Crash, bounds, OneWriter, Places
  <2>. QED BY <2>2, <2>3, <2>4, <2>5, <2>6 DEF Control
<1>. QED
  BY <1>1, <1>2, <1>3, <1>4, <1>5, <1>6, <1>7, <1>8, <1>9,
     <1>10, <1>11, <1>12, <1>13, <1>14, <1>15, <1>16, <1>17
  DEF Next, Applying, Delivering, Reloading

LEMMA Invariant == IInv /\ [Next]_vars => IInv'
<1>1. IInv /\ Next => IInv'
  BY NextStep, Assembled
<1>2. IInv /\ UNCHANGED vars => IInv'
  <2>. SUFFICES ASSUME IInv, UNCHANGED vars PROVE IInv'
    OBVIOUS
  <2>1. TypeOK'
    BY DEF vars, ram, bounds, IInv, TypeOK
  <2>2. RetentionIsEnforced'
    BY DEF vars, ram, IInv, RetentionIsEnforced
  <2>. QED BY <2>1, <2>2 DEF IInv
<1>. QED BY <1>1, <1>2

---------------------------------------------------------------------------
(* The theorems *)

\* The fields of the store, the settings and the coalescing worker keep their types and
\* set_config has one writer at a time, for every number of windows.
THEOREM TypeCorrect == Spec => []TypeOK
<1>1. IInv => TypeOK
  BY DEF IInv
<1>. QED BY <1>1, InitIInv, Invariant, PTL DEF Spec

\* The vault is within the policy in force, or the file system refused to let it shrink.
THEOREM Enforced == Spec => []RetentionIsEnforced
<1>1. IInv => RetentionIsEnforced
  BY DEF IInv
<1>. QED BY <1>1, InitIInv, Invariant, PTL DEF Spec

\* No step, whichever thread takes it, puts anything into a vault that is off.
THEOREM NeverGrows == Spec => DisabledNeverGrows
<1>1. IInv /\ [Next]_vars =>
         [policy = 0 /\ policy' = 0 => ToSet(vault') \subseteq ToSet(vault)]_vars
  BY NextStep DEF StoreStep
<1>. QED BY <1>1, InitIInv, Invariant, PTL DEF Spec, DisabledNeverGrows
=============================================================================
