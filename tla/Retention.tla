----------------------------- MODULE Retention -----------------------------
(***************************************************************************)
(* The failed-dictation vault (recovery.py) under the settings that govern *)
(* it: Settings and the wizard save a policy to the configuration file and *)
(* apply it (ui/settings.py, set_config), the bus hands the change to the  *)
(* coalescing worker (util/coalescing.py), which reads the file again and  *)
(* applies what it read (app.py, apply_config_change), while the utterance *)
(* worker records what could not be inserted.                              *)
(*                                                                         *)
(* A policy is the number of items the vault may keep; 0 stands for        *)
(* recovery.enabled = false.  Every operation of the store is a section    *)
(* under the store's lock and, after it, an assignment to _last_error that *)
(* is outside the lock.                                                    *)
(***************************************************************************)
EXTENDS Integers, FiniteSets, SequencesExt

CONSTANTS
    Savers,         \* the windows that call the settings API
    Reloader,       \* the ConfigApply thread
    Worker,         \* the utterance worker
    MaxItems,       \* the largest policy
    MaxSaves,       \* bound: saves of the configuration
    MaxRecords,     \* bound: results that could not be inserted
    MaxCrashes,     \* bound: crashes of the process
    ReloadMayFail,  \* a provider, a consent or the file may stop a reload
    VaultMayFail    \* the vault's file may refuse to be read, written or removed

ASSUME RetentionAssumption ==
    /\ Reloader \notin Savers /\ Worker \notin Savers /\ Reloader # Worker
    /\ MaxItems \in Nat \ {0}
    /\ {MaxSaves, MaxRecords, MaxCrashes} \subseteq Nat
    /\ {ReloadMayFail, VaultMayFail} \subseteq BOOLEAN

VARIABLES
    disk,       \* the policy in the configuration file
    vault,      \* the results in the vault's file, oldest first
    expired,    \* results up to this number are older than the age limit
    policy,     \* RecoveryStore._enabled and _max_items
    error,      \* RecoveryStore._last_error is not empty
    refused,    \* the vault holds what a policy or a clear failed to remove
    at,         \* where each thread is
    holds,      \* the policy each thread is about to apply
    ok,         \* the outcome of each thread's last locked section
    writer,     \* the owners of the configuration file's lock
    events,     \* ConfigChanged on the bus
    signalling, \* the dispatcher is between the two halves of request()
    latest,     \* CoalescingWorker._latest is not None
    pending,    \* CoalescingWorker._pending
    failed,     \* the last reload was abandoned
    saves, records, crashes

ram == <<policy, error, refused, at, holds, ok, writer, events, signalling, latest,
         pending, failed>>
store == <<vault, policy, error, refused>>
coalescer == <<events, signalling, latest, pending>>
bounds == <<saves, records, crashes>>
vars == <<disk, vault, expired, ram, bounds>>

Threads == Savers \cup {Reloader, Worker}
Policies == 0..MaxItems

---------------------------------------------------------------------------
(* The store *)

\* What may still be kept, young enough and the newest of those: entries are in the order
\* of their age, so both conditions cut at the front.
Prune(entries) ==
    LET old == Cardinality({i \in DOMAIN entries : entries[i] <= expired})
        surplus == Len(entries) - policy'
    IN  SubSeq(entries, (IF old > surplus THEN old ELSE surplus) + 1, Len(entries))

\* Mutant: A policy that only counts for the next record.
UpdatePolicyLazily(t) ==
    /\ policy' = holds[t]
    /\ refused' = FALSE
    /\ ok' = [ok EXCEPT ![t] = TRUE]
    /\ UNCHANGED vault

\* The policy is assigned first; the file is cleared or pruned after it and may refuse.
UpdatePolicy(t) ==
    /\ policy' = holds[t]
    /\ \/ /\ vault' = IF holds[t] = 0 THEN <<>> ELSE Prune(vault)
          /\ refused' = FALSE
          /\ ok' = [ok EXCEPT ![t] = TRUE]
       \/ /\ VaultMayFail /\ vault # <<>>
          /\ refused' = TRUE
          /\ ok' = [ok EXCEPT ![t] = FALSE]
          /\ UNCHANGED vault

Keeps(t, entries) ==
    /\ vault' = entries
    /\ refused' = FALSE
    /\ ok' = [ok EXCEPT ![t] = TRUE]

Refuses(t) ==
    /\ VaultMayFail
    /\ ok' = [ok EXCEPT ![t] = FALSE]
    /\ UNCHANGED <<vault, refused>>

\* record(): a policy that has been switched off is seen under the lock.
Record ==
    /\ at[Worker] = "idle"
    /\ records < MaxRecords
    /\ records' = records + 1
    /\ UNCHANGED policy
    /\ \/ /\ policy = 0
          /\ UNCHANGED <<vault, refused, ok, at>>
       \/ /\ policy > 0
          /\ \/ Keeps(Worker, Prune(Append(vault, records + 1)))
             \/ Refuses(Worker)
          /\ at' = [at EXCEPT ![Worker] = "noting"]
    /\ UNCHANGED <<disk, expired, error, holds, writer, coalescer, failed, saves, crashes>>

\* snapshot(): prunes what has expired while the vault is on.
Snapshot(t) ==
    /\ at[t] = "idle"
    /\ policy > 0
    /\ UNCHANGED policy
    /\ Keeps(t, Prune(vault)) \/ Refuses(t)
    /\ at' = [at EXCEPT ![t] = "noting"]
    /\ UNCHANGED <<disk, expired, error, holds, writer, coalescer, failed, bounds>>

\* clear(), whatever the policy is.
Clear(t) ==
    /\ at[t] = "idle"
    /\ vault # <<>>
    /\ Keeps(t, <<>>) \/ Refuses(t)
    /\ at' = [at EXCEPT ![t] = "noting"]
    /\ UNCHANGED <<disk, expired, policy, error, holds, writer, coalescer, failed, bounds>>

\* delete(): one entry; the outcome is not recorded in _last_error.
Delete(t) ==
    /\ at[t] = "idle"
    /\ \E i \in DOMAIN vault : vault' = RemoveAt(vault, i)
    /\ UNCHANGED <<disk, expired, ram, bounds>>

\* The assignment to _last_error after the lock has been released.
Notes(t) ==
    /\ error' = ~ok[t]
    /\ ok' = [ok EXCEPT ![t] = TRUE]

Noted(t) ==
    /\ at[t] = "noting"
    /\ Notes(t)
    /\ at' = [at EXCEPT ![t] = "idle"]
    /\ UNCHANGED <<disk, vault, expired, policy, refused, holds, writer, coalescer, failed,
                   bounds>>

---------------------------------------------------------------------------
(* Settings *)

\* set_config(): the file is replaced under its lock, which is kept for the policy.
Save(t, p) ==
    /\ at[t] = "idle"
    /\ writer = {}
    /\ saves < MaxSaves
    /\ disk' = p
    /\ holds' = [holds EXCEPT ![t] = p]
    /\ at' = [at EXCEPT ![t] = "saved"]
    /\ writer' = {t}
    /\ saves' = saves + 1
    /\ UNCHANGED <<vault, expired, policy, error, refused, ok, coalescer, failed, records,
                   crashes>>

SaveApplies(t) ==
    /\ at[t] = "saved"
    /\ UpdatePolicy(t)
    /\ at' = [at EXCEPT ![t] = "applied"]
    /\ UNCHANGED <<disk, expired, error, holds, writer, coalescer, failed, bounds>>

SaveNotes(t) ==
    /\ at[t] = "applied"
    /\ Notes(t)
    /\ at' = [at EXCEPT ![t] = "publishing"]
    /\ writer' = {}
    /\ holds' = [holds EXCEPT ![t] = 0]
    /\ UNCHANGED <<disk, vault, expired, policy, refused, coalescer, failed, bounds>>

SavePublishes(t) ==
    /\ at[t] = "publishing"
    /\ events' = events + 1
    /\ at' = [at EXCEPT ![t] = "idle"]
    /\ UNCHANGED <<disk, vault, expired, policy, error, refused, holds, ok, writer,
                   signalling, latest, pending, failed, bounds>>

---------------------------------------------------------------------------
(* The coalescing worker *)

Request ==
    /\ events > 0 /\ ~signalling
    /\ events' = events - 1
    /\ latest' = TRUE
    /\ signalling' = TRUE
    /\ UNCHANGED <<disk, vault, expired, policy, error, refused, at, holds, ok, writer,
                   pending, failed, bounds>>

Signal ==
    /\ signalling
    /\ signalling' = FALSE
    /\ pending' = TRUE
    /\ UNCHANGED <<disk, vault, expired, policy, error, refused, at, holds, ok, writer,
                   events, latest, failed, bounds>>

Wake ==
    /\ at[Reloader] = "idle"
    /\ pending
    /\ pending' = FALSE
    /\ at' = [at EXCEPT ![Reloader] = "woken"]
    /\ UNCHANGED <<disk, vault, expired, policy, error, refused, holds, ok, writer, events,
                   signalling, latest, failed, bounds>>

Take ==
    /\ at[Reloader] = "woken"
    /\ latest' = FALSE
    /\ at' = [at EXCEPT ![Reloader] = IF latest THEN "taken" ELSE "idle"]
    /\ UNCHANGED <<disk, vault, expired, policy, error, refused, holds, ok, writer, events,
                   signalling, pending, failed, bounds>>

\* The reload starts from the file, whatever the event said.
Load ==
    /\ at[Reloader] = "taken"
    /\ holds' = [holds EXCEPT ![Reloader] = disk]
    /\ at' = [at EXCEPT ![Reloader] = "loaded"]
    /\ UNCHANGED <<disk, store, expired, ok, writer, coalescer, failed, bounds>>

\* Consent, a provider or a new hotkey manager raises: the rest of the reload is skipped.
Abandon ==
    /\ ReloadMayFail
    /\ at[Reloader] \in {"taken", "loaded", "reapplying"}
    /\ at' = [at EXCEPT ![Reloader] = "idle"]
    /\ holds' = [holds EXCEPT ![Reloader] = 0]
    /\ failed' = TRUE
    /\ UNCHANGED <<disk, store, expired, ok, writer, coalescer, bounds>>

\* Applied once by the reload itself and again by _update_runtime of the settings.
ReloadApplies ==
    /\ at[Reloader] \in {"loaded", "reapplying"}
    /\ UpdatePolicy(Reloader)
    /\ at' = [at EXCEPT ![Reloader] =
                IF at[Reloader] = "loaded" THEN "noting once" ELSE "noting last"]
    /\ UNCHANGED <<disk, expired, error, holds, writer, coalescer, failed, bounds>>

\* Mutant: A worker that clears its event when the callback is over.
ReloadNotesAndClears ==
    /\ at[Reloader] \in {"noting once", "noting last"}
    /\ Notes(Reloader)
    /\ IF at[Reloader] = "noting once"
       THEN /\ at' = [at EXCEPT ![Reloader] = "reapplying"]
            /\ UNCHANGED <<holds, failed, pending>>
       ELSE /\ at' = [at EXCEPT ![Reloader] = "idle"]
            /\ holds' = [holds EXCEPT ![Reloader] = 0]
            /\ failed' = FALSE
            /\ pending' = FALSE
    /\ UNCHANGED <<disk, vault, expired, policy, refused, writer, events, signalling,
                   latest, bounds>>

ReloadNotes ==
    /\ at[Reloader] \in {"noting once", "noting last"}
    /\ Notes(Reloader)
    /\ IF at[Reloader] = "noting once"
       THEN /\ at' = [at EXCEPT ![Reloader] = "reapplying"]
            /\ UNCHANGED <<holds, failed>>
       ELSE /\ at' = [at EXCEPT ![Reloader] = "idle"]
            /\ holds' = [holds EXCEPT ![Reloader] = 0]
            /\ failed' = FALSE
    /\ UNCHANGED <<disk, vault, expired, policy, refused, writer, coalescer, bounds>>

---------------------------------------------------------------------------
(* The process *)

Init ==
    /\ disk \in Policies
    /\ vault = <<>>
    /\ expired = 0
    /\ policy = disk
    /\ error = FALSE /\ refused = FALSE
    /\ at = [t \in Threads |-> "idle"]
    /\ holds = [t \in Threads |-> 0]
    /\ ok = [t \in Threads |-> TRUE]
    /\ writer = {}
    /\ events = 0
    /\ signalling = FALSE /\ latest = FALSE /\ pending = FALSE
    /\ failed = FALSE
    /\ saves = 0 /\ records = 0 /\ crashes = 0

\* Entries age with the clock.
Expire ==
    /\ expired < records
    /\ expired' = expired + 1
    /\ UNCHANGED <<disk, vault, ram, bounds>>

\* Both files are replaced or removed whole, so a crash leaves each as it was or as it
\* will be; start() builds the store from the file and applies its policy at once.
Crash ==
    /\ crashes < MaxCrashes
    /\ crashes' = crashes + 1
    /\ policy' = disk
    /\ \/ /\ vault' = IF disk = 0 THEN <<>> ELSE Prune(vault)
          /\ refused' = FALSE
          /\ error' = FALSE
       \/ /\ VaultMayFail /\ vault # <<>>
          /\ refused' = TRUE
          /\ error' = TRUE
          /\ UNCHANGED vault
    /\ at' = [t \in Threads |-> "idle"]
    /\ holds' = [t \in Threads |-> 0]
    /\ ok' = [t \in Threads |-> TRUE]
    /\ writer' = {}
    /\ events' = 0
    /\ signalling' = FALSE /\ latest' = FALSE /\ pending' = FALSE
    /\ failed' = FALSE
    /\ UNCHANGED <<disk, expired, saves, records>>

Applying(t) == SaveApplies(t) \/ SaveNotes(t) \/ SavePublishes(t) \/ Noted(t)
Reloading == Wake \/ Take \/ Load \/ Abandon \/ ReloadApplies \/ ReloadNotes
Delivering == Request \/ Signal

Next ==
    \/ Record \/ Noted(Worker)
    \/ \E t \in Savers : \/ Snapshot(t) \/ Clear(t) \/ Delete(t) \/ Applying(t)
                         \/ \E p \in Policies : Save(t, p)
    \/ Delivering \/ Reloading
    \/ Expire \/ Crash

Spec == Init /\ [][Next]_vars

\* Threads that are in an operation, the dispatcher and the ConfigApply thread go on.
Fairness ==
    /\ \A t \in Savers : WF_vars(Applying(t))
    /\ WF_vars(Delivering)
    /\ WF_vars(Reloading)

FairSpec == Spec /\ Fairness

---------------------------------------------------------------------------
(* Properties *)

\* Every variable keeps its type, and the configuration file has one writer at a time.
TypeOK ==
    /\ disk \in Policies /\ policy \in Policies
    /\ vault \in Seq(1..MaxRecords)
    /\ expired \in 0..MaxRecords
    /\ error \in BOOLEAN /\ refused \in BOOLEAN /\ signalling \in BOOLEAN
    /\ latest \in BOOLEAN /\ pending \in BOOLEAN /\ failed \in BOOLEAN
    /\ at \in [Threads -> {"idle", "noting", "saved", "applied", "publishing", "woken",
                           "taken", "loaded", "noting once", "reapplying", "noting last"}]
    /\ holds \in [Threads -> Policies]
    /\ ok \in [Threads -> BOOLEAN]
    /\ writer = {t \in Threads : at[t] \in {"saved", "applied"}}
    /\ \A t, u \in writer : t = u
    /\ events \in Nat
    /\ saves \in 0..MaxSaves /\ records \in 0..MaxRecords /\ crashes \in 0..MaxCrashes

\* The vault never holds more than the policy in force allows, nothing when it is off,
\* unless the file system refused to let it go (update_policy, record, clear); no order
\* of saves, reloads, records and crashes makes an exception.
RetentionIsEnforced == Len(vault) > policy => refused

\* What the user saved is what the running store ends up with, however the reloads that
\* carry older policies interleave with newer saves, unless the last reload was abandoned
\* (app.py: "rapid saves converge on the on-disk state").
PolicyConverges == <>[](policy = disk \/ failed)

\* While the vault is off nothing new enters it (recovery.py, record: a record already
\* queued behind update_policy must never recreate the vault), not even through a crash.
DisabledNeverGrows ==
    [][policy = 0 /\ policy' = 0 => ToSet(vault') \subseteq ToSet(vault)]_vars
=============================================================================
