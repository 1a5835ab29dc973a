------------------------------ MODULE Privacy ------------------------------
(***************************************************************************)
(* Consent and the record of what leaves the machine (privacy.py): the     *)
(* ledger of consents and the log of egress, two files that the threads of *)
(* several processes share, and record_egress, which a provider of the     *)
(* cloud calls before it sends anything.                                   *)
(*                                                                         *)
(* Each access takes a lock of the process and then an advisory lock of    *)
(* the file, both within one deadline.  The ledger is replaced as a whole; *)
(* a record is appended to the log, and a process that is killed meanwhile *)
(* may leave a part of it, and so may a write that fails.  A consent is    *)
(* for a provider and what is sent to it, here a key; a ledger that cannot *)
(* be read counts as empty.  Files that are links, and permissions, are    *)
(* left out.                                                               *)
(***************************************************************************)
EXTENDS Integers, FiniteSets

CONSTANTS
    Threads,   \* the threads of all processes
    Processes,
    ProcessOf, \* the process of each thread
    Keys,      \* a provider with the one kind of data that is sent to it
    None,      \* no thread, and no key
    MaxOps,    \* bound: operations of all threads
    MaxFaults, \* bound: reads of the ledger that fail
    MaxDeaths  \* bound: processes killed

ASSUME PrivacyAssumption ==
    /\ ProcessOf \in [Threads -> Processes] /\ None \notin Threads \cup Keys
    /\ {MaxOps, MaxFaults, MaxDeaths} \subseteq Nat

VARIABLES
    ledger,   \* the keys in the consent ledger
    agreed,   \* those the user has agreed to last, by the updates made
    logged,   \* the records that tail() would return
    torn,     \* the log ends without a newline
    inner,    \* who has the lock of each process for each file
    outer,    \* who has the advisory lock of each file
    where,    \* where each thread is
    doc, work, key, id, \* the file, the operation, its key and its number
    base,     \* the entries it has read
    asked,    \* it found consent, and nothing has failed since
    delimit,  \* it found the log torn
    since,    \* its key has been agreed to at some time since the operation began
    begun,    \* operations so far
    sent,     \* the operations whose data was sent
    unasked,  \* some of it without consent
    faults, deaths

fileState == <<ledger, agreed, logged, torn>>
lockState == <<inner, outer>>
callState == <<doc, work, key, id>>
localState == <<base, asked, delimit, since>>
netState == <<sent, unasked>>
countState == <<begun, faults, deaths>>
privacyVars == <<fileState, lockState, where, callState, localState, netState, countState>>

Docs == {"ledger", "log"}
Faulty == faults > 0

PrivacyInit ==
    /\ ledger \in SUBSET Keys /\ agreed = ledger
    /\ logged = {} /\ torn \in BOOLEAN
    /\ inner = [p \in Processes |-> [d \in Docs |-> None]]
    /\ outer = [d \in Docs |-> None]
    /\ where = [t \in Threads |-> "idle"] /\ doc = [t \in Threads |-> "ledger"]
    /\ work = [t \in Threads |-> "none"] /\ key = [t \in Threads |-> None]
    /\ id = [t \in Threads |-> 0] /\ base = [t \in Threads |-> {}]
    /\ asked = [t \in Threads |-> FALSE] /\ delimit = [t \in Threads |-> FALSE]
    /\ since = [t \in Threads |-> FALSE]
    /\ sent = {} /\ unasked = FALSE
    /\ begun = 0 /\ faults = 0 /\ deaths = 0

Moves(t, from, to) == where[t] = from /\ where' = [where EXCEPT ![t] = to]

Starts(t) ==
    /\ begun < MaxOps /\ begun' = begun + 1 /\ id' = [id EXCEPT ![t] = begun + 1]
    /\ Moves(t, "idle", "enter")
    /\ \E w \in {"grant", "revoke", "send"}, k \in Keys :
        /\ work' = [work EXCEPT ![t] = w]
        /\ key' = [key EXCEPT ![t] = k]
        /\ since' = [since EXCEPT ![t] = k \in agreed]
    /\ UNCHANGED <<fileState, lockState, doc, base, asked, delimit, netState, faults, deaths>>

\* The operation is over, and its locals with it.
Ends(t) ==
    /\ doc' = [doc EXCEPT ![t] = "ledger"] /\ work' = [work EXCEPT ![t] = "none"]
    /\ key' = [key EXCEPT ![t] = None] /\ id' = [id EXCEPT ![t] = 0]
    /\ base' = [base EXCEPT ![t] = {}] /\ asked' = [asked EXCEPT ![t] = FALSE]
    /\ delimit' = [delimit EXCEPT ![t] = FALSE] /\ since' = [since EXCEPT ![t] = FALSE]

---------------------------------------------------------------------------
(* _coordinated_file_access *)

Inner(t) == inner[ProcessOf[t]][doc[t]]
FreesInner(t) == inner' = [inner EXCEPT ![ProcessOf[t]][doc[t]] = None]

TakeInner(t) ==
    /\ Inner(t) = None
    /\ Moves(t, "enter", "wait")
    /\ inner' = [inner EXCEPT ![ProcessOf[t]][doc[t]] = t]
    /\ UNCHANGED <<fileState, outer, callState, localState, netState, countState>>

Within(t) == IF doc[t] = "log" THEN "inspect" ELSE IF work[t] = "send" THEN "consult" ELSE "read"

\* Mutant: the lock of the process is all there is.
TakeOuterAnyway(t) ==
    /\ Moves(t, "wait", Within(t))
    /\ outer' = [outer EXCEPT ![doc[t]] = t]
    /\ UNCHANGED <<fileState, inner, callState, localState, netState, countState>>

TakeOuter(t) ==
    /\ outer[doc[t]] = None
    /\ Moves(t, "wait", Within(t))
    /\ outer' = [outer EXCEPT ![doc[t]] = t]
    /\ UNCHANGED <<fileState, inner, callState, localState, netState, countState>>

\* TimeoutError, at either lock.
Expires(t) ==
    /\ \/ Inner(t) # None /\ Moves(t, "enter", "idle") /\ UNCHANGED inner
       \/ outer[doc[t]] # None /\ Moves(t, "wait", "idle") /\ FreesInner(t)
    /\ Ends(t)
    /\ UNCHANGED <<fileState, outer, netState, countState>>

\* After a consent comes the log, after the log the request.
Leaves(t) ==
    /\ \/ /\ Moves(t, "leave", IF doc[t] = "log" THEN "post" ELSE "enter")
          /\ work[t] = "send" /\ asked[t]
          /\ doc' = [doc EXCEPT ![t] = "log"]
          /\ UNCHANGED <<work, key, id, localState>>
       \/ /\ Moves(t, "leave", "idle")
          /\ work[t] # "send" \/ ~asked[t]
          /\ Ends(t)
    /\ FreesInner(t)
    /\ outer' = [outer EXCEPT ![doc[t]] = None]
    /\ UNCHANGED <<fileState, netState, countState>>

---------------------------------------------------------------------------
(* ConsentLedger *)

\* _read_entries: what the file holds, or nothing if it cannot be read.
Reads(entries) ==
    \/ entries = ledger /\ UNCHANGED faults
    \/ entries = {} /\ faults < MaxFaults /\ faults' = faults + 1

ReadEntries(t) ==
    /\ Moves(t, "read", "replace")
    /\ \E entries \in SUBSET Keys : Reads(entries) /\ base' = [base EXCEPT ![t] = entries]
    /\ UNCHANGED <<fileState, lockState, callState, asked, delimit, since, netState, begun, deaths>>

\* grant or revoke: the file is replaced at once, or the write fails.
Replace(t) ==
    /\ Moves(t, "replace", "leave")
    /\ \/ /\ work[t] = "grant"
          /\ ledger' = base[t] \cup {key[t]} /\ agreed' = agreed \cup {key[t]}
          /\ since' = [u \in Threads |-> since[u] \/ key[u] = key[t]]
       \/ /\ work[t] = "revoke"
          /\ ledger' = base[t] \ {key[t]} /\ agreed' = agreed \ {key[t]}
          /\ UNCHANGED since
       \/ UNCHANGED <<ledger, agreed, since>>
    /\ UNCHANGED <<logged, torn, lockState, callState, base, asked, delimit, netState, countState>>

\* Mutant: a provider that exists does not ask again.
ConsultNothing(t) ==
    /\ Moves(t, "consult", "leave")
    /\ asked' = [asked EXCEPT ![t] = TRUE]
    /\ UNCHANGED <<fileState, lockState, callState, base, delimit, since, netState, countState>>

\* has_consent, which record_egress asks each time.
Consult(t) ==
    /\ Moves(t, "consult", "leave")
    /\ \E entries \in SUBSET Keys :
        Reads(entries) /\ asked' = [asked EXCEPT ![t] = key[t] \in entries]
    /\ UNCHANGED <<fileState, lockState, callState, base, delimit, since, netState, begun, deaths>>

---------------------------------------------------------------------------
(* EgressLog.record, and the request *)

Inspect(t) ==
    /\ Moves(t, "inspect", "append")
    /\ delimit' = [delimit EXCEPT ![t] = torn]
    /\ UNCHANGED <<fileState, lockState, callState, base, asked, since, netState, countState>>

\* A write that is cut short leaves nothing, the delimiter, a part of the record, all but its
\* newline, or all of it.
CutShort(t) == torn' \in BOOLEAN /\ logged' \in {logged, logged \cup {id[t]}}

\* Mutant: a part of a record is not delimited, and the next one is lost with it.
AppendUndelimited(t) ==
    /\ Moves(t, "append", "leave")
    /\ logged' = IF torn THEN logged ELSE logged \cup {id[t]}
    /\ torn' = FALSE
    /\ UNCHANGED <<ledger, agreed, lockState, callState, localState, netState, countState>>

\* A record that follows a part of one without a newline between is lost.
AppendRecord(t) ==
    /\ Moves(t, "append", "leave")
    /\ \/ /\ logged' = IF torn /\ ~delimit[t] THEN logged ELSE logged \cup {id[t]}
          /\ torn' = FALSE
          /\ UNCHANGED asked
       \/ CutShort(t) /\ asked' = [asked EXCEPT ![t] = FALSE]
    /\ UNCHANGED <<ledger, agreed, lockState, callState, base, delimit, since, netState,
                   countState>>

Post(t) ==
    /\ Moves(t, "post", "idle")
    /\ sent' = sent \cup {id[t]}
    /\ unasked' = (unasked \/ ~since[t])
    /\ Ends(t)
    /\ UNCHANGED <<fileState, lockState, countState>>

---------------------------------------------------------------------------
(* The system *)

Of(p) == {t \in Threads : ProcessOf[t] = p}

Torn(p) ==
    IF \E t \in Of(p) : where[t] = "append"
    THEN \E t \in Of(p) : where[t] = "append" /\ CutShort(t)
    ELSE UNCHANGED <<torn, logged>>

Dies(p) ==
    /\ deaths < MaxDeaths /\ deaths' = deaths + 1
    /\ where' = [t \in Threads |-> IF t \in Of(p) THEN "dead" ELSE where[t]]
    /\ inner' = [inner EXCEPT ![p] = [d \in Docs |-> None]]
    /\ outer' = [d \in Docs |-> IF outer[d] \in Of(p) THEN None ELSE outer[d]]
    /\ Torn(p)
    /\ UNCHANGED <<ledger, agreed, callState, localState, netState, begun, faults>>

\* The same program again.
Restarts(t) ==
    /\ Moves(t, "dead", "idle")
    /\ Ends(t)
    /\ UNCHANGED <<fileState, lockState, netState, countState>>

Accesses(t) == TakeInner(t) \/ TakeOuter(t) \/ Expires(t) \/ Leaves(t)
Works(t) ==
    ReadEntries(t) \/ Replace(t) \/ Consult(t) \/ Inspect(t) \/ AppendRecord(t) \/ Post(t)

PrivacyNext ==
    \/ \E t \in Threads : Starts(t) \/ Accesses(t) \/ Works(t) \/ Restarts(t)
    \/ \E p \in Processes : Dies(p)

PrivacySpec == PrivacyInit /\ [][PrivacyNext]_privacyVars

---------------------------------------------------------------------------
(* Properties *)

Places ==
    {"idle", "enter", "wait", "read", "replace", "consult", "inspect", "append", "leave", "post",
     "dead"}

\* Types of the state.
PrivacyTypeOK ==
    /\ ledger \subseteq Keys /\ agreed \subseteq Keys /\ torn \in BOOLEAN
    /\ logged \subseteq 0..MaxOps /\ sent \subseteq 0..MaxOps
    /\ inner \in [Processes -> [Docs -> Threads \cup {None}]]
    /\ outer \in [Docs -> Threads \cup {None}]
    /\ where \in [Threads -> Places] /\ doc \in [Threads -> Docs]
    /\ work \in [Threads -> {"none", "grant", "revoke", "send"}]
    /\ key \in [Threads -> Keys \cup {None}] /\ id \in [Threads -> 0..MaxOps]
    /\ base \in [Threads -> SUBSET Keys] /\ asked \in [Threads -> BOOLEAN]
    /\ delimit \in [Threads -> BOOLEAN] /\ since \in [Threads -> BOOLEAN]
    /\ unasked \in BOOLEAN /\ begun \in 0..MaxOps
    /\ faults \in 0..MaxFaults /\ deaths \in 0..MaxDeaths

\* No grant and no revocation is lost to a concurrent one of any thread or process, or to a
\* crash; a ledger that could not be read loses consents and never gains one.
LedgerIsAgreed == ledger \subseteq agreed /\ (Faulty \/ ledger = agreed)

\* Nothing is sent that the user had not agreed to at some time since the provider asked: a
\* revocation that is over stops the providers that exist already (record_egress).
SentOnlyAgreed == ~unasked

\* What was sent is in the log and can be read there, whoever was killed while it wrote: "future
\* valid metadata is never poisoned".
SentIsLogged == sent \subseteq logged
=============================================================================
