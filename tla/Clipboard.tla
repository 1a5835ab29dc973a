----------------------------- MODULE Clipboard -----------------------------
(***************************************************************************)
(* Inserting a text through the Windows clipboard (inject/clipboard.py,    *)
(* inject/router.py).  Every process of the program that inserts a text    *)
(* runs one transaction: take the mutex that all of them share, clone the  *)
(* user's clipboard, publish the text, read the clipboard's sequence       *)
(* number, paste, wait, and put the clone back unless the number says that *)
(* somebody has written since.  Other applications copy whenever they      *)
(* like, hold the clipboard open, take their time to read a paste; a       *)
(* process may die anywhere, which abandons the mutex.                     *)
(*                                                                         *)
(* A step opens and closes the clipboard at most once, so it is alone with *)
(* it.  The text of a client is the client itself; a copy of the user is   *)
(* its number.  Injection with restore_clipboard = false is left out.      *)
(***************************************************************************)
EXTENDS Integers, FiniteSets, Sequences

CONSTANTS
    Clients,       \* the processes that insert texts, one at a time each
    Opaque,        \* the copies with a format that cannot be cloned
    Empty,         \* nothing is on the clipboard
    Free,          \* nobody holds the mutex
    Abandoned,     \* its holder has died
    MaxCopies,     \* bound: copies by the user
    MaxInjections, \* bound: injections of all clients
    MaxCrashes     \* bound: processes that die

ASSUME ClipboardAssumption ==
    /\ MaxCopies \in Nat /\ MaxInjections \in Nat /\ MaxCrashes \in Nat
    /\ Opaque \subseteq 1..MaxCopies
    /\ Clients \cap (0..MaxCopies) = {}
    /\ Empty \notin Clients \cup (0..MaxCopies)
    /\ Free \notin Clients /\ Abandoned \notin Clients /\ Free # Abandoned

VARIABLES
    clip,      \* what is on the clipboard
    seq,       \* its sequence number
    mutex,     \* the holder of ClipboardTransaction.v1
    at,        \* where each client is
    native,    \* its target is an edit control that takes messages
    previous,  \* the clone it took
    number,    \* the sequence number it read, or -1
    pending,   \* a paste has been sent that the target has not read
    refused,   \* it failed before it had changed the clipboard
    got,       \* what its target has received in this injection
    late,      \* a target read a paste after the wait for it, or was sent the next before
    latest,    \* the number of the user's last copy
    raced,     \* that copy fell between two steps that do not see it
    broken,    \* a clone could not be put back
    injections, crashes

clipVars == <<clip, seq>>
userVars == <<latest, raced, broken>>
targetVars == <<pending, got, late>>
bounds == <<injections, crashes>>
vars == <<clipVars, mutex, at, native, previous, number, refused, targetVars, userVars,
          bounds>>

Values == (0..MaxCopies) \cup Clients \cup {Empty}

Init ==
    /\ clip = 0 /\ seq = 0
    /\ mutex = Free
    /\ at = [p \in Clients |-> "idle"]
    /\ native = [p \in Clients |-> FALSE]
    /\ previous = [p \in Clients |-> Empty]
    /\ number = [p \in Clients |-> -1]
    /\ refused = [p \in Clients |-> FALSE]
    /\ pending = [p \in Clients |-> FALSE]
    /\ got = [p \in Clients |-> <<>>]
    /\ late = FALSE /\ latest = 0 /\ raced = FALSE /\ broken = FALSE
    /\ injections = 0 /\ crashes = 0

---------------------------------------------------------------------------
(* The transaction *)

Goes(p, from, to) == at[p] = from /\ at' = [at EXCEPT ![p] = to]

\* The transaction's own variables go with it.
Forgets(p) ==
    /\ previous' = [previous EXCEPT ![p] = Empty]
    /\ number' = [number EXCEPT ![p] = -1]
    /\ refused' = [refused EXCEPT ![p] = FALSE]

Write(value) == clip' = value /\ seq' = seq + 1

\* The route is resolved under the injection lock of the process.
Begin(p) ==
    /\ Goes(p, "idle", "mutex")
    /\ injections < MaxInjections /\ injections' = injections + 1
    /\ \E edit \in BOOLEAN : native' = [native EXCEPT ![p] = edit]
    /\ got' = [got EXCEPT ![p] = <<>>]
    /\ UNCHANGED <<clipVars, mutex, previous, number, refused, pending, late, userVars,
                   crashes>>

\* Mutant: a process that cannot wait for the mutex goes on without it.
AcquireAnyway(p) ==
    /\ Goes(p, "mutex", "snapshot")
    /\ mutex' = p
    /\ UNCHANGED <<clipVars, native, previous, number, refused, targetVars, userVars, bounds>>

\* WaitForSingleObject: an abandoned mutex is taken over; a wait may time out.
Acquire(p) ==
    /\ \/ Goes(p, "mutex", "snapshot") /\ mutex \in {Free, Abandoned} /\ mutex' = p
       \/ Goes(p, "mutex", "idle") /\ mutex \in Clients /\ UNCHANGED mutex
    /\ UNCHANGED <<clipVars, native, previous, number, refused, targetVars, userVars, bounds>>

Refuses(p) == refused' = [refused EXCEPT ![p] = TRUE]

\* Clone every format, or fail: a format has no clone, or another application keeps the
\* clipboard open.
Snapshot(p) ==
    /\ \/ /\ Goes(p, "snapshot", "set") /\ clip \notin Opaque
          /\ previous' = [previous EXCEPT ![p] = clip]
          /\ UNCHANGED refused
       \/ Goes(p, "snapshot", "release") /\ Refuses(p) /\ UNCHANGED previous
    /\ UNCHANGED <<clipVars, mutex, native, number, targetVars, userVars, bounds>>

\* Publish the text; or do not get the clipboard open; or fail after that, which may have
\* emptied it, and put the clone back without looking.
Publish(p) ==
    /\ \/ Goes(p, "set", "number") /\ Write(p) /\ UNCHANGED refused
       \/ Goes(p, "set", "release") /\ Refuses(p) /\ UNCHANGED clipVars
       \/ /\ Goes(p, "set", "restore") /\ UNCHANGED refused
          /\ Write(Empty) \/ UNCHANGED clipVars
    /\ UNCHANGED <<mutex, native, previous, number, targetVars, userVars, bounds>>

ReadNumber(p) ==
    /\ Goes(p, "number", "paste")
    /\ number' = [number EXCEPT ![p] = seq]
    /\ UNCHANGED <<clipVars, mutex, native, previous, refused, targetVars, userVars, bounds>>

\* Ctrl+V, unless the focus has moved, or one WM_PASTE, whose effect is watched for: an
\* edit control that has not changed within the grace period ends the transaction.
Paste(p) ==
    /\ \/ /\ Goes(p, "paste", "wait")
          /\ pending' = [pending EXCEPT ![p] = TRUE] /\ late' = (late \/ pending[p])
       \/ Goes(p, "paste", "check") /\ UNCHANGED <<pending, late>>
    /\ UNCHANGED <<clipVars, mutex, native, previous, number, refused, got, userVars, bounds>>

\* The target reads the clipboard when it handles the paste.
Consume(p) ==
    /\ pending[p]
    /\ pending' = [pending EXCEPT ![p] = FALSE]
    /\ got' = [got EXCEPT ![p] = Append(@, clip)]
    /\ late' = (late \/ at[p] # "wait")
    /\ UNCHANGED <<clipVars, mutex, at, native, previous, number, refused, userVars, bounds>>

\* The delay of a Ctrl+V, or the grace period of an edit control, is over.
WaitEnds(p) ==
    /\ Goes(p, "wait", "check")
    /\ UNCHANGED <<clipVars, mutex, native, previous, number, refused, targetVars, userVars,
                   bounds>>

\* Mutant: the clone is put back whatever has been written since.
CheckNothing(p) ==
    /\ Goes(p, "check", "restore")
    /\ UNCHANGED <<clipVars, mutex, native, previous, number, refused, targetVars, userVars,
                   bounds>>

Check(p) ==
    /\ Goes(p, "check", IF number[p] # seq THEN "release" ELSE "restore")
    /\ UNCHANGED <<clipVars, mutex, native, previous, number, refused, targetVars, userVars,
                   bounds>>

\* Put the clone back.  ACCESS_DENIED is retried once; another failure, or a second one,
\* is raised, and what it leaves is the text or an emptied clipboard.
Restore(p) ==
    /\ \/ at[p] \in {"restore", "retry"} /\ Write(previous[p]) /\ UNCHANGED broken
          /\ at' = [at EXCEPT ![p] = "release"]
       \/ Goes(p, "restore", "retry") /\ UNCHANGED <<clipVars, broken>>
       \/ /\ at[p] \in {"restore", "retry"} /\ broken' = TRUE
          /\ at' = [at EXCEPT ![p] = "release"]
          /\ Write(Empty) \/ UNCHANGED clipVars
    /\ UNCHANGED <<mutex, native, previous, number, refused, targetVars, latest, raced, bounds>>

\* Mutant: the fallback for any failure of the clipboard.
ReleaseFallingBack(p) ==
    /\ Goes(p, "release", IF native[p] THEN "fallback" ELSE "idle")
    /\ mutex' = Free
    /\ Forgets(p)
    /\ UNCHANGED <<clipVars, native, targetVars, userVars, bounds>>

\* The mutex is released on every way out; an edit control is then served without the
\* clipboard if that has not been changed.
Release(p) ==
    /\ Goes(p, "release", IF refused[p] /\ native[p] THEN "fallback" ELSE "idle")
    /\ mutex' = Free
    /\ Forgets(p)
    /\ UNCHANGED <<clipVars, native, targetVars, userVars, bounds>>

\* EM_REPLACESEL, bound to the edit control.
Fallback(p) ==
    /\ Goes(p, "fallback", "idle")
    /\ got' = [got EXCEPT ![p] = Append(@, p)] \/ UNCHANGED got
    /\ UNCHANGED <<clipVars, mutex, native, previous, number, refused, pending, late, userVars,
                   bounds>>

---------------------------------------------------------------------------
(* The rest of the desktop *)

\* Between these steps a transaction does not see a copy of the user.
Blind(p) == at[p] \in {"set", "number", "restore", "retry"}

Copy ==
    /\ latest < MaxCopies
    /\ latest' = latest + 1
    /\ Write(latest + 1)
    /\ raced' = \E p \in Clients : Blind(p)
    /\ broken' = FALSE
    /\ UNCHANGED <<mutex, at, native, previous, number, refused, targetVars, bounds>>

\* A process dies; the kernel marks its mutex.
Crash(p) ==
    /\ at[p] # "idle" /\ crashes < MaxCrashes /\ crashes' = crashes + 1
    /\ at' = [at EXCEPT ![p] = "idle"]
    /\ mutex' = IF mutex = p THEN Abandoned ELSE mutex
    /\ broken' = (broken \/ (mutex = p /\ clip # latest))
    /\ Forgets(p)
    /\ UNCHANGED <<clipVars, native, targetVars, latest, raced, injections>>

Transaction(p) ==
    \/ Acquire(p) \/ Snapshot(p) \/ Publish(p) \/ ReadNumber(p) \/ Paste(p) \/ WaitEnds(p)
    \/ Check(p) \/ Restore(p) \/ Release(p) \/ Fallback(p)

Next ==
    \/ \E p \in Clients : Begin(p) \/ Transaction(p) \/ Consume(p) \/ Crash(p)
    \/ Copy

Spec == Init /\ [][Next]_vars

---------------------------------------------------------------------------
(* Properties *)

Inside == {"snapshot", "set", "number", "paste", "wait", "check", "restore", "retry", "release"}

\* Every variable keeps its type, and the mutex is with the one client that is inside its
\* transaction, however the others failed or died.
TypeOK ==
    /\ clip \in Values /\ seq \in Nat
    /\ mutex \in Clients \cup {Free, Abandoned}
    /\ at \in [Clients -> Inside \cup {"idle", "mutex", "fallback"}]
    /\ \A p \in Clients : at[p] \in Inside <=> mutex = p
    /\ native \in [Clients -> BOOLEAN] /\ refused \in [Clients -> BOOLEAN]
    /\ previous \in [Clients -> Values]
    /\ number \in [Clients -> Nat \cup {-1}]
    /\ pending \in [Clients -> BOOLEAN]
    /\ got \in [Clients -> Seq(Values)]
    /\ late \in BOOLEAN /\ raced \in BOOLEAN /\ broken \in BOOLEAN
    /\ latest \in 0..MaxCopies
    /\ injections \in 0..MaxInjections /\ crashes \in 0..MaxCrashes

\* README: "your previous clipboard is restored".  With no transaction under way the
\* clipboard holds what the user copied last, whatever was inserted, refused or timed out
\* since and by how many processes; unless that copy fell into one of the steps that do
\* not look for it, or a clone could not be put back (inject/clipboard.py).
LatestCopyKept ==
    (\A p \in Clients : at[p] \notin Inside) /\ ~raced /\ ~broken => clip = latest

\* "Retrying via another backend could insert the same dictation twice" (inject/router.py):
\* no mixture of refusals, timeouts and failures does, if targets read pastes in time.
InsertedOnce ==
    ~late => \A p \in Clients : Cardinality({i \in DOMAIN got[p] : got[p][i] = p}) <= 1

\* A target that reads its paste in time gets the text meant for it or something the user
\* copied during the transaction; never the text of another process, nor the old contents.
OwnText ==
    ~late => \A p \in Clients : \A i \in DOMAIN got[p] :
        got[p][i] = p \/ got[p][i] \in (0..MaxCopies) \ {previous[p]}
=============================================================================
