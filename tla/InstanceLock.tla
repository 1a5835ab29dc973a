---------------------------- MODULE InstanceLock ----------------------------
(***************************************************************************)
(* The single-instance lock (attach/single_instance.py) and the launches   *)
(* that compete for it (run_app and handle_already_running of app.py).     *)
(*                                                                         *)
(* On POSIX a launch opens the lock file, creates it if need be, checks    *)
(* that the path still names what it opened, takes an advisory lock on it, *)
(* checks again and writes its pid.  The owner removes the file while it   *)
(* still holds the lock.  A launch that was refused removes a stale file   *)
(* under the same lock and tries once more.  On Windows a named mutex      *)
(* decides, and the file is a note of the pid; a refused launch removes    *)
(* the note of a dead process without any lock.                            *)
(*                                                                         *)
(* A process may be killed between any two system calls; the system then   *)
(* closes its descriptors and handles and may give its pid to another      *)
(* program.  Files are numbered in the order of their creation: number 0   *)
(* is no file, and a number is not used again while the file is open.      *)
(* Links and foreign owners of the file, which are refused, are left out.  *)
(* The names of this module are its own, so that another can be extended   *)
(* together with it.                                                       *)
(***************************************************************************)
EXTENDS Integers, FiniteSets

CONSTANTS
    Launches,   \* the processes, each launched at most once
    Nobody,     \* no process
    MaxFiles,   \* bound: lock files ever created
    MaxRetries, \* the attempts of acquire() at a failing system call
    MaxErrors,  \* bound: system calls that fail
    MaxKills    \* bound: processes killed

ASSUME InstanceAssumption ==
    /\ MaxFiles \in Nat /\ MaxRetries \in Nat \ {0} /\ MaxErrors \in Nat /\ MaxKills \in Nat
    /\ Nobody \notin Launches

VARIABLES
    windows,  \* the platform
    path,     \* the file the lock path names
    files,    \* files created so far
    flocks,   \* who holds the advisory lock of each file
    pidIn,    \* whose pid each file holds
    handles,  \* the processes with a handle of the mutex
    stage,    \* where each process is
    fd,       \* the file it has open
    attempts, \* attempts of this acquire() that have failed
    again,    \* it is in its second acquire()
    lone,     \* no other process has been about since it was launched
    hurt,     \* one of its system calls has failed
    errors, kills

fileVars == <<path, files, flocks, pidIn>>
launchVars == <<stage, fd, attempts, again>>
pastVars == <<lone, hurt>>
lockBounds == <<errors, kills>>
lockVars == <<windows, fileVars, handles, launchVars, pastVars, lockBounds>>

Files == 1..MaxFiles

\* A file may be left over from an earlier crash.
LockInit ==
    /\ windows \in BOOLEAN
    /\ files \in 0..1 /\ files <= MaxFiles /\ path = files
    /\ flocks = [i \in Files |-> Nobody]
    /\ pidIn = [i \in Files |-> Nobody]
    /\ handles = {}
    /\ stage = [p \in Launches |-> "unborn"]
    /\ fd = [p \in Launches |-> 0]
    /\ attempts = [p \in Launches |-> 0]
    /\ again = [p \in Launches |-> FALSE]
    /\ lone = [p \in Launches |-> FALSE]
    /\ hurt = [p \in Launches |-> FALSE]
    /\ errors = 0 /\ kills = 0

Over == {"unborn", "failed", "left", "dead"}
About(p) == stage[p] \notin Over

Turns(p, from, to) == stage[p] = from /\ stage' = [stage EXCEPT ![p] = to]

\* The file is created if the path names none.
Opens(p) ==
    IF path = 0
    THEN /\ files < MaxFiles
         /\ files' = files + 1 /\ path' = files + 1
         /\ fd' = [fd EXCEPT ![p] = files + 1]
    ELSE /\ fd' = [fd EXCEPT ![p] = path]
         /\ UNCHANGED <<files, path>>

\* close() drops the advisory lock that belongs to the descriptor.
Closes(p) ==
    /\ fd' = [fd EXCEPT ![p] = 0]
    /\ flocks' = [i \in Files |-> IF flocks[i] = p THEN Nobody ELSE flocks[i]]

Matches(p) == path = fd[p]

---------------------------------------------------------------------------
(* Launching, and what becomes of a launch that is refused *)

Launch(p) ==
    /\ Turns(p, "unborn", IF windows THEN "mutex" ELSE "open")
    /\ lone' = [q \in Launches |-> IF q = p THEN \A r \in Launches : ~About(r)
                                            ELSE lone[q] /\ ~About(q)]
    /\ UNCHANGED <<windows, fileVars, handles, fd, attempts, again, hurt, lockBounds>>

\* A system call of acquire() fails: try again, and at last give up as if another process
\* were running.
Fails(p) ==
    /\ errors < MaxErrors /\ errors' = errors + 1
    /\ hurt' = [hurt EXCEPT ![p] = TRUE]
    /\ attempts' = [attempts EXCEPT ![p] = @ + 1]
    /\ stage' = [stage EXCEPT ![p] = IF attempts[p] + 1 < MaxRetries
                                     THEN IF windows THEN "reclaim" ELSE "open"
                                     ELSE IF windows THEN "giveUp" ELSE "refused"]
    /\ UNCHANGED kills

\* handle_already_running: nothing was cleared, so another process is said to be running.
Told(p) ==
    /\ stage' = [stage EXCEPT ![p] = "failed"]
    /\ UNCHANGED <<again, attempts>>

\* force_clear_stale_lock has cleared something, which is worth one retry.
Retries(p) ==
    \/ again[p] /\ Told(p)
    \/ /\ ~again[p] /\ again' = [again EXCEPT ![p] = TRUE]
       /\ stage' = [stage EXCEPT ![p] = IF windows THEN "mutex" ELSE "open"]
       /\ attempts' = [attempts EXCEPT ![p] = 0]

---------------------------------------------------------------------------
(* POSIX *)

Open(p) ==
    /\ stage[p] = "open" /\ ~windows
    /\ \/ /\ Turns(p, "open", "validate")
          /\ Opens(p)
          /\ UNCHANGED <<attempts, pastVars, lockBounds>>
       \/ Fails(p) /\ UNCHANGED <<path, files, fd, lone>>
    /\ UNCHANGED <<windows, flocks, pidIn, handles, again>>

\* _validate_posix_lock_fd, before the lock and again under it.
Validate(p) ==
    /\ \/ Matches(p) /\ Turns(p, "validate", "flock") /\ UNCHANGED <<fd, flocks>>
       \/ ~Matches(p) /\ Turns(p, "validate", "refused") /\ Closes(p)
    /\ UNCHANGED <<windows, path, files, pidIn, handles, attempts, again, pastVars, lockBounds>>

Flock(p) ==
    /\ stage[p] = "flock"
    /\ \/ /\ flocks[fd[p]] = Nobody
          /\ Turns(p, "flock", "revalidate")
          /\ flocks' = [flocks EXCEPT ![fd[p]] = p]
          /\ UNCHANGED fd
       \/ flocks[fd[p]] # Nobody /\ Turns(p, "flock", "refused") /\ Closes(p)
    /\ UNCHANGED <<windows, path, files, pidIn, handles, attempts, again, pastVars, lockBounds>>

\* Mutant: the file is not looked at again under the lock.
RevalidateNothing(p) ==
    /\ Turns(p, "revalidate", "write")
    /\ UNCHANGED <<windows, fileVars, handles, fd, attempts, again, pastVars, lockBounds>>

Revalidate(p) ==
    /\ \/ Matches(p) /\ Turns(p, "revalidate", "write") /\ UNCHANGED <<fd, flocks>>
       \/ ~Matches(p) /\ Turns(p, "revalidate", "refused") /\ Closes(p)
    /\ UNCHANGED <<windows, path, files, pidIn, handles, attempts, again, pastVars, lockBounds>>

\* The pid is written, and the process owns the lock.
WritePid(p) ==
    /\ stage[p] = "write"
    /\ \/ /\ Turns(p, "write", "running")
          /\ pidIn' = [pidIn EXCEPT ![fd[p]] = p]
          /\ UNCHANGED <<fd, flocks, attempts, pastVars, lockBounds>>
       \/ Fails(p) /\ Closes(p) /\ UNCHANGED <<pidIn, lone>>
    /\ UNCHANGED <<windows, path, files, handles, again>>

\* release(): compare, unlink and unlock.
Matched(p) ==
    /\ ~windows
    /\ Turns(p, "running", IF Matches(p) THEN "unlink" ELSE "unlock")
    /\ UNCHANGED <<windows, fileVars, handles, fd, attempts, again, pastVars, lockBounds>>

Unlink(p) ==
    /\ Turns(p, "unlink", "unlock")
    /\ path' = 0
    /\ UNCHANGED <<windows, files, flocks, pidIn, handles, fd, attempts, again, pastVars,
                   lockBounds>>

Unlock(p) ==
    /\ Turns(p, "unlock", "left")
    /\ Closes(p)
    /\ UNCHANGED <<windows, path, files, pidIn, handles, attempts, again, pastVars, lockBounds>>

\* _force_clear_posix_lock: open what the path names, if anything, and compare.
ClearOpen(p) ==
    /\ stage[p] = "refused" /\ ~windows
    /\ \/ /\ path = 0 /\ Told(p) /\ UNCHANGED fd
       \/ /\ path # 0 /\ Turns(p, "refused", "clearMatch")
          /\ fd' = [fd EXCEPT ![p] = path]
          /\ UNCHANGED <<again, attempts>>
    /\ UNCHANGED <<windows, fileVars, handles, pastVars, lockBounds>>

ClearMatch(p) ==
    /\ stage[p] = "clearMatch"
    /\ \/ Matches(p) /\ Turns(p, "clearMatch", "clearFlock")
          /\ UNCHANGED <<fd, flocks, again, attempts>>
       \/ ~Matches(p) /\ Closes(p) /\ Told(p)
    /\ UNCHANGED <<windows, path, files, pidIn, handles, pastVars, lockBounds>>

\* Mutant: a lock that is held does not stop it.
ClearFlockAnyway(p) ==
    /\ Turns(p, "clearFlock", "clearRematch")
    /\ flocks' = [flocks EXCEPT ![fd[p]] = p]
    /\ UNCHANGED <<windows, path, files, pidIn, handles, fd, again, attempts, pastVars,
                   lockBounds>>

ClearFlock(p) ==
    /\ stage[p] = "clearFlock"
    /\ \/ /\ flocks[fd[p]] = Nobody
          /\ Turns(p, "clearFlock", "clearRematch")
          /\ flocks' = [flocks EXCEPT ![fd[p]] = p]
          /\ UNCHANGED <<fd, again, attempts>>
       \/ flocks[fd[p]] # Nobody /\ Closes(p) /\ Told(p)
    /\ UNCHANGED <<windows, path, files, pidIn, handles, pastVars, lockBounds>>

ClearRematch(p) ==
    /\ stage[p] = "clearRematch"
    /\ \/ Matches(p) /\ Turns(p, "clearRematch", "clearUnlink")
          /\ UNCHANGED <<fd, flocks, again, attempts>>
       \/ ~Matches(p) /\ Closes(p) /\ Told(p)
    /\ UNCHANGED <<windows, path, files, pidIn, handles, pastVars, lockBounds>>

ClearUnlink(p) ==
    /\ Turns(p, "clearUnlink", "clearUnlock")
    /\ path' = 0
    /\ UNCHANGED <<windows, files, flocks, pidIn, handles, fd, attempts, again, pastVars,
                   lockBounds>>

ClearUnlock(p) ==
    /\ stage[p] = "clearUnlock"
    /\ Closes(p)
    /\ Retries(p)
    /\ UNCHANGED <<windows, path, files, pidIn, handles, pastVars, lockBounds>>

---------------------------------------------------------------------------
(* Windows *)

\* CreateMutexW opens the mutex if another handle keeps it alive.
CreateMutex(p) ==
    /\ Turns(p, "mutex", IF handles = {} THEN "reclaim" ELSE "exists")
    /\ handles' = handles \cup {p}
    /\ UNCHANGED <<windows, fileVars, fd, attempts, again, pastVars, lockBounds>>

\* ERROR_ALREADY_EXISTS, or the attempts are used up: close the handle.
CloseHandle(p) ==
    /\ stage[p] \in {"exists", "giveUp"}
    /\ stage' = [stage EXCEPT ![p] = "refused"]
    /\ handles' = handles \ {p}
    /\ UNCHANGED <<windows, fileVars, fd, attempts, again, pastVars, lockBounds>>

\* Mutant: the note of a live pid is believed, although the pid may be another program's.
ReclaimIfDead(p) ==
    /\ stage[p] = "reclaim"
    /\ \/ Turns(p, "reclaim", "create") /\ path' = 0
       \/ Turns(p, "reclaim", "giveUp") /\ path # 0 /\ pidIn[path] # Nobody /\ UNCHANGED path
    /\ UNCHANGED <<windows, files, flocks, pidIn, handles, fd, attempts, again, pastVars,
                   lockBounds>>

\* _reclaim_if_stale and _try_acquire_once: whatever the note says, the mutex proves it stale.
Reclaim(p) ==
    /\ stage[p] = "reclaim"
    /\ \/ Turns(p, "reclaim", "create") /\ path' = 0
          /\ UNCHANGED <<attempts, pastVars, lockBounds>>
       \/ Fails(p) /\ UNCHANGED <<path, lone>>
    /\ UNCHANGED <<windows, files, flocks, pidIn, handles, fd, again>>

\* O_EXCL: a file that has appeared fails the attempt.
Create(p) ==
    /\ Turns(p, "create", "note") /\ path = 0
    /\ Opens(p)
    /\ UNCHANGED <<windows, flocks, pidIn, handles, attempts, again, pastVars, lockBounds>>

Note(p) ==
    /\ stage[p] = "note"
    /\ \/ /\ Turns(p, "note", "running")
          /\ pidIn' = [pidIn EXCEPT ![fd[p]] = p]
          /\ UNCHANGED <<attempts, pastVars, lockBounds>>
       \/ Fails(p) /\ UNCHANGED <<pidIn, lone>>
    /\ fd' = [fd EXCEPT ![p] = 0]
    /\ UNCHANGED <<windows, path, files, flocks, handles, again>>

\* release(): remove the note if it is one's own, then close the handle.
RemoveNote(p) ==
    /\ windows
    /\ Turns(p, "running", "closing")
    /\ path' = IF path # 0 /\ pidIn[path] = p THEN 0 ELSE path
    /\ UNCHANGED <<windows, files, flocks, pidIn, handles, fd, attempts, again, pastVars,
                   lockBounds>>

Leave(p) ==
    /\ Turns(p, "closing", "left")
    /\ handles' = handles \ {p}
    /\ UNCHANGED <<windows, fileVars, fd, attempts, again, pastVars, lockBounds>>

\* force_clear_stale_lock: the pid of a process that is over may be another program's by
\* now, and a note that is being written has none.
ReadNote(p) ==
    /\ stage[p] = "refused" /\ windows
    /\ \/ /\ path # 0 /\ (pidIn[path] # Nobody => ~About(pidIn[path]))
          /\ Turns(p, "refused", "removeStale")
          /\ UNCHANGED <<again, attempts>>
       \/ /\ path # 0 => pidIn[path] # Nobody
          /\ Told(p)
    /\ UNCHANGED <<windows, fileVars, handles, fd, pastVars, lockBounds>>

\* The file may be another one by now; one that is open cannot be removed, which raises.
RemoveStale(p) ==
    /\ stage[p] = "removeStale"
    /\ IF path # 0 /\ path \in {fd[q] : q \in Launches}
       THEN Turns(p, "removeStale", "failed") /\ UNCHANGED <<path, again, attempts>>
       ELSE path' = 0 /\ Retries(p)
    /\ UNCHANGED <<windows, files, flocks, pidIn, handles, fd, pastVars, lockBounds>>
---------------------------------------------------------------------------
(* The system *)

\* The process dies between two system calls.
Kill(p) ==
    /\ About(p)
    /\ kills < MaxKills /\ kills' = kills + 1
    /\ stage' = [stage EXCEPT ![p] = "dead"]
    /\ Closes(p)
    /\ handles' = handles \ {p}
    /\ UNCHANGED <<windows, path, files, pidIn, attempts, again, pastVars, errors>>

Acquires(p) == Open(p) \/ Validate(p) \/ Flock(p) \/ Revalidate(p) \/ WritePid(p)
Releases(p) == Matched(p) \/ Unlink(p) \/ Unlock(p) \/ RemoveNote(p) \/ Leave(p)
Clears(p) ==
    \/ ClearOpen(p) \/ ClearMatch(p) \/ ClearFlock(p) \/ ClearRematch(p)
    \/ ClearUnlink(p) \/ ClearUnlock(p) \/ ReadNote(p) \/ RemoveStale(p)
AcquiresMutex(p) == CreateMutex(p) \/ CloseHandle(p) \/ Reclaim(p) \/ Create(p) \/ Note(p)

LockNext ==
    \E p \in Launches :
        \/ Launch(p) \/ Acquires(p) \/ AcquiresMutex(p)
        \/ Releases(p) \/ Clears(p) \/ Kill(p)

LockSpec == LockInit /\ [][LockNext]_lockVars

---------------------------------------------------------------------------
(* Properties *)

Stages ==
    Over \cup
        {"open", "validate", "flock", "revalidate", "write", "running", "unlink", "unlock",
         "refused", "clearMatch", "clearFlock", "clearRematch", "clearUnlink", "clearUnlock",
         "mutex", "exists", "giveUp", "reclaim", "create", "note", "closing", "removeStale"}

\* Types of the state.
LockTypeOK ==
    /\ windows \in BOOLEAN
    /\ files \in 0..MaxFiles /\ path \in 0..files
    /\ flocks \in [Files -> Launches \cup {Nobody}]
    /\ pidIn \in [Files -> Launches \cup {Nobody}]
    /\ handles \subseteq Launches
    /\ stage \in [Launches -> Stages]
    /\ fd \in [Launches -> 0..MaxFiles]
    /\ attempts \in [Launches -> 0..MaxRetries]
    /\ again \in [Launches -> BOOLEAN]
    /\ lone \in [Launches -> BOOLEAN] /\ hurt \in [Launches -> BOOLEAN]
    /\ errors \in 0..MaxErrors /\ kills \in 0..MaxKills

Owns(p) == stage[p] \in {"running", "unlink", "closing"}

\* At most one process runs the application, whatever is killed, released, cleared or
\* retried meanwhile ("Prevent multiple concurrent DCENT_Voice desktop instances").
SingleOwner == \A p, q \in Launches : Owns(p) /\ Owns(q) => p = q

\* On POSIX nobody ever removes the lock file of a running process: it stays where the next
\* launch looks for it (release and force_clear both compare under the lock).
OwnerKeepsPath ==
    \A p \in Launches : ~windows /\ stage[p] = "running" => path # 0 /\ path = fd[p]

\* A process that nothing else disturbs gets the lock, whatever a crash has left behind: a
\* stale file or a reused pid never blocks a start.
StaleNeverBlocks == \A p \in Launches : stage[p] = "failed" => ~lone[p] \/ hurt[p]
=============================================================================
