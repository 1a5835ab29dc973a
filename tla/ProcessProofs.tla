---------------------------- MODULE ProcessProofs ----------------------------
(***************************************************************************)
(* Theorems of the three protocols in which processes compete for          *)
(* something of the whole desktop: InstanceLock, for any number of         *)
(* launches, files, attempts, failing calls and kills; Clipboard, for any  *)
(* number of processes, insertions, copies and crashes; and Privacy, for   *)
(* any threads, processes, operations, failing reads and kills.            *)
(***************************************************************************)
EXTENDS InstanceLock, Clipboard, Privacy, FiniteSetTheorems, TLAPS

---------------------------------------------------------------------------
(* The instance lock: what the steps of a launch rest on *)

\* The stages that have a file open, hold its lock, and have seen the path name it since.
Opened == {"validate", "flock", "clearMatch", "clearFlock"}
Locked ==
    {"revalidate", "write", "running", "unlink", "unlock",
     "clearRematch", "clearUnlink", "clearUnlock"}
Confirmed == {"write", "running", "unlink", "clearUnlink"}
\* The stages that have a handle of the mutex, and those that created it.
Created == {"reclaim", "create", "note", "running", "closing", "giveUp"}
Handled == Created \cup {"exists"}
OnPosix == {"open"} \cup Opened \cup (Locked \ {"running"})
OnWindows == {"mutex", "removeStale"} \cup (Handled \ {"running"})
\* The stages of a launch that somebody else, or a failing call, has stood in the way of.
Obstructed ==
    {"refused", "exists", "giveUp", "failed", "removeStale", "clearMatch", "clearFlock",
     "clearRematch", "clearUnlink", "clearUnlock"}

PlatformInv ==
    \A p \in Launches :
        /\ stage[p] \in OnPosix => ~windows
        /\ stage[p] \in OnWindows => windows

\* A lock belongs to the process that has the file open.
FileInv ==
    /\ \A p \in Launches : ~windows =>
        /\ stage[p] \in Opened \cup Locked => fd[p] \in 1..files
        /\ stage[p] \in Locked => flocks[fd[p]] = p
        /\ stage[p] \in Confirmed => path = fd[p]
    /\ \A i \in Files, p \in Launches :
        flocks[i] = p => ~windows /\ fd[p] = i /\ stage[p] \in Locked

MutexInv ==
    /\ \A p \in Launches : p \in handles => windows /\ stage[p] \in Handled
    /\ \A p \in Launches : windows /\ stage[p] \in Handled => p \in handles
    /\ \A p, q \in Launches :
        windows /\ stage[p] \in Created /\ stage[q] \in Created => p = q

\* A process that is alone finds what it left.
LoneInv ==
    \A p \in Launches : lone[p] =>
        /\ About(p) => \A q \in Launches : About(q) => q = p
        /\ ~hurt[p] => stage[p] \notin Obstructed
        /\ ~hurt[p] /\ stage[p] \in {"validate", "flock", "revalidate"} => path = fd[p]

\* The attempts of an acquire() that goes on are not used up.
AttemptInv ==
    \A p \in Launches :
        stage[p] \in {"unborn", "open", "validate", "flock", "revalidate", "write",
                     "mutex", "reclaim", "create", "note"} => attempts[p] < MaxRetries

LockInv == LockTypeOK /\ AttemptInv /\ PlatformInv /\ FileInv /\ MutexInv /\ LoneInv

---------------------------------------------------------------------------
(* What a step of one process leaves to the others *)

\* close() gives up the lock of one process and moves no other file.
LEMMA ClosesEffect ==
  ASSUME LockTypeOK, NEW l \in Launches, Closes(l)
  PROVE  /\ fd' \in [Launches -> 0..MaxFiles] /\ flocks' \in [Files -> Launches \cup {Nobody}]
         /\ fd'[l] = 0 /\ \A q \in Launches \ {l} : fd'[q] = fd[q]
         /\ \A i \in Files : /\ flocks'[i] # l
                             /\ flocks'[i] = flocks[i] \/ (flocks[i] = l /\ flocks'[i] = Nobody)
  BY InstanceAssumption DEF Closes, LockTypeOK, Files

\* open() gives one process the file that the path names, perhaps a new one.
LEMMA OpensEffect ==
  ASSUME LockTypeOK, NEW l \in Launches, Opens(l)
  PROVE  /\ fd' \in [Launches -> 0..MaxFiles] /\ files' \in 0..MaxFiles /\ path' \in 1..files'
         /\ files <= files' /\ fd'[l] = path' /\ \A q \in Launches \ {l} : fd'[q] = fd[q]
         /\ path' = path \/ path = 0
<1>1. CASE path = 0
  BY <1>1, InstanceAssumption DEF Opens, LockTypeOK
<1>2. CASE path # 0
  <2>1. path \in 1..files /\ path \in 0..MaxFiles
    BY <1>2, InstanceAssumption DEF LockTypeOK
  <2> QED
    BY <1>2, <2>1 DEF Opens, LockTypeOK
<1> QED
  BY <1>1, <1>2

\* A turn moves one process.
LEMMA TurnsEffect ==
  ASSUME LockTypeOK, NEW l \in Launches, NEW a, NEW b \in Stages, Turns(l, a, b)
  PROVE  /\ stage' \in [Launches -> Stages] /\ stage[l] = a /\ stage'[l] = b
         /\ \A q \in Launches \ {l} : stage'[q] = stage[q]
  BY DEF Turns, LockTypeOK

\* The stages of the POSIX protocol are stages.
LEMMA SomeStages ==
  /\ {"flock", "refused", "revalidate", "write", "running"} \subseteq Stages
  /\ {"clearFlock", "clearRematch", "clearUnlink", "clearMatch", "validate"} \subseteq Stages
  BY DEF Stages

\* A failing call is retried or ends the attempt, and marks the process.
LEMMA FailsEffect ==
  ASSUME LockTypeOK, NEW l \in Launches, Fails(l), attempts[l] < MaxRetries
  PROVE  /\ stage' \in [Launches -> Stages] /\ attempts' \in [Launches -> 0..MaxRetries]
         /\ hurt' \in [Launches -> BOOLEAN] /\ errors' \in 0..MaxErrors /\ kills' = kills
         /\ stage'[l] \in IF windows THEN {"reclaim", "giveUp"} ELSE {"open", "refused"}
         /\ hurt'[l]
         /\ \A q \in Launches \ {l} : stage'[q] = stage[q] /\ hurt'[q] = hurt[q]
<1>1. errors' \in 0..MaxErrors /\ kills' = kills
  BY InstanceAssumption DEF Fails, LockTypeOK
<1>2. /\ hurt' \in [Launches -> BOOLEAN] /\ hurt'[l]
      /\ \A q \in Launches \ {l} : hurt'[q] = hurt[q]
  BY DEF Fails, LockTypeOK
<1>3. attempts' \in [Launches -> 0..MaxRetries]
  BY InstanceAssumption DEF Fails, LockTypeOK
<1>4. PICK s \in {"reclaim", "giveUp", "open", "refused"} :
        /\ stage' = [stage EXCEPT ![l] = s]
        /\ s \in IF windows THEN {"reclaim", "giveUp"} ELSE {"open", "refused"}
  BY DEF Fails
<1>5. /\ stage' \in [Launches -> Stages] /\ stage'[l] = s
      /\ \A q \in Launches \ {l} : stage'[q] = stage[q]
  BY <1>4 DEF LockTypeOK, Stages
<1> QED
  BY <1>1, <1>2, <1>3, <1>4, <1>5

\* A launch that is told another one runs is over.
LEMMA ToldEffect ==
  ASSUME LockTypeOK, NEW l \in Launches, Told(l)
  PROVE  /\ stage' \in [Launches -> Stages] /\ again' = again /\ attempts' = attempts
         /\ stage'[l] = "failed"
         /\ \A q \in Launches \ {l} : stage'[q] = stage[q]
  BY DEF Told, LockTypeOK, Stages, Over

\* A retry starts the attempt again.
LEMMA RetriesEffect ==
  ASSUME LockTypeOK, NEW l \in Launches, Retries(l)
  PROVE  /\ stage' \in [Launches -> Stages] /\ again' \in [Launches -> BOOLEAN]
         /\ attempts' \in [Launches -> 0..MaxRetries]
         /\ stage'[l] \in {"failed", IF windows THEN "mutex" ELSE "open"}
         /\ \A q \in Launches \ {l} : stage'[q] = stage[q]
<1>1. CASE ~again[l] /\ ~Told(l)
  <2>1. PICK s \in {"mutex", "open"} : /\ stage' = [stage EXCEPT ![l] = s]
                                      /\ s = IF windows THEN "mutex" ELSE "open"
    BY <1>1 DEF Retries
  <2>2. /\ stage' \in [Launches -> Stages] /\ stage'[l] = s
        /\ \A q \in Launches \ {l} : stage'[q] = stage[q]
    BY <2>1 DEF LockTypeOK, Stages
  <2>3. again' \in [Launches -> BOOLEAN]
    BY <1>1 DEF Retries, LockTypeOK
  <2>4. attempts' \in [Launches -> 0..MaxRetries]
    BY <1>1, InstanceAssumption DEF Retries, LockTypeOK
  <2> QED
    BY <2>1, <2>2, <2>3, <2>4
<1>2. CASE Told(l)
  BY <1>2, ToldEffect DEF LockTypeOK
<1> QED
  BY <1>1, <1>2 DEF Retries

\* A step of l that changes the files: it moves only its own lock, and it does not take the
\* path away from another.
FileStep(l) ==
    /\ windows' = windows /\ files' \in Nat /\ files <= files'
    /\ \A q \in Launches \ {l} : stage'[q] = stage[q] /\ fd'[q] = fd[q]
    /\ path' = path \/ path = 0 \/ stage[l] \in {"unlink", "clearUnlink"} \/ windows
    /\ \A i \in Files : /\ \/ flocks'[i] = flocks[i]
                           \/ flocks[i] \in {l, Nobody} /\ flocks'[i] \in {l, Nobody}
                        /\ flocks'[i] = l => ~windows /\ fd'[l] = i /\ stage'[l] \in Locked
    /\ ~windows => /\ stage'[l] \in Opened \cup Locked => fd'[l] \in 1..files'
                   /\ stage'[l] \in Locked => flocks'[fd'[l]] = l
                   /\ stage'[l] \in Confirmed => path' = fd'[l]

\* Such a step keeps locks and paths together.
LEMMA FileStepKeeps ==
  ASSUME LockTypeOK, PlatformInv, FileInv, NEW l \in Launches, FileStep(l)
  PROVE  FileInv'
<1>1. \A p \in Launches : ~windows' =>
        /\ stage'[p] \in Opened \cup Locked => fd'[p] \in 1..files'
        /\ stage'[p] \in Locked => flocks'[fd'[p]] = p
        /\ stage'[p] \in Confirmed => path' = fd'[p]
  <2> SUFFICES ASSUME NEW p \in Launches, ~windows', p # l
               PROVE  /\ stage'[p] \in Opened \cup Locked => fd'[p] \in 1..files'
                      /\ stage'[p] \in Locked => flocks'[fd'[p]] = p
                      /\ stage'[p] \in Confirmed => path' = fd'[p]
    BY DEF FileStep
  <2>1. stage'[p] = stage[p] /\ fd'[p] = fd[p] /\ ~windows
    BY DEF FileStep
  <2>2. stage[p] \in Opened \cup Locked => fd[p] \in 1..files /\ fd[p] \in 1..files' /\ fd[p] \in Files
    BY <2>1, InstanceAssumption DEF FileStep, FileInv, LockTypeOK, Files
  <2>3. stage[p] \in Locked => flocks[fd[p]] = p /\ flocks'[fd[p]] = p
    BY <2>1, <2>2, InstanceAssumption DEF FileStep, FileInv
  <2>4. ASSUME stage[p] \in Confirmed PROVE path' = fd[p]
    <3>1. stage[p] \in Locked /\ path = fd[p] /\ flocks[path] = p /\ path # 0
      BY <2>1, <2>2, <2>3, <2>4 DEF FileInv, Confirmed, Locked
    <3>2. stage[l] \notin {"unlink", "clearUnlink"}
      BY <2>1, <3>1 DEF FileInv, Confirmed, Locked
    <3> QED
      BY <2>1, <3>1, <3>2 DEF FileStep
  <2> QED
    BY <2>1, <2>2, <2>3, <2>4
<1>2. \A i \in Files, p \in Launches : flocks'[i] = p => ~windows' /\ fd'[p] = i /\ stage'[p] \in Locked
  <2> SUFFICES ASSUME NEW i \in Files, NEW p \in Launches, flocks'[i] = p, p # l
               PROVE  ~windows' /\ fd'[p] = i /\ stage'[p] \in Locked
    BY DEF FileStep
  <2>1. flocks[i] = p
    BY InstanceAssumption DEF FileStep
  <2> QED
    BY <2>1 DEF FileStep, FileInv
<1> QED
  BY <1>1, <1>2 DEF FileInv

\* A step of a process that runs, as a process that is alone sees it.
LoneStep(l) ==
    /\ About(l) /\ lone' = lone
    /\ \A q \in Launches \ {l} : stage'[q] = stage[q] /\ hurt'[q] = hurt[q]
    /\ lone[l] /\ ~hurt'[l] =>
        /\ stage'[l] \notin Obstructed
        /\ stage'[l] \in {"validate", "flock", "revalidate"} => path' = fd'[l]

\* Such a step leaves a process that is alone undisturbed.
LEMMA LoneStepKeeps ==
  ASSUME LockTypeOK, LoneInv, NEW l \in Launches, LoneStep(l)
  PROVE  LoneInv'
<1> SUFFICES ASSUME NEW p \in Launches, lone[p]
             PROVE  /\ About(p)' => \A q \in Launches : About(q)' => q = p
                    /\ ~hurt'[p] => stage'[p] \notin Obstructed
                    /\ ~hurt'[p] /\ stage'[p] \in {"validate", "flock", "revalidate"} =>
                        path' = fd'[p]
  BY DEF LoneInv, LoneStep
<1>1. CASE p = l
  <2>1. \A q \in Launches : About(q)' => q = p
    BY <1>1 DEF LoneStep, LoneInv, About
  <2> QED
    BY <1>1, <2>1 DEF LoneStep
<1>2. CASE p # l
  <2>1. ~About(p)
    BY <1>2 DEF LoneStep, LoneInv
  <2>2. stage'[p] = stage[p] /\ hurt'[p] = hurt[p]
    BY <1>2 DEF LoneStep
  <2> QED
    BY <2>1, <2>2 DEF LoneInv, About, Over
<1> QED
  BY <1>1, <1>2

---------------------------------------------------------------------------
(* Each action preserves the invariant: the files, the mutex, and who was alone *)

LEMMA LaunchKeeps == ASSUME LockInv, NEW l \in Launches, Launch(l) PROVE LockInv'
<1>1. LockTypeOK' /\ AttemptInv'
  <2>1. LockTypeOK'
    <3>1. stage' \in [Launches -> Stages] /\ again' \in [Launches -> BOOLEAN]
      BY DEF LockInv, LockTypeOK, Stages, Launch, Turns, fileVars, lockBounds
    <3>2. fd' \in [Launches -> 0..MaxFiles] /\ flocks' \in [Files -> Launches \cup {Nobody}]
      BY DEF LockInv, LockTypeOK, Launch, Turns, fileVars, lockBounds
    <3>3. attempts' \in [Launches -> 0..MaxRetries] /\ errors' \in 0..MaxErrors /\ kills' \in 0..MaxKills
      BY InstanceAssumption DEF LockInv, LockTypeOK, Launch, Turns, fileVars, lockBounds
    <3>4. lone' \in [Launches -> BOOLEAN] /\ hurt' \in [Launches -> BOOLEAN] /\ windows' \in BOOLEAN
      BY DEF LockInv, LockTypeOK, Launch, Turns, fileVars, lockBounds
    <3>5. /\ files' \in 0..MaxFiles /\ path' \in 0..files' /\ handles' \subseteq Launches
          /\ pidIn' \in [Files -> Launches \cup {Nobody}]
      BY DEF LockInv, LockTypeOK, Launch, Turns, fileVars, lockBounds
    <3> QED
      BY <3>1, <3>2, <3>3, <3>4, <3>5 DEF LockTypeOK
  <2>2. AttemptInv'
    BY InstanceAssumption DEF LockInv, LockTypeOK, AttemptInv, Launch, Turns, fileVars
  <2> QED
    BY <2>1, <2>2
<1>2. PlatformInv'
  BY DEF LockInv, LockTypeOK, PlatformInv, OnPosix, OnWindows, Opened, Locked, Handled, Created,
         Over, About, Launch, Turns, fileVars
<1>3. FileInv'
  <2>1. FileStep(l)
    <3>1. PICK s \in {"mutex", "open"} : stage' = [stage EXCEPT ![l] = s]
      BY DEF Launch, Turns
    <3>2. stage'[l] = s /\ \A q \in Launches \ {l} : stage'[q] = stage[q]
      BY <3>1 DEF LockInv, LockTypeOK
    <3>3. s \notin Opened \cup Locked \cup Confirmed
      BY DEF Opened, Locked, Confirmed
    <3>4. \A i \in Files : flocks[i] # l
      BY DEF LockInv, FileInv, Locked, Launch, Turns
    <3>5. UNCHANGED <<windows, path, files, flocks, fd>> /\ files \in Nat
      BY InstanceAssumption DEF Launch, fileVars, LockInv, LockTypeOK
    <3> QED
      BY <3>2, <3>3, <3>4, <3>5 DEF FileStep
  <2> QED
    BY <2>1, FileStepKeeps DEF LockInv
<1>4. MutexInv'
  BY DEF LockInv, LockTypeOK, PlatformInv, MutexInv, OnPosix, OnWindows, Opened, Locked,
         Handled, Created, Over, About, Launch, Turns, fileVars
<1>5. LoneInv'
  <2>1. PICK s \in {"mutex", "open"} : stage' = [stage EXCEPT ![l] = s]
    BY DEF Launch, Turns
  <2>2. /\ stage'[l] = s /\ \A q \in Launches \ {l} : stage'[q] = stage[q]
        /\ hurt' = hurt /\ path' = path /\ fd' = fd
    BY <2>1 DEF LockInv, LockTypeOK, Launch, fileVars
  <2> SUFFICES ASSUME NEW p \in Launches, lone'[p]
               PROVE  /\ About(p)' => \A q \in Launches : About(q)' => q = p
                      /\ ~hurt'[p] => stage'[p] \notin Obstructed
                      /\ ~hurt'[p] /\ stage'[p] \in {"validate", "flock", "revalidate"} =>
                          path' = fd'[p]
    BY DEF LoneInv
  <2>3. CASE p = l
    <3>1. \A q \in Launches : ~About(q)
      BY <2>3 DEF Launch
    <3> QED
      BY <2>2, <2>3, <3>1 DEF About, Obstructed
  <2>4. CASE p # l
    <3>1. lone[p] /\ ~About(p)
      BY <2>4 DEF Launch
    <3> QED
      BY <2>2, <2>4, <3>1 DEF About, Over, LockInv, LoneInv
  <2> QED
    BY <2>3, <2>4
<1> QED
  BY <1>1, <1>2, <1>3, <1>4, <1>5 DEF LockInv

LEMMA OpenKeeps == ASSUME LockInv, NEW l \in Launches, Open(l) PROVE LockInv'
<1>1. LockTypeOK' /\ AttemptInv'
  <2>1. LockTypeOK'
    <3>1. stage' \in [Launches -> Stages] /\ again' \in [Launches -> BOOLEAN]
      <4>1. attempts[l] < MaxRetries
        BY DEF LockInv, AttemptInv, Open
      <4> QED
        BY <4>1, FailsEffect, TurnsEffect, SomeStages DEF LockInv, LockTypeOK, Open
    <3>2. fd' \in [Launches -> 0..MaxFiles] /\ flocks' \in [Files -> Launches \cup {Nobody}]
      BY FailsEffect, OpensEffect DEF LockInv, LockTypeOK, Open, Turns, pastVars, lockBounds
    <3>3. attempts' \in [Launches -> 0..MaxRetries] /\ errors' \in 0..MaxErrors /\ kills' \in 0..MaxKills
      BY FailsEffect, OpensEffect, InstanceAssumption
         DEF LockInv, AttemptInv, LockTypeOK, Files, Stages, Over, Open, Turns, fileVars,
             pastVars, lockBounds
    <3>4. lone' \in [Launches -> BOOLEAN] /\ hurt' \in [Launches -> BOOLEAN] /\ windows' \in BOOLEAN
      BY FailsEffect, OpensEffect, InstanceAssumption
         DEF LockInv, AttemptInv, LockTypeOK, Files, Stages, Over, Open, Turns, fileVars,
             pastVars, lockBounds
    <3>5. /\ files' \in 0..MaxFiles /\ path' \in 0..files' /\ handles' \subseteq Launches
          /\ pidIn' \in [Files -> Launches \cup {Nobody}]
      BY FailsEffect, OpensEffect DEF LockInv, LockTypeOK, Open, Turns, pastVars, lockBounds
    <3> QED
      BY <3>1, <3>2, <3>3, <3>4, <3>5 DEF LockTypeOK
  <2>2. AttemptInv'
    BY InstanceAssumption DEF LockInv, LockTypeOK, AttemptInv, Open, Turns, Opens, Fails
  <2> QED
    BY <2>1, <2>2
<1>2. PlatformInv'
  BY DEF LockInv, LockTypeOK, PlatformInv, OnPosix, OnWindows, Opened, Locked, Handled, Created,
         Open, Turns, Opens, Fails
<1>3. FileInv'
  <2>1. FileStep(l)
    <3>1. CASE Fails(l)
      <4>1. stage'[l] \in {"open", "refused"} /\ \A q \in Launches \ {l} : stage'[q] = stage[q]
        BY <3>1, FailsEffect DEF LockInv, AttemptInv, Open
      <4>2. UNCHANGED <<windows, path, files, flocks, fd>> /\ files \in Nat
        BY <3>1, InstanceAssumption, FailsEffect
           DEF Open, Fails, Turns, LockInv, LockTypeOK, lockBounds
      <4>3. \A i \in Files : flocks[i] # l
        BY DEF LockInv, FileInv, Locked, Open
      <4> QED
        BY <4>1, <4>2, <4>3 DEF FileStep, Opened, Locked, Confirmed
    <3>2. CASE Turns(l, "open", "validate") /\ Opens(l)
      <4>1. stage'[l] = "validate" /\ \A q \in Launches \ {l} : stage'[q] = stage[q]
        BY <3>2, TurnsEffect, SomeStages DEF LockInv
      <4>2. UNCHANGED <<windows, flocks>> /\ files' \in Nat
        BY <3>2, InstanceAssumption, OpensEffect DEF Open, LockInv
      <4>3. \A i \in Files : flocks[i] # l
        BY DEF LockInv, FileInv, Locked, Open
      <4> QED
        BY <3>2, <4>1, <4>2, <4>3, OpensEffect DEF FileStep, Opened, Locked, Confirmed, LockInv
    <3> QED
      BY <3>1, <3>2 DEF Open
  <2> QED
    BY <2>1, FileStepKeeps DEF LockInv
<1>4. MutexInv'
  BY DEF LockInv, LockTypeOK, PlatformInv, MutexInv, OnPosix, OnWindows, Opened, Locked,
         Handled, Created, Open, Turns, Opens, Fails
<1>5. LoneInv'
  <2>1. LoneStep(l)
    BY SMTT(30), FailsEffect, OpensEffect, InstanceAssumption
       DEF LockInv, AttemptInv, LoneStep, LockTypeOK, PlatformInv, FileInv, MutexInv, LoneInv,
           Obstructed, OnPosix, OnWindows, Opened, Locked, Handled, Created, Over, About, Files,
           Open, Turns, pastVars, lockBounds
  <2> QED
    BY <2>1, LoneStepKeeps DEF LockInv
<1> QED
  BY <1>1, <1>2, <1>3, <1>4, <1>5 DEF LockInv

LEMMA ValidateKeeps == ASSUME LockInv, NEW l \in Launches, Validate(l) PROVE LockInv'
<1>1. LockTypeOK' /\ AttemptInv'
  <2>1. LockTypeOK'
    <3>1. stage' \in [Launches -> Stages] /\ again' \in [Launches -> BOOLEAN]
      BY TurnsEffect, SomeStages DEF LockInv, LockTypeOK, Validate
    <3>2. fd' \in [Launches -> 0..MaxFiles] /\ flocks' \in [Files -> Launches \cup {Nobody}]
      BY ClosesEffect DEF LockInv, LockTypeOK, Validate, Turns, Matches, pastVars, lockBounds
    <3>3. attempts' \in [Launches -> 0..MaxRetries] /\ errors' \in 0..MaxErrors /\ kills' \in 0..MaxKills
      BY ClosesEffect, InstanceAssumption
         DEF LockInv, LockTypeOK, Validate, Turns, Matches, pastVars, lockBounds
    <3>4. lone' \in [Launches -> BOOLEAN] /\ hurt' \in [Launches -> BOOLEAN] /\ windows' \in BOOLEAN
      BY ClosesEffect DEF LockInv, LockTypeOK, Validate, Turns, Matches, pastVars, lockBounds
    <3>5. /\ files' \in 0..MaxFiles /\ path' \in 0..files' /\ handles' \subseteq Launches
          /\ pidIn' \in [Files -> Launches \cup {Nobody}]
      BY ClosesEffect DEF LockInv, LockTypeOK, Validate, Turns, Matches, pastVars, lockBounds
    <3> QED
      BY <3>1, <3>2, <3>3, <3>4, <3>5 DEF LockTypeOK
  <2>2. AttemptInv'
    BY ClosesEffect, InstanceAssumption
       DEF LockInv, LockTypeOK, AttemptInv, Validate, Turns, Matches
  <2> QED
    BY <2>1, <2>2
<1>2. PlatformInv'
  BY ClosesEffect
     DEF LockInv, LockTypeOK, PlatformInv, OnPosix, OnWindows, Opened, Locked, Handled, Created,
         Validate, Turns, Matches
<1>3. FileInv'
  <2>1. FileStep(l)
    <3>0. /\ UNCHANGED <<windows, path, files>> /\ files \in Nat
          /\ stage[l] = "validate" /\ fd[l] \in 1..files /\ ~windows
      BY InstanceAssumption
         DEF Validate, Turns, LockInv, LockTypeOK, PlatformInv, FileInv, OnPosix, Opened, Locked
    <3>1. CASE Matches(l)
      <4>1. stage'[l] = "flock" /\ \A q \in Launches \ {l} : stage'[q] = stage[q]
        BY <3>1, TurnsEffect, SomeStages DEF Validate, LockInv
      <4>2. UNCHANGED <<flocks, fd>>
        BY <3>1 DEF Validate
      <4> QED
        BY <3>0, <3>1, <4>1, <4>2
           DEF FileStep, Opened, Locked, Confirmed, LockInv, FileInv, Matches
    <3>2. CASE ~Matches(l)
      <4>1. stage'[l] = "refused" /\ \A q \in Launches \ {l} : stage'[q] = stage[q]
        BY <3>2, TurnsEffect, ToldEffect, SomeStages DEF Validate, LockInv
      <4>2. Closes(l)
        BY <3>2 DEF Validate
      <4> QED
        BY <3>0, <4>1, <4>2, ClosesEffect DEF FileStep, Opened, Locked, Confirmed, LockInv
    <3> QED
      BY <3>1, <3>2
  <2> QED
    BY <2>1, FileStepKeeps DEF LockInv
<1>4. MutexInv'
  BY ClosesEffect
     DEF LockInv, LockTypeOK, PlatformInv, MutexInv, OnPosix, OnWindows, Opened, Locked,
         Handled, Created, Validate, Turns, Matches
<1>5. LoneInv'
  <2>1. LoneStep(l)
    BY ClosesEffect, InstanceAssumption
       DEF LockInv, AttemptInv, LoneStep, LockTypeOK, PlatformInv, FileInv, MutexInv, LoneInv,
           Obstructed, OnPosix, OnWindows, Opened, Locked, Handled, Created, Over, About, Files,
           Validate, Turns, Matches, pastVars, lockBounds
  <2> QED
    BY <2>1, LoneStepKeeps DEF LockInv
<1> QED
  BY <1>1, <1>2, <1>3, <1>4, <1>5 DEF LockInv

LEMMA FlockKeeps == ASSUME LockInv, NEW l \in Launches, Flock(l) PROVE LockInv'
<1>1. LockTypeOK' /\ AttemptInv'
  <2>1. LockTypeOK'
    <3>1. stage' \in [Launches -> Stages] /\ again' \in [Launches -> BOOLEAN]
      BY TurnsEffect, SomeStages DEF LockInv, LockTypeOK, Flock
    <3>2. fd' \in [Launches -> 0..MaxFiles] /\ flocks' \in [Files -> Launches \cup {Nobody}]
      BY ClosesEffect DEF LockInv, LockTypeOK, Flock
    <3>3. attempts' \in [Launches -> 0..MaxRetries] /\ errors' \in 0..MaxErrors /\ kills' \in 0..MaxKills
      BY ClosesEffect, InstanceAssumption
         DEF LockInv, LockTypeOK, Flock, Turns, pastVars, lockBounds
    <3>4. lone' \in [Launches -> BOOLEAN] /\ hurt' \in [Launches -> BOOLEAN] /\ windows' \in BOOLEAN
      BY ClosesEffect DEF LockInv, LockTypeOK, Flock, Turns, pastVars, lockBounds
    <3>5. /\ files' \in 0..MaxFiles /\ path' \in 0..files' /\ handles' \subseteq Launches
          /\ pidIn' \in [Files -> Launches \cup {Nobody}]
      BY ClosesEffect DEF LockInv, LockTypeOK, Flock, Turns, pastVars, lockBounds
    <3> QED
      BY <3>1, <3>2, <3>3, <3>4, <3>5 DEF LockTypeOK
  <2>2. AttemptInv'
    BY ClosesEffect, InstanceAssumption DEF LockInv, LockTypeOK, AttemptInv, Flock, Turns
  <2> QED
    BY <2>1, <2>2
<1>2. PlatformInv'
  BY ClosesEffect
     DEF LockInv, LockTypeOK, PlatformInv, OnPosix, OnWindows, Opened, Locked, Handled, Created,
         Flock, Turns
<1>3. FileInv'
  <2>1. FileStep(l)
    BY ClosesEffect, InstanceAssumption
       DEF LockInv, FileStep, LockTypeOK, PlatformInv, FileInv, OnPosix, OnWindows, Opened,
           Locked, Confirmed, Handled, Created, Files, Flock, Turns
  <2> QED
    BY <2>1, FileStepKeeps DEF LockInv
<1>4. MutexInv'
  BY ClosesEffect
     DEF LockInv, LockTypeOK, PlatformInv, MutexInv, OnPosix, OnWindows, Opened, Locked,
         Handled, Created, Flock, Turns
<1>5. LoneInv'
  <2>1. LoneStep(l)
    <3>1. stage[l] = "flock" /\ About(l) /\ lone' = lone /\ hurt' = hurt /\ path' = path
      BY DEF Flock, About, Over, pastVars
    <3>2. fd[l] \in Files /\ ~windows
      BY <3>1, InstanceAssumption
         DEF LockInv, PlatformInv, FileInv, LockTypeOK, OnPosix, Opened, Files
    <3>3. lone[l] => flocks[fd[l]] = Nobody
      <4> SUFFICES ASSUME lone[l], NEW q \in Launches, flocks[fd[l]] = q PROVE FALSE
        BY <3>2 DEF LockInv, LockTypeOK
      <4>1. stage[q] \in Locked
        BY <3>2 DEF LockInv, FileInv
      <4>2. About(q)
        BY <4>1 DEF Locked, About, Over
      <4> QED
        BY <3>1, <4>1, <4>2 DEF LockInv, LoneInv, Locked
    <3>4. \A q \in Launches \ {l} : stage'[q] = stage[q]
      BY TurnsEffect, SomeStages DEF Flock, LockInv
    <3>5. lone[l] => stage'[l] = "revalidate" /\ fd' = fd
      BY <3>3, TurnsEffect, SomeStages DEF Flock, LockInv
    <3>6. lone[l] /\ ~hurt[l] => path = fd[l]
      BY <3>1 DEF LockInv, LoneInv
    <3> QED
      BY <3>1, <3>4, <3>5, <3>6 DEF LoneStep, Obstructed
  <2> QED
    BY <2>1, LoneStepKeeps DEF LockInv
<1> QED
  BY <1>1, <1>2, <1>3, <1>4, <1>5 DEF LockInv

LEMMA RevalidateKeeps == ASSUME LockInv, NEW l \in Launches, Revalidate(l) PROVE LockInv'
<1>1. LockTypeOK' /\ AttemptInv'
  <2>1. LockTypeOK'
    <3>1. stage' \in [Launches -> Stages] /\ again' \in [Launches -> BOOLEAN]
      BY TurnsEffect, SomeStages DEF LockInv, LockTypeOK, Revalidate
    <3>2. fd' \in [Launches -> 0..MaxFiles] /\ flocks' \in [Files -> Launches \cup {Nobody}]
      BY ClosesEffect DEF LockInv, LockTypeOK, Revalidate, Turns, Matches, pastVars, lockBounds
    <3>3. attempts' \in [Launches -> 0..MaxRetries] /\ errors' \in 0..MaxErrors /\ kills' \in 0..MaxKills
      BY ClosesEffect, InstanceAssumption
         DEF LockInv, LockTypeOK, Revalidate, Turns, Matches, pastVars, lockBounds
    <3>4. lone' \in [Launches -> BOOLEAN] /\ hurt' \in [Launches -> BOOLEAN] /\ windows' \in BOOLEAN
      BY ClosesEffect DEF LockInv, LockTypeOK, Revalidate, Turns, Matches, pastVars, lockBounds
    <3>5. /\ files' \in 0..MaxFiles /\ path' \in 0..files' /\ handles' \subseteq Launches
          /\ pidIn' \in [Files -> Launches \cup {Nobody}]
      BY ClosesEffect DEF LockInv, LockTypeOK, Revalidate, Turns, Matches, pastVars, lockBounds
    <3> QED
      BY <3>1, <3>2, <3>3, <3>4, <3>5 DEF LockTypeOK
  <2>2. AttemptInv'
    BY ClosesEffect, InstanceAssumption
       DEF LockInv, LockTypeOK, AttemptInv, Revalidate, Turns, Matches
  <2> QED
    BY <2>1, <2>2
<1>2. PlatformInv'
  BY ClosesEffect
     DEF LockInv, LockTypeOK, PlatformInv, OnPosix, OnWindows, Opened, Locked, Handled, Created,
         Revalidate, Turns, Matches
<1>3. FileInv'
  <2>1. FileStep(l)
    BY ClosesEffect, InstanceAssumption
       DEF LockInv, FileStep, LockTypeOK, PlatformInv, FileInv, OnPosix, OnWindows, Opened,
           Locked, Confirmed, Handled, Created, Files, Revalidate, Turns, Matches
  <2> QED
    BY <2>1, FileStepKeeps DEF LockInv
<1>4. MutexInv'
  BY ClosesEffect
     DEF LockInv, LockTypeOK, PlatformInv, MutexInv, OnPosix, OnWindows, Opened, Locked,
         Handled, Created, Revalidate, Turns, Matches
<1>5. LoneInv'
  <2>1. LoneStep(l)
    BY ClosesEffect, InstanceAssumption
       DEF LockInv, AttemptInv, LoneStep, LockTypeOK, PlatformInv, FileInv, MutexInv, LoneInv,
           Obstructed, OnPosix, OnWindows, Opened, Locked, Handled, Created, Over, About, Files,
           Revalidate, Turns, Matches, pastVars, lockBounds
  <2> QED
    BY <2>1, LoneStepKeeps DEF LockInv
<1> QED
  BY <1>1, <1>2, <1>3, <1>4, <1>5 DEF LockInv

LEMMA WritePidKeeps == ASSUME LockInv, NEW l \in Launches, WritePid(l) PROVE LockInv'
<1>1. LockTypeOK' /\ AttemptInv'
  <2>1. LockTypeOK'
    <3>1. stage' \in [Launches -> Stages] /\ again' \in [Launches -> BOOLEAN]
      BY ZenonT(30), ClosesEffect, FailsEffect, InstanceAssumption
         DEF LockInv, AttemptInv, LockTypeOK, Files, Stages, Over, WritePid, Turns, fileVars,
             pastVars, lockBounds
    <3>2. fd' \in [Launches -> 0..MaxFiles] /\ flocks' \in [Files -> Launches \cup {Nobody}]
      BY ClosesEffect, FailsEffect
         DEF LockInv, LockTypeOK, WritePid, Turns, pastVars, lockBounds
    <3>3. attempts' \in [Launches -> 0..MaxRetries] /\ errors' \in 0..MaxErrors /\ kills' \in 0..MaxKills
      BY ClosesEffect, FailsEffect, InstanceAssumption
         DEF LockInv, AttemptInv, LockTypeOK, Files, Stages, Over, WritePid, Turns, fileVars,
             pastVars, lockBounds
    <3>4. lone' \in [Launches -> BOOLEAN] /\ hurt' \in [Launches -> BOOLEAN] /\ windows' \in BOOLEAN
      BY ClosesEffect, FailsEffect, InstanceAssumption
         DEF LockInv, AttemptInv, LockTypeOK, Files, Stages, Over, WritePid, Turns, fileVars,
             pastVars, lockBounds
    <3>5. /\ files' \in 0..MaxFiles /\ path' \in 0..files' /\ handles' \subseteq Launches
          /\ pidIn' \in [Files -> Launches \cup {Nobody}]
      BY DEF LockInv, LockTypeOK, WritePid
    <3> QED
      BY <3>1, <3>2, <3>3, <3>4, <3>5 DEF LockTypeOK
  <2>2. AttemptInv'
    BY ClosesEffect, InstanceAssumption
       DEF LockInv, LockTypeOK, AttemptInv, WritePid, Turns, Fails
  <2> QED
    BY <2>1, <2>2
<1>2. PlatformInv'
  BY ClosesEffect
     DEF LockInv, LockTypeOK, PlatformInv, OnPosix, OnWindows, Opened, Locked, Handled, Created,
         WritePid, Turns, Fails
<1>3. FileInv'
  <2>1. FileStep(l)
    <3>0. /\ UNCHANGED <<windows, path, files>> /\ files \in Nat /\ stage[l] = "write"
          /\ attempts[l] < MaxRetries
      BY InstanceAssumption DEF WritePid, LockInv, LockTypeOK, AttemptInv
    <3>1. CASE Fails(l) /\ Closes(l)
      <4>1. ~windows => stage'[l] \in {"open", "refused"}
        BY <3>0, <3>1, FailsEffect DEF LockInv
      <4>2. \A q \in Launches \ {l} : stage'[q] = stage[q]
        BY <3>0, <3>1, FailsEffect DEF LockInv
      <4> QED
        BY <3>0, <3>1, <4>1, <4>2, ClosesEffect DEF FileStep, Opened, Locked, Confirmed, LockInv
    <3>2. CASE Turns(l, "write", "running") /\ UNCHANGED <<fd, flocks>>
      <4>1. stage'[l] = "running" /\ \A q \in Launches \ {l} : stage'[q] = stage[q]
        BY <3>2, TurnsEffect, SomeStages DEF LockInv
      <4> QED
        BY <3>0, <3>2, <4>1 DEF FileStep, Opened, Locked, Confirmed, LockInv, FileInv
    <3> QED
      BY <3>1, <3>2 DEF WritePid
  <2> QED
    BY <2>1, FileStepKeeps DEF LockInv
<1>4. MutexInv'
  BY ClosesEffect
     DEF LockInv, LockTypeOK, PlatformInv, MutexInv, OnPosix, OnWindows, Opened, Locked,
         Handled, Created, WritePid, Turns, Fails
<1>5. LoneInv'
  <2>1. LoneStep(l)
    BY SMTT(30), ClosesEffect, FailsEffect, InstanceAssumption
       DEF LockInv, AttemptInv, LoneStep, LockTypeOK, PlatformInv, FileInv, MutexInv, LoneInv,
           Obstructed, OnPosix, OnWindows, Opened, Locked, Handled, Created, Over, About, Files,
           WritePid, Turns, pastVars, lockBounds
  <2> QED
    BY <2>1, LoneStepKeeps DEF LockInv
<1> QED
  BY <1>1, <1>2, <1>3, <1>4, <1>5 DEF LockInv

LEMMA CreateMutexKeeps == ASSUME LockInv, NEW l \in Launches, CreateMutex(l) PROVE LockInv'
<1>1. LockTypeOK' /\ AttemptInv'
  <2>1. LockTypeOK'
    <3>1. stage' \in [Launches -> Stages] /\ again' \in [Launches -> BOOLEAN]
      BY DEF LockInv, LockTypeOK, Stages, CreateMutex, Turns, fileVars, pastVars, lockBounds
    <3>2. fd' \in [Launches -> 0..MaxFiles] /\ flocks' \in [Files -> Launches \cup {Nobody}]
      BY DEF LockInv, LockTypeOK, CreateMutex, Turns, fileVars, pastVars, lockBounds
    <3>3. attempts' \in [Launches -> 0..MaxRetries] /\ errors' \in 0..MaxErrors /\ kills' \in 0..MaxKills
      BY InstanceAssumption
         DEF LockInv, LockTypeOK, CreateMutex, Turns, fileVars, pastVars, lockBounds
    <3>4. lone' \in [Launches -> BOOLEAN] /\ hurt' \in [Launches -> BOOLEAN] /\ windows' \in BOOLEAN
      BY DEF LockInv, LockTypeOK, CreateMutex, Turns, fileVars, pastVars, lockBounds
    <3>5. /\ files' \in 0..MaxFiles /\ path' \in 0..files' /\ handles' \subseteq Launches
          /\ pidIn' \in [Files -> Launches \cup {Nobody}]
      BY DEF LockInv, LockTypeOK, CreateMutex, Turns, fileVars, pastVars, lockBounds
    <3> QED
      BY <3>1, <3>2, <3>3, <3>4, <3>5 DEF LockTypeOK
  <2>2. AttemptInv'
    BY InstanceAssumption DEF LockInv, LockTypeOK, AttemptInv, CreateMutex, Turns, fileVars
  <2> QED
    BY <2>1, <2>2
<1>2. PlatformInv'
  BY DEF LockInv, LockTypeOK, PlatformInv, OnPosix, OnWindows, Opened, Locked, Handled, Created,
         CreateMutex, Turns, fileVars
<1>3. FileInv'
  <2>1. FileStep(l)
    BY InstanceAssumption
       DEF LockInv, FileStep, LockTypeOK, PlatformInv, FileInv, OnPosix, OnWindows, Opened,
           Locked, Confirmed, Handled, Created, Files, CreateMutex, Turns, fileVars
  <2> QED
    BY <2>1, FileStepKeeps DEF LockInv
<1>4. MutexInv'
  BY DEF LockInv, LockTypeOK, PlatformInv, MutexInv, OnPosix, OnWindows, Opened, Locked,
         Handled, Created, CreateMutex, Turns, fileVars
<1>5. LoneInv'
  <2>1. LoneStep(l)
    <3>1. stage[l] = "mutex" /\ About(l) /\ lone' = lone /\ hurt' = hurt
      BY DEF CreateMutex, Turns, About, Over, pastVars
    <3>2. lone[l] => handles = {}
      <4> SUFFICES ASSUME lone[l], NEW q \in handles PROVE FALSE
        OBVIOUS
      <4>1. q \in Launches /\ stage[q] \in Handled
        BY DEF LockInv, LockTypeOK, MutexInv
      <4>2. About(q)
        BY <4>1 DEF Handled, Created, About, Over
      <4> QED
        BY <3>1, <4>1, <4>2 DEF LockInv, LoneInv, Handled, Created
    <3>3. \A q \in Launches \ {l} : stage'[q] = stage[q]
      BY DEF CreateMutex, Turns, LockInv, LockTypeOK
    <3>4. lone[l] => stage'[l] = "reclaim"
      BY <3>2 DEF CreateMutex, Turns, LockInv, LockTypeOK
    <3> QED
      BY <3>1, <3>3, <3>4 DEF LoneStep, Obstructed
  <2> QED
    BY <2>1, LoneStepKeeps DEF LockInv
<1> QED
  BY <1>1, <1>2, <1>3, <1>4, <1>5 DEF LockInv

LEMMA CloseHandleKeeps == ASSUME LockInv, NEW l \in Launches, CloseHandle(l) PROVE LockInv'
<1>1. LockTypeOK' /\ AttemptInv'
  <2>1. LockTypeOK'
    <3>1. stage' \in [Launches -> Stages] /\ again' \in [Launches -> BOOLEAN]
      BY DEF LockInv, LockTypeOK, Stages, CloseHandle, fileVars, pastVars, lockBounds
    <3>2. fd' \in [Launches -> 0..MaxFiles] /\ flocks' \in [Files -> Launches \cup {Nobody}]
      BY DEF LockInv, LockTypeOK, CloseHandle, fileVars, pastVars, lockBounds
    <3>3. attempts' \in [Launches -> 0..MaxRetries] /\ errors' \in 0..MaxErrors /\ kills' \in 0..MaxKills
      BY InstanceAssumption DEF LockInv, LockTypeOK, CloseHandle, fileVars, pastVars, lockBounds
    <3>4. lone' \in [Launches -> BOOLEAN] /\ hurt' \in [Launches -> BOOLEAN] /\ windows' \in BOOLEAN
      BY DEF LockInv, LockTypeOK, CloseHandle, fileVars, pastVars, lockBounds
    <3>5. /\ files' \in 0..MaxFiles /\ path' \in 0..files' /\ handles' \subseteq Launches
          /\ pidIn' \in [Files -> Launches \cup {Nobody}]
      BY DEF LockInv, LockTypeOK, CloseHandle, fileVars, pastVars, lockBounds
    <3> QED
      BY <3>1, <3>2, <3>3, <3>4, <3>5 DEF LockTypeOK
  <2>2. AttemptInv'
    BY InstanceAssumption DEF LockInv, LockTypeOK, AttemptInv, CloseHandle, fileVars
  <2> QED
    BY <2>1, <2>2
<1>2. PlatformInv'
  BY DEF LockInv, LockTypeOK, PlatformInv, OnPosix, OnWindows, Opened, Locked, Handled, Created,
         CloseHandle, fileVars
<1>3. FileInv'
  <2>1. FileStep(l)
    BY InstanceAssumption
       DEF LockInv, FileStep, LockTypeOK, PlatformInv, FileInv, OnPosix, OnWindows, Opened,
           Locked, Confirmed, Handled, Created, Files, CloseHandle, fileVars
  <2> QED
    BY <2>1, FileStepKeeps DEF LockInv
<1>4. MutexInv'
  BY DEF LockInv, LockTypeOK, PlatformInv, MutexInv, OnPosix, OnWindows, Opened, Locked,
         Handled, Created, CloseHandle, fileVars
<1>5. LoneInv'
  <2>1. LoneStep(l)
    BY InstanceAssumption
       DEF LockInv, AttemptInv, LoneStep, LockTypeOK, PlatformInv, FileInv, MutexInv, LoneInv,
           Obstructed, OnPosix, OnWindows, Opened, Locked, Handled, Created, Over, About, Files,
           CloseHandle, fileVars, pastVars, lockBounds
  <2> QED
    BY <2>1, LoneStepKeeps DEF LockInv
<1> QED
  BY <1>1, <1>2, <1>3, <1>4, <1>5 DEF LockInv

LEMMA ReclaimKeeps == ASSUME LockInv, NEW l \in Launches, Reclaim(l) PROVE LockInv'
<1>1. LockTypeOK' /\ AttemptInv'
  <2>1. LockTypeOK'
    <3>1. stage' \in [Launches -> Stages] /\ again' \in [Launches -> BOOLEAN]
      BY FailsEffect, InstanceAssumption
         DEF LockInv, AttemptInv, LockTypeOK, Files, Stages, Over, Reclaim, Turns, fileVars,
             pastVars, lockBounds
    <3>2. fd' \in [Launches -> 0..MaxFiles] /\ flocks' \in [Files -> Launches \cup {Nobody}]
      BY FailsEffect DEF LockInv, LockTypeOK, Reclaim, Turns, pastVars, lockBounds
    <3>3. attempts' \in [Launches -> 0..MaxRetries] /\ errors' \in 0..MaxErrors /\ kills' \in 0..MaxKills
      BY FailsEffect, InstanceAssumption
         DEF LockInv, AttemptInv, LockTypeOK, Files, Stages, Over, Reclaim, Turns, fileVars,
             pastVars, lockBounds
    <3>4. lone' \in [Launches -> BOOLEAN] /\ hurt' \in [Launches -> BOOLEAN] /\ windows' \in BOOLEAN
      BY FailsEffect, InstanceAssumption
         DEF LockInv, AttemptInv, LockTypeOK, Files, Stages, Over, Reclaim, Turns, fileVars,
             pastVars, lockBounds
    <3>5. /\ files' \in 0..MaxFiles /\ path' \in 0..files' /\ handles' \subseteq Launches
          /\ pidIn' \in [Files -> Launches \cup {Nobody}]
      BY FailsEffect DEF LockInv, LockTypeOK, Reclaim, Turns, pastVars, lockBounds
    <3> QED
      BY <3>1, <3>2, <3>3, <3>4, <3>5 DEF LockTypeOK
  <2>2. AttemptInv'
    BY InstanceAssumption DEF LockInv, LockTypeOK, AttemptInv, Reclaim, Turns, Fails
  <2> QED
    BY <2>1, <2>2
<1>2. PlatformInv'
  BY DEF LockInv, LockTypeOK, PlatformInv, OnPosix, OnWindows, Opened, Locked, Handled, Created,
         Reclaim, Turns, Fails
<1>3. FileInv'
  <2>1. FileStep(l)
    BY FailsEffect, InstanceAssumption
       DEF LockInv, AttemptInv, FileStep, LockTypeOK, PlatformInv, FileInv, OnPosix, OnWindows,
           Opened, Locked, Confirmed, Handled, Created, Over, About, Files, Reclaim, Turns,
           pastVars, lockBounds
  <2> QED
    BY <2>1, FileStepKeeps DEF LockInv
<1>4. MutexInv'
  BY DEF LockInv, LockTypeOK, PlatformInv, MutexInv, OnPosix, OnWindows, Opened, Locked,
         Handled, Created, Reclaim, Turns, Fails
<1>5. LoneInv'
  <2>1. LoneStep(l)
    BY FailsEffect, InstanceAssumption
       DEF LockInv, AttemptInv, LoneStep, LockTypeOK, PlatformInv, FileInv, MutexInv, LoneInv,
           Obstructed, OnPosix, OnWindows, Opened, Locked, Handled, Created, Over, About, Files,
           Reclaim, Turns, pastVars, lockBounds
  <2> QED
    BY <2>1, LoneStepKeeps DEF LockInv
<1> QED
  BY <1>1, <1>2, <1>3, <1>4, <1>5 DEF LockInv

LEMMA CreateKeeps == ASSUME LockInv, NEW l \in Launches, Create(l) PROVE LockInv'
<1>1. LockTypeOK' /\ AttemptInv'
  <2>1. LockTypeOK'
    <3>1. stage' \in [Launches -> Stages] /\ again' \in [Launches -> BOOLEAN]
      BY OpensEffect DEF LockInv, LockTypeOK, Stages, Create, Turns, pastVars, lockBounds
    <3>2. fd' \in [Launches -> 0..MaxFiles] /\ flocks' \in [Files -> Launches \cup {Nobody}]
      BY OpensEffect DEF LockInv, LockTypeOK, Create, Turns, pastVars, lockBounds
    <3>3. attempts' \in [Launches -> 0..MaxRetries] /\ errors' \in 0..MaxErrors /\ kills' \in 0..MaxKills
      BY OpensEffect, InstanceAssumption
         DEF LockInv, LockTypeOK, Create, Turns, pastVars, lockBounds
    <3>4. lone' \in [Launches -> BOOLEAN] /\ hurt' \in [Launches -> BOOLEAN] /\ windows' \in BOOLEAN
      BY OpensEffect DEF LockInv, LockTypeOK, Create, Turns, pastVars, lockBounds
    <3>5. /\ files' \in 0..MaxFiles /\ path' \in 0..files' /\ handles' \subseteq Launches
          /\ pidIn' \in [Files -> Launches \cup {Nobody}]
      BY OpensEffect DEF LockInv, LockTypeOK, Create, Turns, pastVars, lockBounds
    <3> QED
      BY <3>1, <3>2, <3>3, <3>4, <3>5 DEF LockTypeOK
  <2>2. AttemptInv'
    BY InstanceAssumption DEF LockInv, LockTypeOK, AttemptInv, Create, Turns, Opens
  <2> QED
    BY <2>1, <2>2
<1>2. PlatformInv'
  BY DEF LockInv, LockTypeOK, PlatformInv, OnPosix, OnWindows, Opened, Locked, Handled, Created,
         Create, Turns, Opens
<1>3. FileInv'
  <2>1. FileStep(l)
    BY OpensEffect, InstanceAssumption
       DEF LockInv, FileStep, LockTypeOK, PlatformInv, FileInv, OnPosix, OnWindows, Opened,
           Locked, Confirmed, Handled, Created, Files, Create, Turns
  <2> QED
    BY <2>1, FileStepKeeps DEF LockInv
<1>4. MutexInv'
  BY DEF LockInv, LockTypeOK, PlatformInv, MutexInv, OnPosix, OnWindows, Opened, Locked,
         Handled, Created, Create, Turns, Opens
<1>5. LoneInv'
  <2>1. LoneStep(l)
    BY OpensEffect, InstanceAssumption
       DEF LockInv, AttemptInv, LoneStep, LockTypeOK, PlatformInv, FileInv, MutexInv, LoneInv,
           Obstructed, OnPosix, OnWindows, Opened, Locked, Handled, Created, Over, About, Files,
           Create, Turns, pastVars, lockBounds
  <2> QED
    BY <2>1, LoneStepKeeps DEF LockInv
<1> QED
  BY <1>1, <1>2, <1>3, <1>4, <1>5 DEF LockInv

LEMMA NoteKeeps == ASSUME LockInv, NEW l \in Launches, Note(l) PROVE LockInv'
<1>1. LockTypeOK' /\ AttemptInv'
  <2>1. LockTypeOK'
    <3>1. stage' \in [Launches -> Stages] /\ again' \in [Launches -> BOOLEAN]
      BY FailsEffect, TurnsEffect, SomeStages DEF LockInv, AttemptInv, LockTypeOK, Note
    <3>2. fd' \in [Launches -> 0..MaxFiles] /\ flocks' \in [Files -> Launches \cup {Nobody}]
      BY FailsEffect, InstanceAssumption
         DEF LockInv, AttemptInv, LockTypeOK, Files, Stages, Over, Note, Turns, fileVars,
             pastVars, lockBounds
    <3>3. attempts' \in [Launches -> 0..MaxRetries] /\ errors' \in 0..MaxErrors /\ kills' \in 0..MaxKills
      BY FailsEffect, InstanceAssumption
         DEF LockInv, AttemptInv, LockTypeOK, Files, Stages, Over, Note, Turns, fileVars,
             pastVars, lockBounds
    <3>4. lone' \in [Launches -> BOOLEAN] /\ hurt' \in [Launches -> BOOLEAN] /\ windows' \in BOOLEAN
      BY FailsEffect, InstanceAssumption
         DEF LockInv, AttemptInv, LockTypeOK, Files, Stages, Over, Note, Turns, fileVars,
             pastVars, lockBounds
    <3>5. /\ files' \in 0..MaxFiles /\ path' \in 0..files' /\ handles' \subseteq Launches
          /\ pidIn' \in [Files -> Launches \cup {Nobody}]
      BY DEF LockInv, LockTypeOK, Note
    <3> QED
      BY <3>1, <3>2, <3>3, <3>4, <3>5 DEF LockTypeOK
  <2>2. AttemptInv'
    BY InstanceAssumption DEF LockInv, LockTypeOK, AttemptInv, Note, Turns, Fails
  <2> QED
    BY <2>1, <2>2
<1>2. PlatformInv'
  BY DEF LockInv, LockTypeOK, PlatformInv, OnPosix, OnWindows, Opened, Locked, Handled, Created,
         Note, Turns, Fails
<1>3. FileInv'
  <2>1. FileStep(l)
    BY FailsEffect, InstanceAssumption
       DEF LockInv, AttemptInv, FileStep, LockTypeOK, PlatformInv, FileInv, OnPosix, OnWindows,
           Opened, Locked, Confirmed, Handled, Created, Over, About, Files, Note, Turns,
           pastVars, lockBounds
  <2> QED
    BY <2>1, FileStepKeeps DEF LockInv
<1>4. MutexInv'
  BY DEF LockInv, LockTypeOK, PlatformInv, MutexInv, OnPosix, OnWindows, Opened, Locked,
         Handled, Created, Note, Turns, Fails
<1>5. LoneInv'
  <2>1. LoneStep(l)
    BY FailsEffect, InstanceAssumption
       DEF LockInv, AttemptInv, LoneStep, LockTypeOK, PlatformInv, FileInv, MutexInv, LoneInv,
           Obstructed, OnPosix, OnWindows, Opened, Locked, Handled, Created, Over, About, Files,
           Note, Turns, pastVars, lockBounds
  <2> QED
    BY <2>1, LoneStepKeeps DEF LockInv
<1> QED
  BY <1>1, <1>2, <1>3, <1>4, <1>5 DEF LockInv

LEMMA MatchedKeeps == ASSUME LockInv, NEW l \in Launches, Matched(l) PROVE LockInv'
<1>1. LockTypeOK' /\ AttemptInv'
  <2>1. LockTypeOK'
    <3>1. stage' \in [Launches -> Stages] /\ again' \in [Launches -> BOOLEAN]
      BY DEF LockInv, LockTypeOK, Stages, Matched, Turns, Matches, fileVars, pastVars,
             lockBounds
    <3>2. fd' \in [Launches -> 0..MaxFiles] /\ flocks' \in [Files -> Launches \cup {Nobody}]
      BY DEF LockInv, LockTypeOK, Matched, Turns, Matches, fileVars, pastVars, lockBounds
    <3>3. attempts' \in [Launches -> 0..MaxRetries] /\ errors' \in 0..MaxErrors /\ kills' \in 0..MaxKills
      BY InstanceAssumption
         DEF LockInv, LockTypeOK, Matched, Turns, Matches, fileVars, pastVars, lockBounds
    <3>4. lone' \in [Launches -> BOOLEAN] /\ hurt' \in [Launches -> BOOLEAN] /\ windows' \in BOOLEAN
      BY DEF LockInv, LockTypeOK, Matched, Turns, Matches, fileVars, pastVars, lockBounds
    <3>5. /\ files' \in 0..MaxFiles /\ path' \in 0..files' /\ handles' \subseteq Launches
          /\ pidIn' \in [Files -> Launches \cup {Nobody}]
      BY DEF LockInv, LockTypeOK, Matched, Turns, Matches, fileVars, pastVars, lockBounds
    <3> QED
      BY <3>1, <3>2, <3>3, <3>4, <3>5 DEF LockTypeOK
  <2>2. AttemptInv'
    BY InstanceAssumption DEF LockInv, LockTypeOK, AttemptInv, Matched, Turns, Matches, fileVars
  <2> QED
    BY <2>1, <2>2
<1>2. PlatformInv'
  BY DEF LockInv, LockTypeOK, PlatformInv, OnPosix, OnWindows, Opened, Locked, Handled, Created,
         Matched, Turns, Matches, fileVars
<1>3. FileInv'
  <2>1. FileStep(l)
    BY InstanceAssumption
       DEF LockInv, FileStep, LockTypeOK, PlatformInv, FileInv, OnPosix, OnWindows, Opened,
           Locked, Confirmed, Handled, Created, Files, Matched, Turns, Matches, fileVars
  <2> QED
    BY <2>1, FileStepKeeps DEF LockInv
<1>4. MutexInv'
  BY DEF LockInv, LockTypeOK, PlatformInv, MutexInv, OnPosix, OnWindows, Opened, Locked,
         Handled, Created, Matched, Turns, Matches, fileVars
<1>5. LoneInv'
  <2>1. LoneStep(l)
    BY InstanceAssumption
       DEF LockInv, AttemptInv, LoneStep, LockTypeOK, PlatformInv, FileInv, MutexInv, LoneInv,
           Obstructed, OnPosix, OnWindows, Opened, Locked, Handled, Created, Over, About, Files,
           Matched, Turns, Matches, fileVars, pastVars, lockBounds
  <2> QED
    BY <2>1, LoneStepKeeps DEF LockInv
<1> QED
  BY <1>1, <1>2, <1>3, <1>4, <1>5 DEF LockInv

LEMMA UnlinkKeeps == ASSUME LockInv, NEW l \in Launches, Unlink(l) PROVE LockInv'
<1>1. LockTypeOK' /\ AttemptInv'
  <2>1. LockTypeOK'
    <3>1. stage' \in [Launches -> Stages] /\ again' \in [Launches -> BOOLEAN]
      BY DEF LockInv, LockTypeOK, Stages, Unlink, Turns, pastVars, lockBounds
    <3>2. fd' \in [Launches -> 0..MaxFiles] /\ flocks' \in [Files -> Launches \cup {Nobody}]
      BY DEF LockInv, LockTypeOK, Unlink, Turns, pastVars, lockBounds
    <3>3. attempts' \in [Launches -> 0..MaxRetries] /\ errors' \in 0..MaxErrors /\ kills' \in 0..MaxKills
      BY InstanceAssumption DEF LockInv, LockTypeOK, Unlink, Turns, pastVars, lockBounds
    <3>4. lone' \in [Launches -> BOOLEAN] /\ hurt' \in [Launches -> BOOLEAN] /\ windows' \in BOOLEAN
      BY DEF LockInv, LockTypeOK, Unlink, Turns, pastVars, lockBounds
    <3>5. /\ files' \in 0..MaxFiles /\ path' \in 0..files' /\ handles' \subseteq Launches
          /\ pidIn' \in [Files -> Launches \cup {Nobody}]
      BY DEF LockInv, LockTypeOK, Unlink, Turns, pastVars, lockBounds
    <3> QED
      BY <3>1, <3>2, <3>3, <3>4, <3>5 DEF LockTypeOK
  <2>2. AttemptInv'
    BY InstanceAssumption DEF LockInv, LockTypeOK, AttemptInv, Unlink, Turns
  <2> QED
    BY <2>1, <2>2
<1>2. PlatformInv'
  BY DEF LockInv, LockTypeOK, PlatformInv, OnPosix, OnWindows, Opened, Locked, Handled, Created,
         Unlink, Turns
<1>3. FileInv'
  <2>1. FileStep(l)
    BY InstanceAssumption
       DEF LockInv, FileStep, LockTypeOK, PlatformInv, FileInv, OnPosix, OnWindows, Opened,
           Locked, Confirmed, Handled, Created, Files, Unlink, Turns
  <2> QED
    BY <2>1, FileStepKeeps DEF LockInv
<1>4. MutexInv'
  BY DEF LockInv, LockTypeOK, PlatformInv, MutexInv, OnPosix, OnWindows, Opened, Locked,
         Handled, Created, Unlink, Turns
<1>5. LoneInv'
  <2>1. LoneStep(l)
    BY InstanceAssumption
       DEF LockInv, AttemptInv, LoneStep, LockTypeOK, PlatformInv, FileInv, MutexInv, LoneInv,
           Obstructed, OnPosix, OnWindows, Opened, Locked, Handled, Created, Over, About, Files,
           Unlink, Turns, pastVars, lockBounds
  <2> QED
    BY <2>1, LoneStepKeeps DEF LockInv
<1> QED
  BY <1>1, <1>2, <1>3, <1>4, <1>5 DEF LockInv

LEMMA UnlockKeeps == ASSUME LockInv, NEW l \in Launches, Unlock(l) PROVE LockInv'
<1>1. LockTypeOK' /\ AttemptInv'
  <2>1. LockTypeOK'
    <3>1. stage' \in [Launches -> Stages] /\ again' \in [Launches -> BOOLEAN]
      BY ClosesEffect, InstanceAssumption
         DEF LockInv, AttemptInv, LockTypeOK, Files, Stages, Over, Unlock, Turns, fileVars,
             pastVars, lockBounds
    <3>2. fd' \in [Launches -> 0..MaxFiles] /\ flocks' \in [Files -> Launches \cup {Nobody}]
      BY ClosesEffect DEF LockInv, LockTypeOK, Unlock, Turns, pastVars, lockBounds
    <3>3. attempts' \in [Launches -> 0..MaxRetries] /\ errors' \in 0..MaxErrors /\ kills' \in 0..MaxKills
      BY ClosesEffect, InstanceAssumption
         DEF LockInv, LockTypeOK, Unlock, Turns, pastVars, lockBounds
    <3>4. lone' \in [Launches -> BOOLEAN] /\ hurt' \in [Launches -> BOOLEAN] /\ windows' \in BOOLEAN
      BY ClosesEffect DEF LockInv, LockTypeOK, Unlock, Turns, pastVars, lockBounds
    <3>5. /\ files' \in 0..MaxFiles /\ path' \in 0..files' /\ handles' \subseteq Launches
          /\ pidIn' \in [Files -> Launches \cup {Nobody}]
      BY ClosesEffect DEF LockInv, LockTypeOK, Unlock, Turns, pastVars, lockBounds
    <3> QED
      BY <3>1, <3>2, <3>3, <3>4, <3>5 DEF LockTypeOK
  <2>2. AttemptInv'
    BY ClosesEffect, InstanceAssumption DEF LockInv, LockTypeOK, AttemptInv, Unlock, Turns
  <2> QED
    BY <2>1, <2>2
<1>2. PlatformInv'
  BY ClosesEffect
     DEF LockInv, LockTypeOK, PlatformInv, OnPosix, OnWindows, Opened, Locked, Handled, Created,
         Unlock, Turns
<1>3. FileInv'
  <2>1. FileStep(l)
    BY ClosesEffect, InstanceAssumption
       DEF LockInv, FileStep, LockTypeOK, PlatformInv, FileInv, OnPosix, OnWindows, Opened,
           Locked, Confirmed, Handled, Created, Files, Unlock, Turns
  <2> QED
    BY <2>1, FileStepKeeps DEF LockInv
<1>4. MutexInv'
  BY ClosesEffect
     DEF LockInv, LockTypeOK, PlatformInv, MutexInv, OnPosix, OnWindows, Opened, Locked,
         Handled, Created, Unlock, Turns
<1>5. LoneInv'
  <2>1. LoneStep(l)
    BY ClosesEffect, InstanceAssumption
       DEF LockInv, AttemptInv, LoneStep, LockTypeOK, PlatformInv, FileInv, MutexInv, LoneInv,
           Obstructed, OnPosix, OnWindows, Opened, Locked, Handled, Created, Over, About, Files,
           Unlock, Turns, pastVars, lockBounds
  <2> QED
    BY <2>1, LoneStepKeeps DEF LockInv
<1> QED
  BY <1>1, <1>2, <1>3, <1>4, <1>5 DEF LockInv

LEMMA RemoveNoteKeeps == ASSUME LockInv, NEW l \in Launches, RemoveNote(l) PROVE LockInv'
<1>1. LockTypeOK' /\ AttemptInv'
  <2>1. LockTypeOK'
    <3>1. stage' \in [Launches -> Stages] /\ again' \in [Launches -> BOOLEAN]
      BY DEF LockInv, LockTypeOK, Stages, RemoveNote, Turns, pastVars, lockBounds
    <3>2. fd' \in [Launches -> 0..MaxFiles] /\ flocks' \in [Files -> Launches \cup {Nobody}]
      BY DEF LockInv, LockTypeOK, RemoveNote, Turns, pastVars, lockBounds
    <3>3. attempts' \in [Launches -> 0..MaxRetries] /\ errors' \in 0..MaxErrors /\ kills' \in 0..MaxKills
      BY InstanceAssumption DEF LockInv, LockTypeOK, RemoveNote, Turns, pastVars, lockBounds
    <3>4. lone' \in [Launches -> BOOLEAN] /\ hurt' \in [Launches -> BOOLEAN] /\ windows' \in BOOLEAN
      BY DEF LockInv, LockTypeOK, RemoveNote, Turns, pastVars, lockBounds
    <3>5. /\ files' \in 0..MaxFiles /\ path' \in 0..files' /\ handles' \subseteq Launches
          /\ pidIn' \in [Files -> Launches \cup {Nobody}]
      BY DEF LockInv, LockTypeOK, RemoveNote, Turns, pastVars, lockBounds
    <3> QED
      BY <3>1, <3>2, <3>3, <3>4, <3>5 DEF LockTypeOK
  <2>2. AttemptInv'
    BY InstanceAssumption DEF LockInv, LockTypeOK, AttemptInv, RemoveNote, Turns
  <2> QED
    BY <2>1, <2>2
<1>2. PlatformInv'
  BY DEF LockInv, LockTypeOK, PlatformInv, OnPosix, OnWindows, Opened, Locked, Handled, Created,
         RemoveNote, Turns
<1>3. FileInv'
  <2>1. FileStep(l)
    BY InstanceAssumption
       DEF LockInv, FileStep, LockTypeOK, PlatformInv, FileInv, OnPosix, OnWindows, Opened,
           Locked, Confirmed, Handled, Created, Files, RemoveNote, Turns
  <2> QED
    BY <2>1, FileStepKeeps DEF LockInv
<1>4. MutexInv'
  BY DEF LockInv, LockTypeOK, PlatformInv, MutexInv, OnPosix, OnWindows, Opened, Locked,
         Handled, Created, RemoveNote, Turns
<1>5. LoneInv'
  <2>1. LoneStep(l)
    BY InstanceAssumption
       DEF LockInv, AttemptInv, LoneStep, LockTypeOK, PlatformInv, FileInv, MutexInv, LoneInv,
           Obstructed, OnPosix, OnWindows, Opened, Locked, Handled, Created, Over, About, Files,
           RemoveNote, Turns, pastVars, lockBounds
  <2> QED
    BY <2>1, LoneStepKeeps DEF LockInv
<1> QED
  BY <1>1, <1>2, <1>3, <1>4, <1>5 DEF LockInv

LEMMA LeaveKeeps == ASSUME LockInv, NEW l \in Launches, Leave(l) PROVE LockInv'
<1>1. LockTypeOK' /\ AttemptInv'
  <2>1. LockTypeOK'
    <3>1. stage' \in [Launches -> Stages] /\ again' \in [Launches -> BOOLEAN]
      BY InstanceAssumption
         DEF LockInv, AttemptInv, LockTypeOK, Files, Stages, Over, Leave, Turns, fileVars,
             pastVars, lockBounds
    <3>2. fd' \in [Launches -> 0..MaxFiles] /\ flocks' \in [Files -> Launches \cup {Nobody}]
      BY DEF LockInv, LockTypeOK, Leave, Turns, fileVars, pastVars, lockBounds
    <3>3. attempts' \in [Launches -> 0..MaxRetries] /\ errors' \in 0..MaxErrors /\ kills' \in 0..MaxKills
      BY InstanceAssumption
         DEF LockInv, LockTypeOK, Leave, Turns, fileVars, pastVars, lockBounds
    <3>4. lone' \in [Launches -> BOOLEAN] /\ hurt' \in [Launches -> BOOLEAN] /\ windows' \in BOOLEAN
      BY DEF LockInv, LockTypeOK, Leave, Turns, fileVars, pastVars, lockBounds
    <3>5. /\ files' \in 0..MaxFiles /\ path' \in 0..files' /\ handles' \subseteq Launches
          /\ pidIn' \in [Files -> Launches \cup {Nobody}]
      BY DEF LockInv, LockTypeOK, Leave, Turns, fileVars, pastVars, lockBounds
    <3> QED
      BY <3>1, <3>2, <3>3, <3>4, <3>5 DEF LockTypeOK
  <2>2. AttemptInv'
    BY InstanceAssumption DEF LockInv, LockTypeOK, AttemptInv, Leave, Turns, fileVars
  <2> QED
    BY <2>1, <2>2
<1>2. PlatformInv'
  BY DEF LockInv, LockTypeOK, PlatformInv, OnPosix, OnWindows, Opened, Locked, Handled, Created,
         Leave, Turns, fileVars
<1>3. FileInv'
  <2>1. FileStep(l)
    BY InstanceAssumption
       DEF LockInv, FileStep, LockTypeOK, PlatformInv, FileInv, OnPosix, OnWindows, Opened,
           Locked, Confirmed, Handled, Created, Files, Leave, Turns, fileVars
  <2> QED
    BY <2>1, FileStepKeeps DEF LockInv
<1>4. MutexInv'
  BY DEF LockInv, LockTypeOK, PlatformInv, MutexInv, OnPosix, OnWindows, Opened, Locked,
         Handled, Created, Leave, Turns, fileVars
<1>5. LoneInv'
  <2>1. LoneStep(l)
    BY InstanceAssumption
       DEF LockInv, AttemptInv, LoneStep, LockTypeOK, PlatformInv, FileInv, MutexInv, LoneInv,
           Obstructed, OnPosix, OnWindows, Opened, Locked, Handled, Created, Over, About, Files,
           Leave, Turns, fileVars, pastVars, lockBounds
  <2> QED
    BY <2>1, LoneStepKeeps DEF LockInv
<1> QED
  BY <1>1, <1>2, <1>3, <1>4, <1>5 DEF LockInv

LEMMA ClearOpenKeeps == ASSUME LockInv, NEW l \in Launches, ClearOpen(l) PROVE LockInv'
<1>1. LockTypeOK' /\ AttemptInv'
  <2>1. LockTypeOK'
    <3>1. stage' \in [Launches -> Stages] /\ again' \in [Launches -> BOOLEAN]
      BY ToldEffect
         DEF LockInv, LockTypeOK, Stages, Over, ClearOpen, Turns, fileVars, pastVars, lockBounds
    <3>2. fd' \in [Launches -> 0..MaxFiles] /\ flocks' \in [Files -> Launches \cup {Nobody}]
      <4>1. path \in 0..MaxFiles
        BY InstanceAssumption DEF LockInv, LockTypeOK
      <4> QED
        BY <4>1 DEF LockInv, LockTypeOK, ClearOpen, fileVars
    <3>3. attempts' \in [Launches -> 0..MaxRetries] /\ errors' \in 0..MaxErrors /\ kills' \in 0..MaxKills
      BY ToldEffect, InstanceAssumption
         DEF LockInv, LockTypeOK, ClearOpen, Turns, fileVars, pastVars, lockBounds
    <3>4. lone' \in [Launches -> BOOLEAN] /\ hurt' \in [Launches -> BOOLEAN] /\ windows' \in BOOLEAN
      BY ToldEffect DEF LockInv, LockTypeOK, ClearOpen, Turns, fileVars, pastVars, lockBounds
    <3>5. /\ files' \in 0..MaxFiles /\ path' \in 0..files' /\ handles' \subseteq Launches
          /\ pidIn' \in [Files -> Launches \cup {Nobody}]
      BY ToldEffect DEF LockInv, LockTypeOK, ClearOpen, Turns, fileVars, pastVars, lockBounds
    <3> QED
      BY <3>1, <3>2, <3>3, <3>4, <3>5 DEF LockTypeOK
  <2>2. AttemptInv'
    BY InstanceAssumption DEF LockInv, LockTypeOK, AttemptInv, ClearOpen, Turns, Told, fileVars
  <2> QED
    BY <2>1, <2>2
<1>2. PlatformInv'
  BY DEF LockInv, LockTypeOK, PlatformInv, OnPosix, OnWindows, Opened, Locked, Handled, Created,
         ClearOpen, Turns, Told, fileVars
<1>3. FileInv'
  <2>1. FileStep(l)
    <3>1. /\ stage'[l] \in {"failed", "clearMatch"}
          /\ \A q \in Launches \ {l} : stage'[q] = stage[q]
      BY ToldEffect, TurnsEffect, SomeStages DEF LockInv, ClearOpen
    <3>2. /\ \A q \in Launches \ {l} : fd'[q] = fd[q]
          /\ stage'[l] = "clearMatch" => fd'[l] \in 1..files
      <4>1. CASE path = 0 /\ Told(l) /\ UNCHANGED fd
        BY <4>1, ToldEffect DEF LockInv
      <4>2. CASE path # 0 /\ fd' = [fd EXCEPT ![l] = path]
        BY <4>2, InstanceAssumption DEF LockInv, LockTypeOK
      <4> QED
        BY <4>1, <4>2 DEF ClearOpen
    <3>3. \A i \in Files : flocks[i] # l
      BY DEF LockInv, FileInv, Locked, ClearOpen
    <3>4. UNCHANGED <<windows, path, files, flocks>> /\ files \in Nat
      BY InstanceAssumption DEF ClearOpen, fileVars, LockInv, LockTypeOK
    <3> QED
      BY <3>1, <3>2, <3>3, <3>4 DEF FileStep, Opened, Locked, Confirmed
  <2> QED
    BY <2>1, FileStepKeeps DEF LockInv
<1>4. MutexInv'
  BY DEF LockInv, LockTypeOK, PlatformInv, MutexInv, OnPosix, OnWindows, Opened, Locked,
         Handled, Created, ClearOpen, Turns, Told, fileVars
<1>5. LoneInv'
  <2>1. LoneStep(l)
    BY ToldEffect, InstanceAssumption
       DEF LockInv, AttemptInv, LoneStep, LockTypeOK, PlatformInv, FileInv, MutexInv, LoneInv,
           Obstructed, OnPosix, OnWindows, Opened, Locked, Handled, Created, Over, About, Files,
           ClearOpen, Turns, fileVars, pastVars, lockBounds
  <2> QED
    BY <2>1, LoneStepKeeps DEF LockInv
<1> QED
  BY <1>1, <1>2, <1>3, <1>4, <1>5 DEF LockInv

LEMMA ClearMatchKeeps == ASSUME LockInv, NEW l \in Launches, ClearMatch(l) PROVE LockInv'
<1>1. LockTypeOK' /\ AttemptInv'
  <2>1. LockTypeOK'
    <3>1. stage' \in [Launches -> Stages] /\ again' \in [Launches -> BOOLEAN]
      BY ToldEffect, TurnsEffect, SomeStages DEF LockInv, LockTypeOK, ClearMatch
    <3>2. fd' \in [Launches -> 0..MaxFiles] /\ flocks' \in [Files -> Launches \cup {Nobody}]
      BY ClosesEffect, ToldEffect
         DEF LockInv, LockTypeOK, ClearMatch, Turns, Matches, pastVars, lockBounds
    <3>3. attempts' \in [Launches -> 0..MaxRetries] /\ errors' \in 0..MaxErrors /\ kills' \in 0..MaxKills
      BY ClosesEffect, ToldEffect, InstanceAssumption
         DEF LockInv, LockTypeOK, ClearMatch, Turns, Matches, pastVars, lockBounds
    <3>4. lone' \in [Launches -> BOOLEAN] /\ hurt' \in [Launches -> BOOLEAN] /\ windows' \in BOOLEAN
      BY ClosesEffect, ToldEffect
         DEF LockInv, LockTypeOK, ClearMatch, Turns, Matches, pastVars, lockBounds
    <3>5. /\ files' \in 0..MaxFiles /\ path' \in 0..files' /\ handles' \subseteq Launches
          /\ pidIn' \in [Files -> Launches \cup {Nobody}]
      BY ClosesEffect, ToldEffect
         DEF LockInv, LockTypeOK, ClearMatch, Turns, Matches, pastVars, lockBounds
    <3> QED
      BY <3>1, <3>2, <3>3, <3>4, <3>5 DEF LockTypeOK
  <2>2. AttemptInv'
    BY ClosesEffect, InstanceAssumption
       DEF LockInv, LockTypeOK, AttemptInv, ClearMatch, Turns, Matches, Told
  <2> QED
    BY <2>1, <2>2
<1>2. PlatformInv'
  BY ClosesEffect
     DEF LockInv, LockTypeOK, PlatformInv, OnPosix, OnWindows, Opened, Locked, Handled, Created,
         ClearMatch, Turns, Matches, Told
<1>3. FileInv'
  <2>1. FileStep(l)
    <3>0. /\ UNCHANGED <<windows, path, files>> /\ files \in Nat
          /\ stage[l] = "clearMatch" /\ fd[l] \in 1..files /\ ~windows
      BY InstanceAssumption
         DEF ClearMatch, Turns, LockInv, LockTypeOK, PlatformInv, FileInv, OnPosix, Opened,
             Locked
    <3>1. CASE Matches(l)
      <4>1. stage'[l] = "clearFlock" /\ \A q \in Launches \ {l} : stage'[q] = stage[q]
        BY <3>1, TurnsEffect, SomeStages DEF ClearMatch, LockInv
      <4>2. UNCHANGED <<flocks, fd>>
        BY <3>1 DEF ClearMatch
      <4> QED
        BY <3>0, <3>1, <4>1, <4>2
           DEF FileStep, Opened, Locked, Confirmed, LockInv, FileInv, Matches
    <3>2. CASE ~Matches(l)
      <4>1. stage'[l] = "failed" /\ \A q \in Launches \ {l} : stage'[q] = stage[q]
        BY <3>2, TurnsEffect, ToldEffect, SomeStages DEF ClearMatch, LockInv
      <4>2. Closes(l)
        BY <3>2 DEF ClearMatch
      <4> QED
        BY <3>0, <4>1, <4>2, ClosesEffect DEF FileStep, Opened, Locked, Confirmed, LockInv
    <3> QED
      BY <3>1, <3>2
  <2> QED
    BY <2>1, FileStepKeeps DEF LockInv
<1>4. MutexInv'
  BY ClosesEffect
     DEF LockInv, LockTypeOK, PlatformInv, MutexInv, OnPosix, OnWindows, Opened, Locked,
         Handled, Created, ClearMatch, Turns, Matches, Told
<1>5. LoneInv'
  <2>1. LoneStep(l)
    BY ClosesEffect, ToldEffect, InstanceAssumption
       DEF LockInv, AttemptInv, LoneStep, LockTypeOK, PlatformInv, FileInv, MutexInv, LoneInv,
           Obstructed, OnPosix, OnWindows, Opened, Locked, Handled, Created, Over, About, Files,
           ClearMatch, Turns, Matches, pastVars, lockBounds
  <2> QED
    BY <2>1, LoneStepKeeps DEF LockInv
<1> QED
  BY <1>1, <1>2, <1>3, <1>4, <1>5 DEF LockInv

LEMMA ClearFlockKeeps == ASSUME LockInv, NEW l \in Launches, ClearFlock(l) PROVE LockInv'
<1>1. LockTypeOK' /\ AttemptInv'
  <2>1. LockTypeOK'
    <3>1. stage' \in [Launches -> Stages] /\ again' \in [Launches -> BOOLEAN]
      BY ToldEffect, TurnsEffect, SomeStages DEF LockInv, LockTypeOK, ClearFlock
    <3>2. fd' \in [Launches -> 0..MaxFiles] /\ flocks' \in [Files -> Launches \cup {Nobody}]
      BY ClosesEffect DEF LockInv, LockTypeOK, ClearFlock
    <3>3. attempts' \in [Launches -> 0..MaxRetries] /\ errors' \in 0..MaxErrors /\ kills' \in 0..MaxKills
      BY ClosesEffect, ToldEffect, InstanceAssumption
         DEF LockInv, LockTypeOK, ClearFlock, Turns, pastVars, lockBounds
    <3>4. lone' \in [Launches -> BOOLEAN] /\ hurt' \in [Launches -> BOOLEAN] /\ windows' \in BOOLEAN
      BY ClosesEffect, ToldEffect
         DEF LockInv, LockTypeOK, ClearFlock, Turns, pastVars, lockBounds
    <3>5. /\ files' \in 0..MaxFiles /\ path' \in 0..files' /\ handles' \subseteq Launches
          /\ pidIn' \in [Files -> Launches \cup {Nobody}]
      BY ClosesEffect, ToldEffect
         DEF LockInv, LockTypeOK, ClearFlock, Turns, pastVars, lockBounds
    <3> QED
      BY <3>1, <3>2, <3>3, <3>4, <3>5 DEF LockTypeOK
  <2>2. AttemptInv'
    BY ClosesEffect, InstanceAssumption
       DEF LockInv, LockTypeOK, AttemptInv, ClearFlock, Turns, Told
  <2> QED
    BY <2>1, <2>2
<1>2. PlatformInv'
  BY ClosesEffect
     DEF LockInv, LockTypeOK, PlatformInv, OnPosix, OnWindows, Opened, Locked, Handled, Created,
         ClearFlock, Turns, Told
<1>3. FileInv'
  <2>1. FileStep(l)
    BY SMTT(30), ClosesEffect, ToldEffect, InstanceAssumption
       DEF LockInv, FileStep, LockTypeOK, PlatformInv, FileInv, OnPosix, OnWindows, Opened,
           Locked, Confirmed, Handled, Created, Files, ClearFlock, Turns
  <2> QED
    BY <2>1, FileStepKeeps DEF LockInv
<1>4. MutexInv'
  BY ClosesEffect
     DEF LockInv, LockTypeOK, PlatformInv, MutexInv, OnPosix, OnWindows, Opened, Locked,
         Handled, Created, ClearFlock, Turns, Told
<1>5. LoneInv'
  <2>1. LoneStep(l)
    BY ClosesEffect, ToldEffect, InstanceAssumption
       DEF LockInv, AttemptInv, LoneStep, LockTypeOK, PlatformInv, FileInv, MutexInv, LoneInv,
           Obstructed, OnPosix, OnWindows, Opened, Locked, Handled, Created, Over, About, Files,
           ClearFlock, Turns, pastVars, lockBounds
  <2> QED
    BY <2>1, LoneStepKeeps DEF LockInv
<1> QED
  BY <1>1, <1>2, <1>3, <1>4, <1>5 DEF LockInv

LEMMA ClearRematchKeeps == ASSUME LockInv, NEW l \in Launches, ClearRematch(l) PROVE LockInv'
<1>1. LockTypeOK' /\ AttemptInv'
  <2>1. LockTypeOK'
    <3>1. stage' \in [Launches -> Stages] /\ again' \in [Launches -> BOOLEAN]
      BY ToldEffect, TurnsEffect, SomeStages DEF LockInv, LockTypeOK, ClearRematch
    <3>2. fd' \in [Launches -> 0..MaxFiles] /\ flocks' \in [Files -> Launches \cup {Nobody}]
      BY ClosesEffect, ToldEffect
         DEF LockInv, LockTypeOK, ClearRematch, Turns, Matches, pastVars, lockBounds
    <3>3. attempts' \in [Launches -> 0..MaxRetries] /\ errors' \in 0..MaxErrors /\ kills' \in 0..MaxKills
      BY ClosesEffect, ToldEffect, InstanceAssumption
         DEF LockInv, LockTypeOK, ClearRematch, Turns, Matches, pastVars, lockBounds
    <3>4. lone' \in [Launches -> BOOLEAN] /\ hurt' \in [Launches -> BOOLEAN] /\ windows' \in BOOLEAN
      BY ClosesEffect, ToldEffect
         DEF LockInv, LockTypeOK, ClearRematch, Turns, Matches, pastVars, lockBounds
    <3>5. /\ files' \in 0..MaxFiles /\ path' \in 0..files' /\ handles' \subseteq Launches
          /\ pidIn' \in [Files -> Launches \cup {Nobody}]
      BY ClosesEffect, ToldEffect
         DEF LockInv, LockTypeOK, ClearRematch, Turns, Matches, pastVars, lockBounds
    <3> QED
      BY <3>1, <3>2, <3>3, <3>4, <3>5 DEF LockTypeOK
  <2>2. AttemptInv'
    BY ClosesEffect, InstanceAssumption
       DEF LockInv, LockTypeOK, AttemptInv, ClearRematch, Turns, Matches, Told
  <2> QED
    BY <2>1, <2>2
<1>2. PlatformInv'
  BY ClosesEffect
     DEF LockInv, LockTypeOK, PlatformInv, OnPosix, OnWindows, Opened, Locked, Handled, Created,
         ClearRematch, Turns, Matches, Told
<1>3. FileInv'
  <2>1. FileStep(l)
    BY SMTT(30), ClosesEffect, ToldEffect, InstanceAssumption
       DEF LockInv, FileStep, LockTypeOK, PlatformInv, FileInv, OnPosix, OnWindows, Opened,
           Locked, Confirmed, Handled, Created, Files, ClearRematch, Turns, Matches
  <2> QED
    BY <2>1, FileStepKeeps DEF LockInv
<1>4. MutexInv'
  BY ClosesEffect
     DEF LockInv, LockTypeOK, PlatformInv, MutexInv, OnPosix, OnWindows, Opened, Locked,
         Handled, Created, ClearRematch, Turns, Matches, Told
<1>5. LoneInv'
  <2>1. LoneStep(l)
    BY ClosesEffect, ToldEffect, InstanceAssumption
       DEF LockInv, AttemptInv, LoneStep, LockTypeOK, PlatformInv, FileInv, MutexInv, LoneInv,
           Obstructed, OnPosix, OnWindows, Opened, Locked, Handled, Created, Over, About, Files,
           ClearRematch, Turns, Matches, pastVars, lockBounds
  <2> QED
    BY <2>1, LoneStepKeeps DEF LockInv
<1> QED
  BY <1>1, <1>2, <1>3, <1>4, <1>5 DEF LockInv

LEMMA ClearUnlinkKeeps == ASSUME LockInv, NEW l \in Launches, ClearUnlink(l) PROVE LockInv'
<1>1. LockTypeOK' /\ AttemptInv'
  <2>1. LockTypeOK'
    <3>1. stage' \in [Launches -> Stages] /\ again' \in [Launches -> BOOLEAN]
      BY DEF LockInv, LockTypeOK, Stages, ClearUnlink, Turns, pastVars, lockBounds
    <3>2. fd' \in [Launches -> 0..MaxFiles] /\ flocks' \in [Files -> Launches \cup {Nobody}]
      BY DEF LockInv, LockTypeOK, ClearUnlink, Turns, pastVars, lockBounds
    <3>3. attempts' \in [Launches -> 0..MaxRetries] /\ errors' \in 0..MaxErrors /\ kills' \in 0..MaxKills
      BY InstanceAssumption DEF LockInv, LockTypeOK, ClearUnlink, Turns, pastVars, lockBounds
    <3>4. lone' \in [Launches -> BOOLEAN] /\ hurt' \in [Launches -> BOOLEAN] /\ windows' \in BOOLEAN
      BY DEF LockInv, LockTypeOK, ClearUnlink, Turns, pastVars, lockBounds
    <3>5. /\ files' \in 0..MaxFiles /\ path' \in 0..files' /\ handles' \subseteq Launches
          /\ pidIn' \in [Files -> Launches \cup {Nobody}]
      BY DEF LockInv, LockTypeOK, ClearUnlink, Turns, pastVars, lockBounds
    <3> QED
      BY <3>1, <3>2, <3>3, <3>4, <3>5 DEF LockTypeOK
  <2>2. AttemptInv'
    BY InstanceAssumption DEF LockInv, LockTypeOK, AttemptInv, ClearUnlink, Turns
  <2> QED
    BY <2>1, <2>2
<1>2. PlatformInv'
  BY DEF LockInv, LockTypeOK, PlatformInv, OnPosix, OnWindows, Opened, Locked, Handled, Created,
         ClearUnlink, Turns
<1>3. FileInv'
  <2>1. FileStep(l)
    BY InstanceAssumption
       DEF LockInv, FileStep, LockTypeOK, PlatformInv, FileInv, OnPosix, OnWindows, Opened,
           Locked, Confirmed, Handled, Created, Files, ClearUnlink, Turns
  <2> QED
    BY <2>1, FileStepKeeps DEF LockInv
<1>4. MutexInv'
  BY DEF LockInv, LockTypeOK, PlatformInv, MutexInv, OnPosix, OnWindows, Opened, Locked,
         Handled, Created, ClearUnlink, Turns
<1>5. LoneInv'
  <2>1. LoneStep(l)
    BY InstanceAssumption
       DEF LockInv, AttemptInv, LoneStep, LockTypeOK, PlatformInv, FileInv, MutexInv, LoneInv,
           Obstructed, OnPosix, OnWindows, Opened, Locked, Handled, Created, Over, About, Files,
           ClearUnlink, Turns, pastVars, lockBounds
  <2> QED
    BY <2>1, LoneStepKeeps DEF LockInv
<1> QED
  BY <1>1, <1>2, <1>3, <1>4, <1>5 DEF LockInv

LEMMA ClearUnlockKeeps == ASSUME LockInv, NEW l \in Launches, ClearUnlock(l) PROVE LockInv'
<1>1. LockTypeOK' /\ AttemptInv'
  <2>1. LockTypeOK'
    <3>1. stage' \in [Launches -> Stages] /\ again' \in [Launches -> BOOLEAN]
      BY ClosesEffect, ToldEffect, RetriesEffect
         DEF LockInv, LockTypeOK, Stages, Over, ClearUnlock, pastVars, lockBounds
    <3>2. fd' \in [Launches -> 0..MaxFiles] /\ flocks' \in [Files -> Launches \cup {Nobody}]
      BY ClosesEffect, ToldEffect, RetriesEffect
         DEF LockInv, LockTypeOK, ClearUnlock, pastVars, lockBounds
    <3>3. attempts' \in [Launches -> 0..MaxRetries] /\ errors' \in 0..MaxErrors /\ kills' \in 0..MaxKills
      BY ClosesEffect, ToldEffect, RetriesEffect, InstanceAssumption
         DEF LockInv, LockTypeOK, ClearUnlock, pastVars, lockBounds
    <3>4. lone' \in [Launches -> BOOLEAN] /\ hurt' \in [Launches -> BOOLEAN] /\ windows' \in BOOLEAN
      BY ClosesEffect, ToldEffect, RetriesEffect
         DEF LockInv, LockTypeOK, ClearUnlock, pastVars, lockBounds
    <3>5. /\ files' \in 0..MaxFiles /\ path' \in 0..files' /\ handles' \subseteq Launches
          /\ pidIn' \in [Files -> Launches \cup {Nobody}]
      BY ClosesEffect, ToldEffect, RetriesEffect
         DEF LockInv, LockTypeOK, ClearUnlock, pastVars, lockBounds
    <3> QED
      BY <3>1, <3>2, <3>3, <3>4, <3>5 DEF LockTypeOK
  <2>2. AttemptInv'
    BY ClosesEffect, InstanceAssumption
       DEF LockInv, LockTypeOK, AttemptInv, ClearUnlock, Told, Retries
  <2> QED
    BY <2>1, <2>2
<1>2. PlatformInv'
  BY ClosesEffect
     DEF LockInv, LockTypeOK, PlatformInv, OnPosix, OnWindows, Opened, Locked, Handled, Created,
         ClearUnlock, Told, Retries
<1>3. FileInv'
  <2>1. FileStep(l)
    <3>1. /\ UNCHANGED <<windows, path, files>> /\ files \in Nat
      BY DEF ClearUnlock, LockInv, LockTypeOK
    <3>2. stage'[l] \in {"failed", "mutex", "open"} /\ \A q \in Launches \ {l} : stage'[q] = stage[q]
      BY RetriesEffect DEF ClearUnlock, LockInv
    <3>3. Closes(l)
      BY DEF ClearUnlock
    <3> QED
      BY <3>1, <3>2, <3>3, ClosesEffect DEF FileStep, Opened, Locked, Confirmed, LockInv
  <2> QED
    BY <2>1, FileStepKeeps DEF LockInv
<1>4. MutexInv'
  BY ClosesEffect
     DEF LockInv, LockTypeOK, PlatformInv, MutexInv, OnPosix, OnWindows, Opened, Locked,
         Handled, Created, ClearUnlock, Told, Retries
<1>5. LoneInv'
  <2>1. LoneStep(l)
    BY ClosesEffect, ToldEffect, RetriesEffect, InstanceAssumption
       DEF LockInv, AttemptInv, LoneStep, LockTypeOK, PlatformInv, FileInv, MutexInv, LoneInv,
           Obstructed, OnPosix, OnWindows, Opened, Locked, Handled, Created, Over, About, Files,
           ClearUnlock, pastVars, lockBounds
  <2> QED
    BY <2>1, LoneStepKeeps DEF LockInv
<1> QED
  BY <1>1, <1>2, <1>3, <1>4, <1>5 DEF LockInv

LEMMA ReadNoteKeeps == ASSUME LockInv, NEW l \in Launches, ReadNote(l) PROVE LockInv'
<1>1. LockTypeOK' /\ AttemptInv'
  <2>1. LockTypeOK'
    <3>1. stage' \in [Launches -> Stages] /\ again' \in [Launches -> BOOLEAN]
      BY ToldEffect
         DEF LockInv, LockTypeOK, Stages, Over, ReadNote, Turns, fileVars, pastVars, lockBounds
    <3>2. fd' \in [Launches -> 0..MaxFiles] /\ flocks' \in [Files -> Launches \cup {Nobody}]
      BY ToldEffect DEF LockInv, LockTypeOK, ReadNote, Turns, fileVars, pastVars, lockBounds
    <3>3. attempts' \in [Launches -> 0..MaxRetries] /\ errors' \in 0..MaxErrors /\ kills' \in 0..MaxKills
      BY ToldEffect, InstanceAssumption
         DEF LockInv, LockTypeOK, ReadNote, Turns, fileVars, pastVars, lockBounds
    <3>4. lone' \in [Launches -> BOOLEAN] /\ hurt' \in [Launches -> BOOLEAN] /\ windows' \in BOOLEAN
      BY ToldEffect DEF LockInv, LockTypeOK, ReadNote, Turns, fileVars, pastVars, lockBounds
    <3>5. /\ files' \in 0..MaxFiles /\ path' \in 0..files' /\ handles' \subseteq Launches
          /\ pidIn' \in [Files -> Launches \cup {Nobody}]
      BY ToldEffect DEF LockInv, LockTypeOK, ReadNote, Turns, fileVars, pastVars, lockBounds
    <3> QED
      BY <3>1, <3>2, <3>3, <3>4, <3>5 DEF LockTypeOK
  <2>2. AttemptInv'
    BY InstanceAssumption DEF LockInv, LockTypeOK, AttemptInv, ReadNote, Turns, Told, fileVars
  <2> QED
    BY <2>1, <2>2
<1>2. PlatformInv'
  BY DEF LockInv, LockTypeOK, PlatformInv, OnPosix, OnWindows, Opened, Locked, Handled, Created,
         ReadNote, Turns, Told, fileVars
<1>3. FileInv'
  <2>1. FileStep(l)
    BY ToldEffect, InstanceAssumption
       DEF LockInv, FileStep, LockTypeOK, PlatformInv, FileInv, OnPosix, OnWindows, Opened,
           Locked, Confirmed, Handled, Created, Files, ReadNote, Turns, fileVars
  <2> QED
    BY <2>1, FileStepKeeps DEF LockInv
<1>4. MutexInv'
  BY DEF LockInv, LockTypeOK, PlatformInv, MutexInv, OnPosix, OnWindows, Opened, Locked,
         Handled, Created, ReadNote, Turns, Told, fileVars
<1>5. LoneInv'
  <2>1. LoneStep(l)
    BY ToldEffect, InstanceAssumption
       DEF LockInv, AttemptInv, LoneStep, LockTypeOK, PlatformInv, FileInv, MutexInv, LoneInv,
           Obstructed, OnPosix, OnWindows, Opened, Locked, Handled, Created, Over, About, Files,
           ReadNote, Turns, fileVars, pastVars, lockBounds
  <2> QED
    BY <2>1, LoneStepKeeps DEF LockInv
<1> QED
  BY <1>1, <1>2, <1>3, <1>4, <1>5 DEF LockInv

LEMMA RemoveStaleKeeps == ASSUME LockInv, NEW l \in Launches, RemoveStale(l) PROVE LockInv'
<1>1. LockTypeOK' /\ AttemptInv'
  <2>1. LockTypeOK'
    <3>1. stage' \in [Launches -> Stages] /\ again' \in [Launches -> BOOLEAN]
      BY ToldEffect, RetriesEffect
         DEF LockInv, LockTypeOK, Stages, Over, RemoveStale, Turns, pastVars, lockBounds
    <3>2. fd' \in [Launches -> 0..MaxFiles] /\ flocks' \in [Files -> Launches \cup {Nobody}]
      BY ToldEffect, RetriesEffect
         DEF LockInv, LockTypeOK, RemoveStale, Turns, pastVars, lockBounds
    <3>3. attempts' \in [Launches -> 0..MaxRetries] /\ errors' \in 0..MaxErrors /\ kills' \in 0..MaxKills
      BY ToldEffect, RetriesEffect, InstanceAssumption
         DEF LockInv, LockTypeOK, RemoveStale, Turns, pastVars, lockBounds
    <3>4. lone' \in [Launches -> BOOLEAN] /\ hurt' \in [Launches -> BOOLEAN] /\ windows' \in BOOLEAN
      BY ToldEffect, RetriesEffect
         DEF LockInv, LockTypeOK, RemoveStale, Turns, pastVars, lockBounds
    <3>5. /\ files' \in 0..MaxFiles /\ path' \in 0..files' /\ handles' \subseteq Launches
          /\ pidIn' \in [Files -> Launches \cup {Nobody}]
      BY ToldEffect, RetriesEffect
         DEF LockInv, LockTypeOK, RemoveStale, Turns, pastVars, lockBounds
    <3> QED
      BY <3>1, <3>2, <3>3, <3>4, <3>5 DEF LockTypeOK
  <2>2. AttemptInv'
    BY InstanceAssumption DEF LockInv, LockTypeOK, AttemptInv, RemoveStale, Turns, Told, Retries
  <2> QED
    BY <2>1, <2>2
<1>2. PlatformInv'
  BY DEF LockInv, LockTypeOK, PlatformInv, OnPosix, OnWindows, Opened, Locked, Handled, Created,
         RemoveStale, Turns, Told, Retries
<1>3. FileInv'
  <2>1. FileStep(l)
    BY SMTT(30), ToldEffect, RetriesEffect, InstanceAssumption
       DEF LockInv, FileStep, LockTypeOK, PlatformInv, FileInv, OnPosix, OnWindows, Opened,
           Locked, Confirmed, Handled, Created, Files, RemoveStale, Turns
  <2> QED
    BY <2>1, FileStepKeeps DEF LockInv
<1>4. MutexInv'
  BY DEF LockInv, LockTypeOK, PlatformInv, MutexInv, OnPosix, OnWindows, Opened, Locked,
         Handled, Created, RemoveStale, Turns, Told, Retries
<1>5. LoneInv'
  <2>1. LoneStep(l)
    BY ToldEffect, RetriesEffect, InstanceAssumption
       DEF LockInv, AttemptInv, LoneStep, LockTypeOK, PlatformInv, FileInv, MutexInv, LoneInv,
           Obstructed, OnPosix, OnWindows, Opened, Locked, Handled, Created, Over, About, Files,
           RemoveStale, Turns, pastVars, lockBounds
  <2> QED
    BY <2>1, LoneStepKeeps DEF LockInv
<1> QED
  BY <1>1, <1>2, <1>3, <1>4, <1>5 DEF LockInv

LEMMA KillKeeps == ASSUME LockInv, NEW l \in Launches, Kill(l) PROVE LockInv'
<1>1. LockTypeOK' /\ AttemptInv'
  <2>1. LockTypeOK'
    <3>1. stage' \in [Launches -> Stages] /\ again' \in [Launches -> BOOLEAN]
      BY ClosesEffect DEF LockInv, LockTypeOK, Stages, Over, Kill, pastVars
    <3>2. fd' \in [Launches -> 0..MaxFiles] /\ flocks' \in [Files -> Launches \cup {Nobody}]
      BY ClosesEffect DEF LockInv, LockTypeOK, Kill, pastVars
    <3>3. attempts' \in [Launches -> 0..MaxRetries] /\ errors' \in 0..MaxErrors /\ kills' \in 0..MaxKills
      BY ClosesEffect, InstanceAssumption DEF LockInv, LockTypeOK, Kill, pastVars
    <3>4. lone' \in [Launches -> BOOLEAN] /\ hurt' \in [Launches -> BOOLEAN] /\ windows' \in BOOLEAN
      BY ClosesEffect DEF LockInv, LockTypeOK, Kill, pastVars
    <3>5. /\ files' \in 0..MaxFiles /\ path' \in 0..files' /\ handles' \subseteq Launches
          /\ pidIn' \in [Files -> Launches \cup {Nobody}]
      BY ClosesEffect DEF LockInv, LockTypeOK, Kill, pastVars
    <3> QED
      BY <3>1, <3>2, <3>3, <3>4, <3>5 DEF LockTypeOK
  <2>2. AttemptInv'
    BY ClosesEffect, InstanceAssumption DEF LockInv, LockTypeOK, AttemptInv, Kill
  <2> QED
    BY <2>1, <2>2
<1>2. PlatformInv'
  BY ClosesEffect
     DEF LockInv, LockTypeOK, PlatformInv, OnPosix, OnWindows, Opened, Locked, Handled, Created,
         Over, About, Kill
<1>3. FileInv'
  <2>1. FileStep(l)
    BY ClosesEffect, InstanceAssumption
       DEF LockInv, FileStep, LockTypeOK, PlatformInv, FileInv, OnPosix, OnWindows, Opened,
           Locked, Confirmed, Handled, Created, Over, About, Files, Kill
  <2> QED
    BY <2>1, FileStepKeeps DEF LockInv
<1>4. MutexInv'
  BY ClosesEffect
     DEF LockInv, LockTypeOK, PlatformInv, MutexInv, OnPosix, OnWindows, Opened, Locked,
         Handled, Created, Over, About, Kill
<1>5. LoneInv'
  <2>1. LoneStep(l)
    BY ClosesEffect
       DEF LockInv, LoneStep, LockTypeOK, PlatformInv, FileInv, LoneInv, Obstructed, OnPosix,
           OnWindows, Opened, Locked, Handled, Created, Over, About, Kill, pastVars
  <2> QED
    BY <2>1, LoneStepKeeps DEF LockInv
<1> QED
  BY <1>1, <1>2, <1>3, <1>4, <1>5 DEF LockInv

\* The invariant holds when nobody has been launched.
LEMMA InitLock == LockInit => LockInv
<1> SUFFICES ASSUME LockInit PROVE LockInv
  OBVIOUS
<1>1. LockTypeOK
  <2>1. files \in 0..MaxFiles /\ path \in 0..files
    BY InstanceAssumption DEF LockInit
  <2>2. stage \in [Launches -> Stages]
    BY DEF LockInit, Stages, Over
  <2>3. fd \in [Launches -> 0..MaxFiles] /\ attempts \in [Launches -> 0..MaxRetries]
    BY InstanceAssumption DEF LockInit
  <2> QED
    BY <2>1, <2>2, <2>3, InstanceAssumption DEF LockInit, LockTypeOK
<1>2. AttemptInv /\ LoneInv
  BY InstanceAssumption DEF LockInit, AttemptInv, LoneInv
<1>3. PlatformInv /\ FileInv
  BY InstanceAssumption
     DEF LockInit, PlatformInv, FileInv, OnPosix, OnWindows, Opened, Locked, Confirmed, Created,
         Handled
<1>4. MutexInv
  BY DEF LockInit, MutexInv, Created, Handled
<1> QED
  BY <1>1, <1>2, <1>3, <1>4 DEF LockInv

\* Every step preserves the invariant.
LEMMA NextLock == ASSUME LockInv, [LockNext]_lockVars PROVE LockInv'
<1>1. ASSUME NEW l \in Launches, Launch(l) \/ Kill(l) PROVE LockInv'
  BY <1>1, LaunchKeeps, KillKeeps
<1>2. ASSUME NEW l \in Launches, Acquires(l) \/ AcquiresMutex(l) PROVE LockInv'
  BY <1>2, OpenKeeps, ValidateKeeps, FlockKeeps, RevalidateKeeps, WritePidKeeps,
     CreateMutexKeeps, CloseHandleKeeps, ReclaimKeeps, CreateKeeps, NoteKeeps
     DEF Acquires, AcquiresMutex
<1>3. ASSUME NEW l \in Launches, Releases(l) PROVE LockInv'
  BY <1>3, MatchedKeeps, UnlinkKeeps, UnlockKeeps, RemoveNoteKeeps, LeaveKeeps DEF Releases
<1>4. ASSUME NEW l \in Launches, Clears(l) PROVE LockInv'
  BY <1>4, ClearOpenKeeps, ClearMatchKeeps, ClearFlockKeeps, ClearRematchKeeps,
     ClearUnlinkKeeps, ClearUnlockKeeps, ReadNoteKeeps, RemoveStaleKeeps DEF Clears
<1>5. CASE UNCHANGED lockVars
  <2> USE <1>5 DEF lockVars, fileVars, launchVars, pastVars, lockBounds
  <2>1. LockTypeOK' /\ AttemptInv'
    BY DEF LockInv, LockTypeOK, AttemptInv
  <2>2. PlatformInv' /\ FileInv'
    BY DEF LockInv, PlatformInv, FileInv
  <2>3. MutexInv' /\ LoneInv'
    BY DEF LockInv, MutexInv, LoneInv, About
  <2> QED
    BY <2>1, <2>2, <2>3 DEF LockInv
<1> QED
  BY <1>1, <1>2, <1>3, <1>4, <1>5 DEF LockNext

LEMMA LockHolds == LockSpec => []LockInv
BY InitLock, NextLock, PTL DEF LockSpec

---------------------------------------------------------------------------

\* Every variable keeps its type, whatever fails and whoever is killed (InstanceLock).
THEOREM LockTypes == LockSpec => []LockTypeOK
BY LockHolds, PTL DEF LockInv

\* At most one process runs the application, on either platform (acquire and release).
THEOREM OneOwner == LockSpec => []SingleOwner
<1>1. LockInv => SingleOwner
  <2> SUFFICES ASSUME LockInv, NEW p \in Launches, NEW q \in Launches, Owns(p), Owns(q)
               PROVE  p = q
    BY DEF SingleOwner
  <2>1. CASE windows
    BY <2>1 DEF LockInv, PlatformInv, MutexInv, OnPosix, Locked, Created, Owns
  <2>2. CASE ~windows
    <3>1. /\ stage[p] \in Locked /\ stage[p] \in Confirmed
          /\ stage[q] \in Locked /\ stage[q] \in Confirmed
      BY <2>2 DEF LockInv, PlatformInv, OnWindows, Handled, Created, Locked, Confirmed, Owns
    <3>2. flocks[path] = p /\ flocks[path] = q
      BY <2>2, <3>1 DEF LockInv, FileInv
    <3> QED
      BY <3>2
  <2> QED
    BY <2>1, <2>2
<1> QED
  BY <1>1, LockHolds, PTL

\* Nobody removes the lock file of a running process (release and _force_clear_posix_lock).
THEOREM OwnerStays == LockSpec => []OwnerKeepsPath
<1>1. LockInv => OwnerKeepsPath
  <2> SUFFICES ASSUME LockInv, NEW p \in Launches, ~windows, stage[p] = "running"
               PROVE  path # 0 /\ path = fd[p]
    BY DEF OwnerKeepsPath
  <2>1. path = fd[p] /\ fd[p] \in 1..files /\ files \in 0..MaxFiles
    BY DEF LockInv, LockTypeOK, FileInv, Locked, Confirmed
  <2> QED
    BY <2>1, InstanceAssumption
<1> QED
  BY <1>1, LockHolds, PTL

\* What a crash leaves behind never stops a process that is alone and whose system calls work
\* (force_clear_stale_lock and the one retry).
THEOREM StartsAlone == LockSpec => []StaleNeverBlocks
<1>1. LockInv => StaleNeverBlocks
  BY DEF LockInv, LoneInv, StaleNeverBlocks, Obstructed
<1> QED
  BY <1>1, LockHolds, PTL

---------------------------------------------------------------------------
(* The clipboard *)

\* Copies are numbered in order, and what a client has read or cloned was there.
OrderInv ==
    /\ clip \in (0..latest) \cup Clients \cup {Empty}
    /\ \A p \in Clients :
           /\ number[p] <= seq
           /\ previous[p] \in (0..latest) \cup Clients \cup {Empty}

\* A client in its transaction, which is alone with the clipboard but for the
\* user: what it published is there, or the user has copied since.
WindowInv ==
    \A p \in Clients :
        at[p] \in {"number", "paste", "wait", "check"} =>
            clip = p \/ (clip \in 0..MaxCopies /\ clip # previous[p])

\* Where the user's last copy is: on the clipboard, or cloned, or both.
CopyInv ==
    ~raced /\ ~broken =>
        /\ (\A p \in Clients : at[p] \notin Inside) => clip = latest
        /\ \A p \in Clients :
            /\ at[p] \in {"snapshot", "set", "release"} => clip = latest
            /\ at[p] \in {"set", "number", "restore", "retry"} => previous[p] = latest
            /\ at[p] = "number" => clip = p
            /\ at[p] \in {"paste", "wait", "check"} =>
                   \/ number[p] = seq /\ previous[p] = latest
                   \/ number[p] # seq /\ clip = latest

\* A target is served once, unless one was late: nothing has arrived before the
\* paste, and what is still to arrive is the one paste of the present wait.
GotInv ==
    /\ \A p \in Clients : refused[p] => at[p] = "release"
    /\ ~late =>
       \A p \in Clients :
        /\ Len(got[p]) <= 1
        /\ at[p] \in {"mutex", "snapshot", "set", "number", "paste", "fallback"} \/ refused[p]
               => got[p] = <<>>
        /\ at[p] = "wait" /\ pending[p] => got[p] = <<>>

ClipboardInv == TypeOK /\ OrderInv /\ WindowInv /\ CopyInv /\ GotInv /\ OwnText

LEMMA InitClipboard == Init => ClipboardInv
<1> SUFFICES ASSUME Init PROVE ClipboardInv
  OBVIOUS
<1> USE ClipboardAssumption DEF Init
<1>1. TypeOK
  <2>1. /\ clip \in Values /\ latest \in 0..MaxCopies /\ injections \in 0..MaxInjections
        /\ crashes \in 0..MaxCrashes
    BY DEF Values
  <2>2. previous \in [Clients -> Values] /\ got \in [Clients -> Seq(Values)]
    BY DEF Values
  <2>. QED BY <2>1, <2>2 DEF TypeOK, Inside
<1>2. OrderInv /\ WindowInv /\ CopyInv /\ GotInv /\ OwnText
  BY DEF OrderInv, WindowInv, CopyInv, GotInv, OwnText
<1>. QED BY <1>1, <1>2 DEF ClipboardInv

LEMMA BeginKeeps == ASSUME ClipboardInv, NEW p \in Clients, Begin(p) PROVE ClipboardInv'
<1> USE ClipboardAssumption DEF ClipboardInv, Inside, clipVars, userVars, targetVars, bounds
<1>. p \in Values /\ Empty \in Values
  BY DEF Values
<1>1. TypeOK'
  <2>1. at' \in [Clients -> Inside \cup {"idle", "mutex", "fallback"}] /\ \A q \in Clients \ {p} : at'[q] = at[q]
    BY DEF Begin, Goes, TypeOK
  <2>2. mutex' \in Clients \cup {Free, Abandoned} /\ \A q \in Clients : at'[q] \in Inside <=> mutex' = q
    BY <2>1 DEF Begin, Goes, TypeOK
  <2>3. injections' \in 0..MaxInjections /\ native' \in [Clients -> BOOLEAN] /\ got' \in [Clients -> Seq(Values)]
    BY DEF Begin, Goes, TypeOK
  <2>. QED BY <2>1, <2>2, <2>3 DEF Begin, Goes, TypeOK
<1>2. OrderInv'
  BY DEF Begin, Goes, TypeOK, OrderInv
<1>3. WindowInv'
  BY DEF Begin, Goes, TypeOK, WindowInv
<1>4. CopyInv'
  BY DEF Begin, Goes, TypeOK, CopyInv
<1>5. GotInv'
  BY DEF Begin, Goes, TypeOK, GotInv
<1>6. OwnText'
  BY DEF Begin, Goes, TypeOK, OwnText
<1>. QED BY <1>1, <1>2, <1>3, <1>4, <1>5, <1>6

LEMMA AcquireKeeps == ASSUME ClipboardInv, NEW p \in Clients, Acquire(p) PROVE ClipboardInv'
<1> USE ClipboardAssumption DEF ClipboardInv, Inside, clipVars, userVars, targetVars, bounds
<1>. p \in Values /\ Empty \in Values
  BY DEF Values
<1>1. TypeOK'
  <2>1. at' \in [Clients -> Inside \cup {"idle", "mutex", "fallback"}] /\ \A q \in Clients \ {p} : at'[q] = at[q]
    BY DEF Acquire, Goes, TypeOK
  <2>2. mutex' \in Clients \cup {Free, Abandoned} /\ \A q \in Clients : at'[q] \in Inside <=> mutex' = q
    BY <2>1 DEF Acquire, Goes, TypeOK
  <2>3. TRUE
    BY DEF Acquire, Goes, TypeOK
  <2>. QED BY <2>1, <2>2, <2>3 DEF Acquire, Goes, TypeOK
<1>2. OrderInv'
  BY DEF Acquire, Goes, TypeOK, OrderInv
<1>3. WindowInv'
  BY DEF Acquire, Goes, TypeOK, WindowInv
<1>4. CopyInv'
  BY DEF Acquire, Goes, TypeOK, CopyInv
<1>5. GotInv'
  BY DEF Acquire, Goes, TypeOK, GotInv
<1>6. OwnText'
  BY DEF Acquire, Goes, TypeOK, OwnText
<1>. QED BY <1>1, <1>2, <1>3, <1>4, <1>5, <1>6

LEMMA SnapshotKeeps == ASSUME ClipboardInv, NEW p \in Clients, Snapshot(p) PROVE ClipboardInv'
<1> USE ClipboardAssumption DEF ClipboardInv, Inside, clipVars, userVars, targetVars, bounds
<1>. mutex = p /\ \A q \in Clients \ {p} : at[q] \notin Inside
  BY DEF Snapshot, Goes, Refuses, TypeOK
<1>. \A q \in Clients \ {p} : at'[q] = at[q]
  BY DEF Snapshot, Goes, Refuses, TypeOK
<1>. p \in Values /\ Empty \in Values
  BY DEF Values
<1>1. TypeOK'
  <2>1. at' \in [Clients -> Inside \cup {"idle", "mutex", "fallback"}] /\ \A q \in Clients \ {p} : at'[q] = at[q]
    BY DEF Snapshot, Goes, Refuses, TypeOK
  <2>2. mutex' \in Clients \cup {Free, Abandoned} /\ \A q \in Clients : at'[q] \in Inside <=> mutex' = q
    BY <2>1 DEF Snapshot, Goes, Refuses, TypeOK
  <2>3. clip \in Values
    BY DEF Snapshot, Goes, Refuses, TypeOK
  <2>4. previous' = previous \/ previous' = [previous EXCEPT ![p] = clip]
    BY DEF Snapshot
  <2>5. previous' \in [Clients -> Values]
    BY ZenonT(30), <2>3, <2>4 DEF TypeOK
  <2>6. refused' \in [Clients -> BOOLEAN]
    BY DEF Snapshot, Refuses, TypeOK
  <2>. QED BY <2>1, <2>2, <2>5, <2>6 DEF Snapshot, TypeOK
<1>2. OrderInv'
  BY DEF Snapshot, Goes, Refuses, TypeOK, OrderInv
<1>3. WindowInv'
  BY DEF Snapshot, Goes, Refuses, TypeOK, WindowInv
<1>4. CopyInv'
  BY ZenonT(30) DEF Snapshot, Goes, Refuses, TypeOK, CopyInv
<1>5. GotInv'
  BY DEF Snapshot, Goes, Refuses, TypeOK, GotInv
<1>6. OwnText'
  <2>1. ~late => got[p] = <<>>
    BY DEF Snapshot, Goes, GotInv
  <2>2. got' = got /\ late' = late /\ \A q \in Clients \ {p} : previous'[q] = previous[q]
    BY DEF Snapshot, TypeOK
  <2>. QED BY <2>1, <2>2 DEF OwnText
<1>. QED BY <1>1, <1>2, <1>3, <1>4, <1>5, <1>6

LEMMA PublishKeeps == ASSUME ClipboardInv, NEW p \in Clients, Publish(p) PROVE ClipboardInv'
<1> USE ClipboardAssumption DEF ClipboardInv, Inside, clipVars, userVars, targetVars, bounds
<1>. mutex = p /\ \A q \in Clients \ {p} : at[q] \notin Inside
  BY DEF Publish, Goes, Refuses, Write, TypeOK
<1>. \A q \in Clients \ {p} : at'[q] = at[q]
  BY DEF Publish, Goes, Refuses, Write, TypeOK
<1>. p \in Values /\ Empty \in Values
  BY DEF Values
<1>1. TypeOK'
  <2>1. at' \in [Clients -> Inside \cup {"idle", "mutex", "fallback"}] /\ \A q \in Clients \ {p} : at'[q] = at[q]
    BY DEF Publish, Goes, Refuses, Write, TypeOK
  <2>2. mutex' \in Clients \cup {Free, Abandoned} /\ \A q \in Clients : at'[q] \in Inside <=> mutex' = q
    BY <2>1 DEF Publish, Goes, Refuses, Write, TypeOK
  <2>3. clip \in Values /\ seq \in Nat
    BY DEF TypeOK
  <2>4. clip' \in Values
    BY <2>3 DEF Publish, Write
  <2>5. seq' \in Nat
    BY <2>3 DEF Publish, Write
  <2>6. refused' \in [Clients -> BOOLEAN]
    BY DEF Publish, Refuses, TypeOK
  <2>. QED BY <2>1, <2>2, <2>4, <2>5, <2>6 DEF Publish, TypeOK
<1>2. OrderInv'
  <2>1. clip' \in {clip, p, Empty} /\ (seq' = seq \/ seq' = seq + 1)
    BY DEF Publish, Write
  <2>2. UNCHANGED <<latest, number, previous>>
    BY DEF Publish
  <2>3. \A q \in Clients : number[q] \in Int /\ number[q] <= seq' /\ seq \in Nat
    BY <2>1 DEF TypeOK, OrderInv
  <2>. QED BY <2>1, <2>2, <2>3 DEF OrderInv
<1>3. WindowInv'
  BY DEF Publish, Goes, Refuses, Write, TypeOK, WindowInv
<1>4. CopyInv'
  <2>1. /\ at[p] = "set"
        /\ \/ at'[p] = "number" /\ clip' = p
           \/ at'[p] = "release" /\ clip' = clip
           \/ at'[p] = "restore"
    BY DEF Publish, Goes, Write, TypeOK
  <2>2. UNCHANGED <<latest, raced, broken, previous>>
    BY DEF Publish
  <2>. QED BY <2>1, <2>2 DEF CopyInv, TypeOK
<1>5. GotInv'
  BY ZenonT(30) DEF Publish, Goes, Refuses, Write, TypeOK, GotInv
<1>6. OwnText'
  BY DEF Publish, Goes, Refuses, Write, TypeOK, OwnText
<1>. QED BY <1>1, <1>2, <1>3, <1>4, <1>5, <1>6

LEMMA ReadNumberKeeps == ASSUME ClipboardInv, NEW p \in Clients, ReadNumber(p) PROVE ClipboardInv'
<1> USE ClipboardAssumption DEF ClipboardInv, Inside, clipVars, userVars, targetVars, bounds
<1>. p \in Values /\ Empty \in Values
  BY DEF Values
<1>1. TypeOK'
  BY DEF ReadNumber, Goes, TypeOK
<1>2. OrderInv'
  BY DEF ReadNumber, Goes, TypeOK, OrderInv
<1>3. WindowInv'
  BY DEF ReadNumber, Goes, TypeOK, WindowInv
<1>4. CopyInv'
  BY DEF ReadNumber, Goes, TypeOK, CopyInv
<1>5. GotInv'
  BY DEF ReadNumber, Goes, TypeOK, GotInv
<1>6. OwnText'
  BY DEF ReadNumber, Goes, TypeOK, OwnText
<1>. QED BY <1>1, <1>2, <1>3, <1>4, <1>5, <1>6

LEMMA PasteKeeps == ASSUME ClipboardInv, NEW p \in Clients, Paste(p) PROVE ClipboardInv'
<1> USE ClipboardAssumption DEF ClipboardInv, Inside, clipVars, userVars, targetVars, bounds
<1>. p \in Values /\ Empty \in Values
  BY DEF Values
<1>1. TypeOK'
  BY DEF Paste, Goes, TypeOK
<1>2. OrderInv'
  BY DEF Paste, Goes, TypeOK, OrderInv
<1>3. WindowInv'
  BY DEF Paste, Goes, TypeOK, WindowInv
<1>4. CopyInv'
  BY DEF Paste, Goes, TypeOK, CopyInv
<1>5. GotInv'
  BY DEF Paste, Goes, TypeOK, GotInv
<1>6. OwnText'
  BY DEF Paste, Goes, TypeOK, OwnText
<1>. QED BY <1>1, <1>2, <1>3, <1>4, <1>5, <1>6

LEMMA WaitEndsKeeps == ASSUME ClipboardInv, NEW p \in Clients, WaitEnds(p) PROVE ClipboardInv'
<1> USE ClipboardAssumption DEF ClipboardInv, Inside, clipVars, userVars, targetVars, bounds
<1>. p \in Values /\ Empty \in Values
  BY DEF Values
<1>1. TypeOK'
  BY DEF WaitEnds, Goes, TypeOK
<1>2. OrderInv'
  BY DEF WaitEnds, Goes, TypeOK, OrderInv
<1>3. WindowInv'
  BY DEF WaitEnds, Goes, TypeOK, WindowInv
<1>4. CopyInv'
  BY DEF WaitEnds, Goes, TypeOK, CopyInv
<1>5. GotInv'
  BY DEF WaitEnds, Goes, TypeOK, GotInv
<1>6. OwnText'
  BY DEF WaitEnds, Goes, TypeOK, OwnText
<1>. QED BY <1>1, <1>2, <1>3, <1>4, <1>5, <1>6

LEMMA CheckKeeps == ASSUME ClipboardInv, NEW p \in Clients, Check(p) PROVE ClipboardInv'
<1> USE ClipboardAssumption DEF ClipboardInv, Inside, clipVars, userVars, targetVars, bounds
<1>. p \in Values /\ Empty \in Values
  BY DEF Values
<1>1. TypeOK'
  BY DEF Check, Goes, TypeOK
<1>2. OrderInv'
  BY DEF Check, Goes, TypeOK, OrderInv
<1>3. WindowInv'
  BY DEF Check, Goes, TypeOK, WindowInv
<1>4. CopyInv'
  BY DEF Check, Goes, TypeOK, CopyInv
<1>5. GotInv'
  BY DEF Check, Goes, TypeOK, GotInv
<1>6. OwnText'
  BY DEF Check, Goes, TypeOK, OwnText
<1>. QED BY <1>1, <1>2, <1>3, <1>4, <1>5, <1>6

LEMMA RestoreKeeps == ASSUME ClipboardInv, NEW p \in Clients, Restore(p) PROVE ClipboardInv'
<1> USE ClipboardAssumption DEF ClipboardInv, Inside, clipVars, userVars, targetVars, bounds
<1>. mutex = p /\ \A q \in Clients \ {p} : at[q] \notin Inside
  BY DEF Restore, Goes, Write, TypeOK
<1>. \A q \in Clients \ {p} : at'[q] = at[q]
  BY DEF Restore, Goes, Write, TypeOK
<1>. p \in Values /\ Empty \in Values
  BY DEF Values
<1>1. TypeOK'
  <2>1. at' \in [Clients -> Inside \cup {"idle", "mutex", "fallback"}] /\ \A q \in Clients \ {p} : at'[q] = at[q]
    BY DEF Restore, Goes, Write, TypeOK
  <2>2. mutex' \in Clients \cup {Free, Abandoned} /\ \A q \in Clients : at'[q] \in Inside <=> mutex' = q
    BY <2>1 DEF Restore, Goes, Write, TypeOK
  <2>3. clip \in Values /\ previous[p] \in Values /\ seq \in Nat /\ broken \in BOOLEAN
    BY DEF TypeOK
  <2>4. clip' \in Values
    BY <2>3 DEF Restore, Write
  <2>5. seq' \in Nat
    BY <2>3 DEF Restore, Write
  <2>6. broken' \in BOOLEAN
    BY <2>3, Zenon DEF Restore
  <2>. QED BY <2>1, <2>2, <2>4, <2>5, <2>6 DEF Restore, TypeOK
<1>2. OrderInv'
  BY SMTT(30) DEF Restore, Goes, Write, TypeOK, OrderInv
<1>3. WindowInv'
  BY DEF Restore, Goes, Write, TypeOK, WindowInv
<1>4. CopyInv'
  BY DEF Restore, Goes, Write, TypeOK, CopyInv
<1>5. GotInv'
  BY DEF Restore, Goes, Write, TypeOK, GotInv
<1>6. OwnText'
  BY DEF Restore, Goes, Write, TypeOK, OwnText
<1>. QED BY <1>1, <1>2, <1>3, <1>4, <1>5, <1>6

LEMMA ReleaseKeeps == ASSUME ClipboardInv, NEW p \in Clients, Release(p) PROVE ClipboardInv'
<1> USE ClipboardAssumption DEF ClipboardInv, Inside, clipVars, userVars, targetVars, bounds
<1>. p \in Values /\ Empty \in Values
  BY DEF Values
<1>1. TypeOK'
  BY DEF Release, Goes, Forgets, TypeOK
<1>2. OrderInv'
  BY DEF Release, Goes, Forgets, TypeOK, OrderInv
<1>3. WindowInv'
  BY DEF Release, Goes, Forgets, TypeOK, WindowInv
<1>4. CopyInv'
  BY DEF Release, Goes, Forgets, TypeOK, CopyInv
<1>5. GotInv'
  BY DEF Release, Goes, Forgets, TypeOK, GotInv
<1>6. OwnText'
  BY DEF Release, Goes, Forgets, TypeOK, OwnText
<1>. QED BY <1>1, <1>2, <1>3, <1>4, <1>5, <1>6

LEMMA FallbackKeeps == ASSUME ClipboardInv, NEW p \in Clients, Fallback(p) PROVE ClipboardInv'
<1> USE ClipboardAssumption DEF ClipboardInv, Inside, clipVars, userVars, targetVars, bounds
<1>. p \in Values /\ Empty \in Values
  BY DEF Values
<1>1. TypeOK'
  <2>1. at' \in [Clients -> Inside \cup {"idle", "mutex", "fallback"}] /\ \A q \in Clients \ {p} : at'[q] = at[q]
    BY DEF Fallback, Goes, TypeOK
  <2>2. mutex' \in Clients \cup {Free, Abandoned} /\ \A q \in Clients : at'[q] \in Inside <=> mutex' = q
    BY <2>1 DEF Fallback, Goes, TypeOK
  <2>3. got' \in {got, [got EXCEPT ![p] = Append(got[p], p)]}
    BY DEF Fallback, Goes, TypeOK
  <2>4. Append(got[p], p) \in Seq(Values)
    BY DEF TypeOK
  <2>5. got' \in [Clients -> Seq(Values)]
    BY <2>3, <2>4 DEF TypeOK
  <2>. QED BY <2>1, <2>2, <2>5 DEF Fallback, TypeOK
<1>2. OrderInv'
  BY DEF Fallback, Goes, TypeOK, OrderInv
<1>3. WindowInv'
  BY DEF Fallback, Goes, TypeOK, WindowInv
<1>4. CopyInv'
  BY DEF Fallback, Goes, TypeOK, CopyInv
<1>5. GotInv'
  BY DEF Fallback, Goes, TypeOK, GotInv
<1>6. OwnText'
  <2>1. ~late => got[p] = <<>>
    BY DEF Fallback, Goes, GotInv
  <2>2. ~late => got'[p] = <<>> \/ got'[p] = <<p>>
    BY <2>1 DEF Fallback, TypeOK
  <2>3. late' = late /\ previous' = previous /\ \A q \in Clients \ {p} : got'[q] = got[q]
    BY DEF Fallback, TypeOK
  <2>. QED BY <2>2, <2>3 DEF OwnText
<1>. QED BY <1>1, <1>2, <1>3, <1>4, <1>5, <1>6

LEMMA ConsumeKeeps == ASSUME ClipboardInv, NEW p \in Clients, Consume(p) PROVE ClipboardInv'
<1> USE ClipboardAssumption DEF ClipboardInv, Inside, clipVars, userVars, targetVars, bounds
<1>. p \in Values /\ Empty \in Values
  BY DEF Values
<1>0. ~late' => ~late /\ at[p] = "wait" /\ got'[p] = <<clip>>
  <2>1. late' = (late \/ at[p] # "wait") /\ pending[p] /\ late \in BOOLEAN
    BY DEF Consume, TypeOK
  <2>2. ~late' => ~late /\ at[p] = "wait"
    BY <2>1
  <2>3. ~late' => got[p] = <<>>
    BY <2>1, <2>2 DEF GotInv
  <2>4. got'[p] = Append(got[p], clip)
    BY DEF Consume, TypeOK
  <2>5. Append(<<>>, clip) = <<clip>>
    OBVIOUS
  <2>. QED BY <2>2, <2>3, <2>4, <2>5
<1>1. TypeOK'
  BY DEF Consume, TypeOK
<1>2. OrderInv'
  BY DEF Consume, TypeOK, OrderInv
<1>3. WindowInv'
  BY DEF Consume, TypeOK, WindowInv
<1>4. CopyInv'
  BY DEF Consume, TypeOK, CopyInv
<1>5. GotInv'
  <2>1. ~late' => ~late /\ at[p] = "wait" /\ got'[p] = <<clip>>
    BY <1>0
  <2>2. /\ UNCHANGED <<at, refused>> /\ ~pending'[p]
        /\ \A q \in Clients \ {p} : got'[q] = got[q] /\ pending'[q] = pending[q]
    BY DEF Consume, TypeOK
  <2>3. ~late' => Len(got'[p]) <= 1
    <3>1. Len(<<clip>>) <= 1
      OBVIOUS
    <3>. QED BY <2>1, <3>1, Zenon
  <2>4. ~late' => ~refused[p]
    BY <2>1 DEF GotInv
  <2>. QED BY <2>1, <2>2, <2>3, <2>4 DEF GotInv
<1>6. OwnText'
  <2>1. ~late' => ~late /\ at[p] = "wait" /\ got'[p] = <<clip>>
    BY <1>0
  <2>2. previous' = previous /\ \A q \in Clients \ {p} : got'[q] = got[q]
    BY DEF Consume, TypeOK
  <2>3. at[p] = "wait" => clip = p \/ (clip \in 0..MaxCopies /\ clip # previous[p])
    BY DEF WindowInv
  <2>. QED BY <2>1, <2>2, <2>3 DEF OwnText
<1>. QED BY <1>1, <1>2, <1>3, <1>4, <1>5, <1>6

LEMMA CrashKeeps == ASSUME ClipboardInv, NEW p \in Clients, Crash(p) PROVE ClipboardInv'
<1> USE ClipboardAssumption DEF ClipboardInv, Inside, clipVars, userVars, targetVars, bounds
<1>. p \in Values /\ Empty \in Values
  BY DEF Values
<1>1. TypeOK'
  BY DEF Crash, Forgets, TypeOK
<1>2. OrderInv'
  BY DEF Crash, Forgets, TypeOK, OrderInv
<1>3. WindowInv'
  BY DEF Crash, Forgets, TypeOK, WindowInv
<1>4. CopyInv'
  BY DEF Crash, Forgets, TypeOK, CopyInv
<1>5. GotInv'
  BY DEF Crash, Forgets, TypeOK, GotInv
<1>6. OwnText'
  BY DEF Crash, Forgets, TypeOK, OwnText
<1>. QED BY <1>1, <1>2, <1>3, <1>4, <1>5, <1>6

LEMMA CopyKeeps == ASSUME ClipboardInv, Copy PROVE ClipboardInv'
<1> USE ClipboardAssumption DEF ClipboardInv, Inside, clipVars, userVars, targetVars, bounds
<1>. /\ latest \in 0..MaxCopies /\ latest + 1 \in 0..MaxCopies /\ latest' = latest + 1 /\ clip' = latest + 1
     /\ seq \in Nat /\ seq' = seq + 1 /\ broken' = FALSE
  BY DEF Copy, Write, TypeOK
<1>. UNCHANGED <<mutex, at, native, previous, number, refused, targetVars, bounds>>
  BY DEF Copy
<1>. \A p \in Clients : number[p] \in Int /\ number[p] <= seq
  BY DEF TypeOK, OrderInv
<1>1. TypeOK'
  <2>1. clip' \in Values
    BY DEF Values
  <2>2. raced' \in BOOLEAN
    BY DEF Copy
  <2>3. seq' \in Nat /\ latest' \in 0..MaxCopies
    OBVIOUS
  <2>4. broken' \in BOOLEAN
    BY Zenon
  <2>. QED BY <2>1, <2>2, <2>3, <2>4 DEF TypeOK
<1>2. OrderInv'
  BY DEF OrderInv
<1>3. WindowInv'
  <2>1. \A p \in Clients : previous[p] # latest + 1
    BY DEF OrderInv
  <2>. QED BY <2>1 DEF WindowInv
<1>4. CopyInv'
  <2>1. raced' = \E p \in Clients : Blind(p)
    BY DEF Copy
  <2>. QED BY <2>1 DEF CopyInv, Blind
<1>5. GotInv'
  BY DEF GotInv
<1>6. OwnText'
  BY DEF OwnText
<1>. QED BY <1>1, <1>2, <1>3, <1>4, <1>5, <1>6

\* Every step preserves the invariant.
LEMMA NextClipboard == ASSUME ClipboardInv, [Next]_vars PROVE ClipboardInv'
<1>1. ASSUME NEW p \in Clients, Begin(p) \/ Transaction(p) \/ Consume(p) \/ Crash(p)
      PROVE  ClipboardInv'
  BY <1>1, BeginKeeps, AcquireKeeps, SnapshotKeeps, PublishKeeps, ReadNumberKeeps, PasteKeeps,
     WaitEndsKeeps, CheckKeeps, RestoreKeeps, ReleaseKeeps, FallbackKeeps, ConsumeKeeps,
     CrashKeeps DEF Transaction
<1>2. CASE Copy
  BY <1>2, CopyKeeps
<1>3. CASE UNCHANGED vars
  <2>. USE <1>3 DEF vars, clipVars, userVars, targetVars, bounds
  <2>1. TypeOK' /\ OrderInv'
    BY DEF ClipboardInv, TypeOK, OrderInv
  <2>2. WindowInv' /\ CopyInv'
    BY DEF ClipboardInv, WindowInv, CopyInv
  <2>3. GotInv' /\ OwnText'
    BY DEF ClipboardInv, GotInv, OwnText
  <2>. QED BY <2>1, <2>2, <2>3 DEF ClipboardInv
<1>. QED BY <1>1, <1>2, <1>3 DEF Next

LEMMA ClipboardHolds == Spec => []ClipboardInv
BY InitClipboard, NextClipboard, PTL DEF Spec

---------------------------------------------------------------------------

\* Every variable keeps its type, and the mutex is with exactly the client that is inside
\* its transaction, whatever fails and whoever dies (clipboard_transaction_lock).
THEOREM TypeCorrect == Spec => []TypeOK
BY ClipboardHolds, PTL DEF ClipboardInv

\* The user's last copy is on the clipboard when no transaction is under way, unless it fell
\* into a step that does not look or a clone could not be put back (insert_text).
THEOREM CopyIsKept == Spec => []LatestCopyKept
<1>1. ClipboardInv => LatestCopyKept
  BY DEF ClipboardInv, CopyInv, LatestCopyKept
<1>. QED BY <1>1, ClipboardHolds, PTL

\* No mixture of refusals, timeouts and fallbacks inserts a text twice, if targets read their
\* pastes in time (InjectorRouter.insert_text).
THEOREM InsertedAtMostOnce == Spec => []InsertedOnce
<1>1. ClipboardInv => InsertedOnce
  <2>. SUFFICES ASSUME ClipboardInv, ~late, NEW p \in Clients
                PROVE  Cardinality({i \in DOMAIN got[p] : got[p][i] = p}) <= 1
    BY DEF InsertedOnce
  <2>. DEFINE Times == {i \in DOMAIN got[p] : got[p][i] = p}
  <2>1. got[p] \in Seq(Values) /\ Len(got[p]) <= 1
    BY DEF ClipboardInv, TypeOK, GotInv
  <2>2. Times \subseteq {1}
    BY <2>1
  <2>3. Times = {} \/ Times = {1}
    BY <2>2
  <2>. HIDE DEF Times
  <2>4. Cardinality(Times) \in {0, 1}
    BY <2>3, FS_EmptySet, FS_Singleton
  <2>. QED BY <2>4 DEF Times
<1>. QED BY <1>1, ClipboardHolds, PTL

\* A target that reads its paste in time gets its own text or something copied meanwhile,
\* never the text of another process (ClipboardInjector).
THEOREM OwnTextOnly == Spec => []OwnText
BY ClipboardHolds, PTL DEF ClipboardInv

---------------------------------------------------------------------------
(* The consent ledger and the egress log *)

\* The places at which a thread has both locks of its file.
Covered == {"read", "replace", "consult", "inspect", "append", "leave"}

Underway(t) == where[t] \notin {"idle", "dead"}

\* A thread is inside an access exactly when it has the advisory lock of the file, and it has
\* the lock of its process from before to after.
AccessInv ==
    /\ \A d \in Docs, t \in Threads : outer[d] = t <=> doc[t] = d /\ where[t] \in Covered
    /\ \A t \in Threads : where[t] \in Covered \cup {"wait"} => Inner(t) = t

\* Each place belongs to one file and one kind of operation.
PlaceInv ==
    \A t \in Threads :
        /\ where[t] \in {"read", "replace"} => doc[t] = "ledger" /\ work[t] # "send"
        /\ where[t] = "consult" => doc[t] = "ledger" /\ work[t] = "send"
        /\ where[t] \in {"inspect", "append", "post"} => doc[t] = "log"
        /\ where[t] = "idle" => doc[t] = "ledger"
        /\ work[t] # "none" => key[t] \in Keys

\* What a thread is about to change is what the file holds.
LedgerInv ==
    /\ LedgerIsAgreed
    /\ \A t \in Threads :
        where[t] = "replace" => base[t] \subseteq ledger /\ (Faulty \/ base[t] = ledger)

\* Who finds its key agreed to, or has found it, sends with consent.
AskedInv ==
    /\ SentOnlyAgreed
    /\ \A t \in Threads : Underway(t) /\ (key[t] \in agreed \/ doc[t] = "log") => since[t]
    /\ \A t \in Threads :
        where[t] = "leave" /\ work[t] = "send" /\ asked[t] => since[t]

\* Who writes has seen how the log ends; who goes on to send has its record there.
LogInv ==
    /\ SentIsLogged
    /\ \A t \in Threads :
        /\ where[t] = "append" => (torn => delimit[t])
        /\ where[t] = "leave" /\ doc[t] = "log" /\ asked[t] => id[t] \in logged
        /\ where[t] = "post" => id[t] \in logged

PrivacyInv == PrivacyTypeOK /\ AccessInv /\ PlaceInv /\ LedgerInv /\ AskedInv /\ LogInv

\* What taking or freeing the lock of a process changes.
LEMMA InnerChange ==
    ASSUME PrivacyTypeOK, NEW t \in Threads, NEW v \in Threads \cup {None},
           inner' = [inner EXCEPT ![ProcessOf[t]][doc[t]] = v]
    PROVE  /\ inner' \in [Processes -> [Docs -> Threads \cup {None}]]
           /\ inner'[ProcessOf[t]][doc[t]] = v
           /\ \A p \in Processes, d \in Docs :
                p # ProcessOf[t] \/ d # doc[t] => inner'[p][d] = inner[p][d]
<1>1. /\ ProcessOf[t] \in Processes /\ doc[t] \in Docs
      /\ inner \in [Processes -> [Docs -> Threads \cup {None}]]
  BY PrivacyAssumption DEF PrivacyTypeOK
<1>2. inner[ProcessOf[t]] \in [Docs -> Threads \cup {None}]
  BY <1>1
<1>3. inner' = [inner EXCEPT ![ProcessOf[t]] = [inner[ProcessOf[t]] EXCEPT ![doc[t]] = v]]
  BY <1>1
<1>4. [inner[ProcessOf[t]] EXCEPT ![doc[t]] = v] \in [Docs -> Threads \cup {None}]
  BY <1>2
<1>. QED BY <1>1, <1>2, <1>3, <1>4

\* The end of an operation leaves the locals of their types.
LEMMA EndsTypes ==
    ASSUME PrivacyTypeOK, NEW t \in Threads, Ends(t)
    PROVE  /\ doc' \in [Threads -> Docs]
           /\ work' \in [Threads -> {"none", "grant", "revoke", "send"}]
           /\ key' \in [Threads -> Keys \cup {None}] /\ id' \in [Threads -> 0..MaxOps]
           /\ base' \in [Threads -> SUBSET Keys] /\ asked' \in [Threads -> BOOLEAN]
           /\ delimit' \in [Threads -> BOOLEAN] /\ since' \in [Threads -> BOOLEAN]
BY PrivacyAssumption DEF Ends, PrivacyTypeOK, Docs

LEMMA KeepsAccessInv ==
    PrivacyInv /\ [PrivacyNext]_privacyVars => AccessInv'
<1> SUFFICES ASSUME PrivacyInv, [PrivacyNext]_privacyVars PROVE AccessInv'
  OBVIOUS
<1> USE DEF PrivacyInv
<1>1. ASSUME NEW t \in Threads, Starts(t) PROVE AccessInv'
  BY <1>1, PrivacyAssumption DEF Starts, Moves, fileState, lockState, netState, PrivacyTypeOK,
     Places, Docs, AccessInv, Covered, Inner
<1>2. ASSUME NEW t \in Threads, TakeInner(t) PROVE AccessInv'
  <2>1. /\ UNCHANGED <<outer, doc>> /\ where[t] = "enter" /\ where'[t] = "wait"
        /\ \A u \in Threads \ {t} : where'[u] = where[u]
        /\ inner[ProcessOf[t]][doc[t]] = None
        /\ inner' = [inner EXCEPT ![ProcessOf[t]][doc[t]] = t]
    BY <1>2 DEF TakeInner, Inner, Moves, PrivacyTypeOK, callState
  <2>2. inner'[ProcessOf[t]][doc[t]] = t
    BY <2>1, InnerChange
  <2>3. \A p \in Processes, d \in Docs :
            p # ProcessOf[t] \/ d # doc[t] => inner'[p][d] = inner[p][d]
    BY <2>1, InnerChange
  <2>4. \A d \in Docs, u \in Threads : outer'[d] = u <=> doc'[u] = d /\ where'[u] \in Covered
    BY <2>1 DEF AccessInv, Covered
  <2>5. ASSUME NEW u \in Threads, where'[u] \in Covered \cup {"wait"}
        PROVE  inner'[ProcessOf[u]][doc'[u]] = u
    <3>1. CASE u = t
      BY <2>1, <2>2, <3>1
    <3>2. CASE u # t
      <4>1. inner[ProcessOf[u]][doc[u]] = u /\ ProcessOf[u] \in Processes /\ doc[u] \in Docs
        BY <2>1, <2>5, <3>2, PrivacyAssumption DEF AccessInv, Inner, PrivacyTypeOK
      <4> QED BY <2>1, <2>3, <4>1, PrivacyAssumption
    <3> QED BY <3>1, <3>2
  <2> QED BY <2>4, <2>5 DEF AccessInv, Covered, Inner
<1>3. ASSUME NEW t \in Threads, TakeOuter(t) PROVE AccessInv'
  BY <1>3, PrivacyAssumption DEF TakeOuter, Moves, fileState, callState, localState, netState,
     countState, PrivacyTypeOK, Places, Docs, AccessInv, Covered, Inner, Within
<1>4. ASSUME NEW t \in Threads, Expires(t) PROVE AccessInv'
  <2>1. /\ UNCHANGED outer /\ where[t] \in {"enter", "wait"} /\ where'[t] = "idle"
        /\ \A u \in Threads \ {t} : where'[u] = where[u] /\ doc'[u] = doc[u]
        /\ UNCHANGED inner \/
           (where[t] = "wait" /\ inner' = [inner EXCEPT ![ProcessOf[t]][doc[t]] = None])
    BY <1>4 DEF Expires, FreesInner, Ends, Moves, PrivacyTypeOK
  <2>2. \A d \in Docs, u \in Threads : outer'[d] = u <=> doc'[u] = d /\ where'[u] \in Covered
    BY <2>1 DEF AccessInv, Covered
  <2>3. ASSUME NEW u \in Threads, where'[u] \in Covered \cup {"wait"}
        PROVE  inner'[ProcessOf[u]][doc'[u]] = u
    <3>1. u # t /\ where[u] \in Covered \cup {"wait"} /\ doc'[u] = doc[u]
      BY <2>1, <2>3 DEF Covered
    <3>2. inner[ProcessOf[u]][doc[u]] = u /\ ProcessOf[u] \in Processes /\ doc[u] \in Docs
      BY <3>1, PrivacyAssumption DEF AccessInv, Inner, PrivacyTypeOK
    <3>3. CASE UNCHANGED inner
      BY <3>1, <3>2, <3>3
    <3>4. CASE where[t] = "wait" /\ inner' = [inner EXCEPT ![ProcessOf[t]][doc[t]] = None]
      <4>1. inner[ProcessOf[t]][doc[t]] = t
        BY <3>4 DEF AccessInv, Inner
      <4>2. \A p \in Processes, d \in Docs :
              p # ProcessOf[t] \/ d # doc[t] => inner'[p][d] = inner[p][d]
        BY <3>4, InnerChange
      <4> QED BY <3>1, <3>2, <4>1, <4>2
    <3> QED BY <2>1, <3>3, <3>4
  <2> QED BY <2>2, <2>3 DEF AccessInv, Covered, Inner
<1>5. ASSUME NEW t \in Threads, Leaves(t) PROVE AccessInv'
  <2> USE <1>5, PrivacyAssumption DEF Leaves, Moves, PrivacyTypeOK, Docs, AccessInv, Covered,
      Inner
  <2>1. where[t] = "leave" /\ where'[t] \in {"idle", "enter", "post"}
        /\ \A u \in Threads \ {t} : where'[u] = where[u] /\ doc'[u] = doc[u]
    BY DEF Ends
  <2>2. outer' = [outer EXCEPT ![doc[t]] = None] /\ outer[doc[t]] = t
    BY <2>1
  <2>3. ASSUME NEW d \in Docs, NEW u \in Threads
        PROVE  outer'[d] = u <=> doc'[u] = d /\ where'[u] \in Covered'
    BY <2>1, <2>2
  <2>4. \A p \in Processes, d \in Docs :
            p # ProcessOf[t] \/ d # doc[t] => inner'[p][d] = inner[p][d]
    BY InnerChange DEF FreesInner
  <2>5. ASSUME NEW u \in Threads, where'[u] \in Covered' \cup {"wait"}
        PROVE  inner'[ProcessOf[u]][doc'[u]] = u
    BY <2>1, <2>4, <2>5
  <2> QED BY <2>3, <2>5
<1>6. ASSUME NEW t \in Threads, ReadEntries(t) PROVE AccessInv'
  BY <1>6, PrivacyAssumption DEF ReadEntries, Moves, fileState, lockState, callState, netState,
     PrivacyTypeOK, Places, Docs, AccessInv, Covered, Inner
<1>7. ASSUME NEW t \in Threads, Replace(t) PROVE AccessInv'
  BY <1>7, PrivacyAssumption DEF Replace, Moves, lockState, callState, netState, countState,
     PrivacyTypeOK, Places, Docs, AccessInv, Covered, Inner
<1>8. ASSUME NEW t \in Threads, Consult(t) PROVE AccessInv'
  BY <1>8, PrivacyAssumption DEF Consult, Moves, fileState, lockState, callState, netState,
     PrivacyTypeOK, Places, Docs, AccessInv, Covered, Inner
<1>9. ASSUME NEW t \in Threads, Inspect(t) PROVE AccessInv'
  BY <1>9, PrivacyAssumption DEF Inspect, Moves, fileState, lockState, callState, netState,
     countState, PrivacyTypeOK, Places, Docs, AccessInv, Covered, Inner
<1>10. ASSUME NEW t \in Threads, AppendRecord(t) PROVE AccessInv'
  BY <1>10, PrivacyAssumption DEF AppendRecord, Moves, lockState, callState, netState, countState,
     PrivacyTypeOK, Places, Docs, AccessInv, Covered, Inner
<1>11. ASSUME NEW t \in Threads, Post(t) PROVE AccessInv'
  BY <1>11, PrivacyAssumption DEF Post, Moves, Ends, fileState, lockState, countState,
     PrivacyTypeOK, Places, Docs, AccessInv, Covered, Inner
<1>12. ASSUME NEW t \in Threads, Restarts(t) PROVE AccessInv'
  BY <1>12, PrivacyAssumption DEF Restarts, Moves, Ends, fileState, lockState, netState,
     countState, PrivacyTypeOK, Places, Docs, AccessInv, Covered, Inner
<1>13. ASSUME NEW p \in Processes, Dies(p) PROVE AccessInv'
  BY <1>13, PrivacyAssumption DEF Dies, Torn, Of, CutShort, callState, localState, netState,
     PrivacyTypeOK, Places, Docs, AccessInv, Covered, Inner
<1>14. CASE UNCHANGED privacyVars
  BY <1>14 DEF privacyVars, fileState, lockState, callState, localState, netState, countState,
     PrivacyTypeOK, Places, Docs, AccessInv, Covered, Inner
<1> QED BY <1>1, <1>2, <1>3, <1>4, <1>5, <1>6, <1>7, <1>8, <1>9, <1>10, <1>11, <1>12, <1>13, <1>14
   DEF PrivacyNext, Accesses, Works

LEMMA KeepsPrivacyTypeOK ==
    PrivacyInv /\ [PrivacyNext]_privacyVars => PrivacyTypeOK'
<1> SUFFICES ASSUME PrivacyInv, [PrivacyNext]_privacyVars PROVE PrivacyTypeOK'
  OBVIOUS
<1> USE DEF PrivacyInv
<1>1. ASSUME NEW t \in Threads, Starts(t) PROVE PrivacyTypeOK'
  BY <1>1, PrivacyAssumption DEF Starts, Moves, fileState, lockState, netState, PrivacyTypeOK,
     Places, Docs
<1>2. ASSUME NEW t \in Threads, TakeInner(t) PROVE PrivacyTypeOK'
  <2>1. inner' \in [Processes -> [Docs -> Threads \cup {None}]]
    BY <1>2, InnerChange DEF TakeInner
  <2>2. where' \in [Threads -> Places]
    BY <1>2 DEF TakeInner, Moves, PrivacyTypeOK, Places
  <2> QED BY <1>2, <2>1, <2>2 DEF TakeInner, PrivacyTypeOK, fileState, callState, localState,
                                   netState, countState
<1>3. ASSUME NEW t \in Threads, TakeOuter(t) PROVE PrivacyTypeOK'
  BY <1>3, PrivacyAssumption DEF TakeOuter, Moves, fileState, callState, localState, netState,
     countState, PrivacyTypeOK, Places, Docs, Within
<1>4. ASSUME NEW t \in Threads, Expires(t) PROVE PrivacyTypeOK'
  <2>1. inner' \in [Processes -> [Docs -> Threads \cup {None}]]
    <3>1. UNCHANGED inner \/ inner' = [inner EXCEPT ![ProcessOf[t]][doc[t]] = None]
      BY <1>4 DEF Expires, FreesInner
    <3> QED BY <3>1, InnerChange DEF PrivacyTypeOK
  <2>2. where' \in [Threads -> Places]
    BY <1>4 DEF Expires, Moves, PrivacyTypeOK, Places
  <2> QED BY <1>4, <2>1, <2>2, EndsTypes DEF Expires, PrivacyTypeOK, fileState, netState, countState
<1>5. ASSUME NEW t \in Threads, Leaves(t) PROVE PrivacyTypeOK'
  <2>1. inner' \in [Processes -> [Docs -> Threads \cup {None}]]
    BY <1>5, InnerChange DEF Leaves, FreesInner
  <2>2. where' \in [Threads -> Places]
    BY <1>5 DEF Leaves, Moves, PrivacyTypeOK, Places
  <2>3. outer' \in [Docs -> Threads \cup {None}]
    BY <1>5 DEF Leaves, PrivacyTypeOK
  <2>4. CASE Ends(t)
    BY <1>5, <2>1, <2>2, <2>3, <2>4, EndsTypes DEF Leaves, PrivacyTypeOK, fileState, netState,
                                                   countState
  <2>5. CASE doc' = [doc EXCEPT ![t] = "log"] /\ UNCHANGED <<work, key, id, localState>>
    <3>1. doc' \in [Threads -> Docs]
      BY <2>5 DEF PrivacyTypeOK, Docs
    <3> QED BY <1>5, <2>1, <2>2, <2>3, <2>5, <3>1 DEF Leaves, PrivacyTypeOK, fileState,
                                                      localState, netState, countState
  <2> QED BY <1>5, <2>4, <2>5 DEF Leaves
<1>6. ASSUME NEW t \in Threads, ReadEntries(t) PROVE PrivacyTypeOK'
  BY <1>6, PrivacyAssumption DEF ReadEntries, Moves, fileState, lockState, callState, netState,
     PrivacyTypeOK, Places, Docs, Reads
<1>7. ASSUME NEW t \in Threads, Replace(t) PROVE PrivacyTypeOK'
  <2>1. base[t] \subseteq Keys /\ (work[t] # "none" => key[t] \in Keys)
    BY DEF PrivacyTypeOK, PlaceInv
  <2>2. ledger' \subseteq Keys /\ agreed' \subseteq Keys /\ since' \in [Threads -> BOOLEAN]
    BY <1>7, <2>1 DEF Replace, PrivacyTypeOK
  <2>3. where' \in [Threads -> Places]
    BY <1>7 DEF Replace, Moves, PrivacyTypeOK, Places
  <2> QED BY <1>7, <2>2, <2>3 DEF Replace, PrivacyTypeOK, lockState, callState, netState, countState
<1>8. ASSUME NEW t \in Threads, Consult(t) PROVE PrivacyTypeOK'
  BY <1>8, PrivacyAssumption DEF Consult, Moves, fileState, lockState, callState, netState,
     PrivacyTypeOK, Places, Docs, Reads
<1>9. ASSUME NEW t \in Threads, Inspect(t) PROVE PrivacyTypeOK'
  BY <1>9, PrivacyAssumption DEF Inspect, Moves, fileState, lockState, callState, netState,
     countState, PrivacyTypeOK, Places, Docs
<1>10. ASSUME NEW t \in Threads, AppendRecord(t) PROVE PrivacyTypeOK'
  <2>1. id[t] \in 0..MaxOps
    BY DEF PrivacyTypeOK
  <2>2. logged' \subseteq 0..MaxOps /\ torn' \in BOOLEAN /\ asked' \in [Threads -> BOOLEAN]
    BY <1>10, <2>1 DEF AppendRecord, CutShort, PrivacyTypeOK
  <2>3. where' \in [Threads -> Places]
    BY <1>10 DEF AppendRecord, Moves, PrivacyTypeOK, Places
  <2> QED BY <1>10, <2>2, <2>3 DEF AppendRecord, PrivacyTypeOK, lockState, callState, netState,
                                    countState
<1>11. ASSUME NEW t \in Threads, Post(t) PROVE PrivacyTypeOK'
  <2>1. id[t] \in 0..MaxOps
    BY DEF PrivacyTypeOK
  <2>2. sent' \subseteq 0..MaxOps /\ unasked' \in BOOLEAN /\ where' \in [Threads -> Places]
    BY <1>11, <2>1 DEF Post, Moves, PrivacyTypeOK, Places
  <2> QED BY <1>11, <2>2, EndsTypes DEF Post, PrivacyTypeOK, fileState, lockState, countState
<1>12. ASSUME NEW t \in Threads, Restarts(t) PROVE PrivacyTypeOK'
  BY <1>12, PrivacyAssumption DEF Restarts, Moves, Ends, fileState, lockState, netState,
     countState, PrivacyTypeOK, Places, Docs
<1>13. ASSUME NEW p \in Processes, Dies(p) PROVE PrivacyTypeOK'
  <2>1. inner' \in [Processes -> [Docs -> Threads \cup {None}]]
    BY <1>13 DEF Dies, PrivacyTypeOK
  <2>2. torn' \in BOOLEAN /\ logged' \subseteq 0..MaxOps
    <3>1. CASE UNCHANGED <<torn, logged>>
      BY <3>1 DEF PrivacyTypeOK
    <3>2. ASSUME NEW t \in Threads, CutShort(t)
          PROVE  torn' \in BOOLEAN /\ logged' \subseteq 0..MaxOps
      <4>1. id[t] \in 0..MaxOps
        BY DEF PrivacyTypeOK
      <4> QED BY <3>2, <4>1 DEF CutShort, PrivacyTypeOK
    <3> QED BY <1>13, <3>1, <3>2 DEF Dies, Torn, Of
  <2>3. outer' \in [Docs -> Threads \cup {None}] /\ where' \in [Threads -> Places]
    BY <1>13 DEF Dies, PrivacyTypeOK, Places
  <2>4. deaths' \in 0..MaxDeaths
    BY <1>13, PrivacyAssumption DEF Dies, PrivacyTypeOK
  <2> QED BY <1>13, <2>1, <2>2, <2>3, <2>4 DEF Dies, callState, localState, netState, PrivacyTypeOK
<1>14. CASE UNCHANGED privacyVars
  BY <1>14 DEF privacyVars, fileState, lockState, callState, localState, netState, countState,
     PrivacyTypeOK, Places, Docs
<1> QED BY <1>1, <1>2, <1>3, <1>4, <1>5, <1>6, <1>7, <1>8, <1>9, <1>10, <1>11, <1>12, <1>13, <1>14
   DEF PrivacyNext, Accesses, Works

LEMMA KeepsPlaceInv ==
    PrivacyInv /\ [PrivacyNext]_privacyVars => PlaceInv'
<1> SUFFICES ASSUME PrivacyInv, [PrivacyNext]_privacyVars PROVE PlaceInv'
  OBVIOUS
<1> USE DEF PrivacyInv
<1>1. ASSUME NEW t \in Threads, Starts(t) PROVE PlaceInv'
  BY <1>1 DEF Starts, Moves, fileState, lockState, netState, PrivacyTypeOK, PlaceInv
<1>2. ASSUME NEW t \in Threads, TakeInner(t) PROVE PlaceInv'
  BY <1>2 DEF TakeInner, Moves, fileState, callState, localState, netState, countState,
     PrivacyTypeOK, PlaceInv
<1>3. ASSUME NEW t \in Threads, TakeOuter(t) PROVE PlaceInv'
  BY <1>3, PrivacyAssumption DEF TakeOuter, Moves, fileState, callState, localState, netState,
     countState, PrivacyTypeOK, Places, Docs, PlaceInv, Within
<1>4. ASSUME NEW t \in Threads, Expires(t) PROVE PlaceInv'
  BY <1>4 DEF Expires, Moves, Ends, fileState, netState, countState, PrivacyTypeOK, PlaceInv
<1>5. ASSUME NEW t \in Threads, Leaves(t) PROVE PlaceInv'
  <2>1. /\ \A u \in Threads \ {t} :
               /\ where'[u] = where[u] /\ doc'[u] = doc[u] /\ work'[u] = work[u]
               /\ key'[u] = key[u]
        /\ where'[t] \in {"idle", "enter", "post"}
    BY <1>5 DEF Leaves, Ends, Moves, PrivacyTypeOK
  <2>2. CASE Ends(t)
    <3>1. doc'[t] = "ledger" /\ work'[t] = "none" /\ where'[t] = "idle"
      BY <1>5, <2>2 DEF Leaves, Ends, Moves, PrivacyTypeOK, Docs, PlaceInv
    <3> QED BY <2>1, <3>1 DEF PlaceInv
  <2>3. CASE doc' = [doc EXCEPT ![t] = "log"] /\ UNCHANGED <<work, key, id, localState>>
    <3>1. doc'[t] = "log" /\ work'[t] = work[t] /\ key'[t] = key[t]
      BY <2>3 DEF PrivacyTypeOK
    <3>2. where'[t] # "idle"
      BY <1>5, <2>3, <3>1 DEF Leaves, Ends, Moves, PrivacyTypeOK
    <3> QED BY <2>1, <3>1, <3>2 DEF PlaceInv
  <2> QED BY <1>5, <2>2, <2>3 DEF Leaves
<1>6. ASSUME NEW t \in Threads, ReadEntries(t) PROVE PlaceInv'
  BY <1>6 DEF ReadEntries, Moves, fileState, lockState, callState, netState, PrivacyTypeOK,
     PlaceInv
<1>7. ASSUME NEW t \in Threads, Replace(t) PROVE PlaceInv'
  BY <1>7 DEF Replace, Moves, lockState, callState, netState, countState, PrivacyTypeOK, PlaceInv
<1>8. ASSUME NEW t \in Threads, Consult(t) PROVE PlaceInv'
  BY <1>8 DEF Consult, Moves, fileState, lockState, callState, netState, PrivacyTypeOK, PlaceInv
<1>9. ASSUME NEW t \in Threads, Inspect(t) PROVE PlaceInv'
  BY <1>9 DEF Inspect, Moves, fileState, lockState, callState, netState, countState,
     PrivacyTypeOK, PlaceInv
<1>10. ASSUME NEW t \in Threads, AppendRecord(t) PROVE PlaceInv'
  BY <1>10 DEF AppendRecord, Moves, lockState, callState, netState, countState, PrivacyTypeOK,
     PlaceInv
<1>11. ASSUME NEW t \in Threads, Post(t) PROVE PlaceInv'
  BY <1>11 DEF Post, Moves, Ends, fileState, lockState, countState, PrivacyTypeOK, PlaceInv
<1>12. ASSUME NEW t \in Threads, Restarts(t) PROVE PlaceInv'
  BY <1>12 DEF Restarts, Moves, Ends, fileState, lockState, netState, countState, PrivacyTypeOK,
     PlaceInv
<1>13. ASSUME NEW p \in Processes, Dies(p) PROVE PlaceInv'
  BY <1>13 DEF Dies, Torn, Of, CutShort, callState, localState, netState, PrivacyTypeOK, PlaceInv
<1>14. CASE UNCHANGED privacyVars
  BY <1>14 DEF privacyVars, fileState, lockState, callState, localState, netState, countState,
     PrivacyTypeOK, PlaceInv
<1> QED BY <1>1, <1>2, <1>3, <1>4, <1>5, <1>6, <1>7, <1>8, <1>9, <1>10, <1>11, <1>12, <1>13, <1>14
   DEF PrivacyNext, Accesses, Works

LEMMA KeepsLedgerInv ==
    PrivacyInv /\ [PrivacyNext]_privacyVars => LedgerInv'
<1> SUFFICES ASSUME PrivacyInv, [PrivacyNext]_privacyVars PROVE LedgerInv'
  OBVIOUS
<1> USE DEF PrivacyInv
<1>1. ASSUME NEW t \in Threads, Starts(t) PROVE LedgerInv'
  BY <1>1 DEF Starts, Moves, fileState, lockState, netState, PrivacyTypeOK, LedgerInv,
     LedgerIsAgreed, Faulty
<1>2. ASSUME NEW t \in Threads, TakeInner(t) PROVE LedgerInv'
  BY <1>2 DEF TakeInner, Moves, fileState, callState, localState, netState, countState,
     PrivacyTypeOK, LedgerInv, LedgerIsAgreed, Faulty
<1>3. ASSUME NEW t \in Threads, TakeOuter(t) PROVE LedgerInv'
  BY <1>3 DEF TakeOuter, Moves, fileState, callState, localState, netState, countState,
     PrivacyTypeOK, LedgerInv, LedgerIsAgreed, Faulty, Within
<1>4. ASSUME NEW t \in Threads, Expires(t) PROVE LedgerInv'
  BY <1>4 DEF Expires, Moves, Ends, fileState, netState, countState, PrivacyTypeOK, LedgerInv,
     LedgerIsAgreed, Faulty
<1>5. ASSUME NEW t \in Threads, Leaves(t) PROVE LedgerInv'
  BY <1>5 DEF Leaves, Moves, Ends, fileState, localState, netState, countState, PrivacyTypeOK,
     LedgerInv, LedgerIsAgreed, Faulty
<1>6. ASSUME NEW t \in Threads, ReadEntries(t) PROVE LedgerInv'
  BY <1>6 DEF ReadEntries, Moves, fileState, lockState, callState, netState, PrivacyTypeOK,
     LedgerInv, LedgerIsAgreed, Reads, Faulty
<1>7. ASSUME NEW t \in Threads, Replace(t) PROVE LedgerInv'
  <2>1. where[t] = "replace" /\ where'[t] = "leave" /\ UNCHANGED <<base, faults>>
        /\ \A u \in Threads \ {t} : where'[u] = where[u]
    BY <1>7 DEF Replace, Moves, PrivacyTypeOK, countState
  <2>2. base[t] \subseteq ledger /\ (Faulty \/ base[t] = ledger)
    BY <2>1 DEF LedgerInv
  <2>3. LedgerIsAgreed'
    BY <1>7, <2>1, <2>2 DEF Replace, LedgerInv, LedgerIsAgreed, Faulty
  <2>4. ASSUME NEW u \in Threads, where'[u] = "replace" PROVE FALSE
    BY <2>1, <2>4 DEF AccessInv, PlaceInv, Covered, Docs
  <2> QED BY <2>3, <2>4 DEF LedgerInv
<1>8. ASSUME NEW t \in Threads, Consult(t) PROVE LedgerInv'
  BY <1>8 DEF Consult, Moves, fileState, lockState, callState, netState, PrivacyTypeOK, LedgerInv,
     LedgerIsAgreed, Reads, Faulty
<1>9. ASSUME NEW t \in Threads, Inspect(t) PROVE LedgerInv'
  BY <1>9 DEF Inspect, Moves, fileState, lockState, callState, netState, countState,
     PrivacyTypeOK, LedgerInv, LedgerIsAgreed, Faulty
<1>10. ASSUME NEW t \in Threads, AppendRecord(t) PROVE LedgerInv'
  BY <1>10 DEF AppendRecord, Moves, lockState, callState, netState, countState, PrivacyTypeOK,
     LedgerInv, LedgerIsAgreed, Faulty
<1>11. ASSUME NEW t \in Threads, Post(t) PROVE LedgerInv'
  BY <1>11 DEF Post, Moves, Ends, fileState, lockState, countState, PrivacyTypeOK, LedgerInv,
     LedgerIsAgreed, Faulty
<1>12. ASSUME NEW t \in Threads, Restarts(t) PROVE LedgerInv'
  BY <1>12 DEF Restarts, Moves, Ends, fileState, lockState, netState, countState, PrivacyTypeOK,
     LedgerInv, LedgerIsAgreed, Faulty
<1>13. ASSUME NEW p \in Processes, Dies(p) PROVE LedgerInv'
  BY <1>13 DEF Dies, Torn, Of, CutShort, callState, localState, netState, PrivacyTypeOK,
     LedgerInv, LedgerIsAgreed, Faulty
<1>14. CASE UNCHANGED privacyVars
  BY <1>14 DEF privacyVars, fileState, lockState, callState, localState, netState, countState,
     PrivacyTypeOK, LedgerInv, LedgerIsAgreed, Faulty
<1> QED BY <1>1, <1>2, <1>3, <1>4, <1>5, <1>6, <1>7, <1>8, <1>9, <1>10, <1>11, <1>12, <1>13, <1>14
   DEF PrivacyNext, Accesses, Works

LEMMA KeepsAskedInv ==
    PrivacyInv /\ [PrivacyNext]_privacyVars => AskedInv'
<1> SUFFICES ASSUME PrivacyInv, [PrivacyNext]_privacyVars PROVE AskedInv'
  OBVIOUS
<1> USE DEF PrivacyInv
<1>1. ASSUME NEW t \in Threads, Starts(t) PROVE AskedInv'
  <2>1. /\ where'[t] = "enter" /\ doc'[t] = "ledger" /\ since'[t] = (key'[t] \in agreed')
        /\ \A u \in Threads \ {t} :
               /\ where'[u] = where[u] /\ doc'[u] = doc[u] /\ work'[u] = work[u]
               /\ key'[u] = key[u] /\ since'[u] = since[u]
        /\ UNCHANGED <<agreed, asked, unasked>>
    BY <1>1 DEF Starts, Moves, PrivacyTypeOK, PlaceInv, fileState, netState
  <2> QED BY <2>1 DEF AskedInv, SentOnlyAgreed, Underway
<1>2. ASSUME NEW t \in Threads, TakeInner(t) PROVE AskedInv'
  BY <1>2 DEF TakeInner, Moves, fileState, callState, localState, netState, countState,
     PrivacyTypeOK, AskedInv, SentOnlyAgreed, Underway
<1>3. ASSUME NEW t \in Threads, TakeOuter(t) PROVE AskedInv'
  BY <1>3 DEF TakeOuter, Moves, fileState, callState, localState, netState, countState,
     PrivacyTypeOK, AskedInv, SentOnlyAgreed, Underway, Within
<1>4. ASSUME NEW t \in Threads, Expires(t) PROVE AskedInv'
  BY <1>4 DEF Expires, Moves, Ends, fileState, netState, countState, PrivacyTypeOK, AskedInv,
     SentOnlyAgreed, Underway
<1>5. ASSUME NEW t \in Threads, Leaves(t) PROVE AskedInv'
  <2>1. /\ \A u \in Threads \ {t} :
               /\ where'[u] = where[u] /\ doc'[u] = doc[u] /\ work'[u] = work[u]
               /\ key'[u] = key[u] /\ since'[u] = since[u] /\ asked'[u] = asked[u]
        /\ UNCHANGED <<agreed, unasked>> /\ where[t] = "leave"
    BY <1>5 DEF Leaves, Ends, Moves, PrivacyTypeOK, fileState, netState, localState
  <2>2. CASE work[t] = "send" /\ asked[t]
    <3>1. since'[t] = since[t] /\ where'[t] \in {"post", "enter"} /\ since[t]
      BY <1>5, <2>2 DEF Leaves, Moves, PrivacyTypeOK, localState, AskedInv
    <3> QED BY <2>1, <3>1 DEF AskedInv, SentOnlyAgreed, Underway
  <2>3. CASE ~(work[t] = "send" /\ asked[t])
    <3>1. where'[t] = "idle"
      BY <1>5, <2>3 DEF Leaves, Moves, PrivacyTypeOK
    <3> QED BY <2>1, <3>1 DEF AskedInv, SentOnlyAgreed, Underway
  <2> QED BY <2>2, <2>3
<1>6. ASSUME NEW t \in Threads, ReadEntries(t) PROVE AskedInv'
  BY <1>6 DEF ReadEntries, Moves, fileState, lockState, callState, netState, PrivacyTypeOK,
     AskedInv, SentOnlyAgreed, Underway, Reads
<1>7. ASSUME NEW t \in Threads, Replace(t) PROVE AskedInv'
  BY <1>7 DEF Replace, Moves, lockState, callState, netState, countState, PrivacyTypeOK, AskedInv,
     SentOnlyAgreed, PlaceInv, Underway
<1>8. ASSUME NEW t \in Threads, Consult(t) PROVE AskedInv'
  BY <1>8 DEF Consult, Moves, fileState, lockState, callState, netState, PrivacyTypeOK, AskedInv,
     SentOnlyAgreed, LedgerInv, LedgerIsAgreed, PlaceInv, Underway, Reads
<1>9. ASSUME NEW t \in Threads, Inspect(t) PROVE AskedInv'
  BY <1>9 DEF Inspect, Moves, fileState, lockState, callState, netState, countState,
     PrivacyTypeOK, AskedInv, SentOnlyAgreed, Underway
<1>10. ASSUME NEW t \in Threads, AppendRecord(t) PROVE AskedInv'
  BY <1>10 DEF AppendRecord, Moves, lockState, callState, netState, countState, PrivacyTypeOK,
     AskedInv, SentOnlyAgreed, PlaceInv, Underway
<1>11. ASSUME NEW t \in Threads, Post(t) PROVE AskedInv'
  BY <1>11 DEF Post, Moves, Ends, fileState, lockState, countState, PrivacyTypeOK, AskedInv,
     SentOnlyAgreed, PlaceInv, Underway
<1>12. ASSUME NEW t \in Threads, Restarts(t) PROVE AskedInv'
  BY <1>12 DEF Restarts, Moves, Ends, fileState, lockState, netState, countState, PrivacyTypeOK,
     AskedInv, SentOnlyAgreed, Underway
<1>13. ASSUME NEW p \in Processes, Dies(p) PROVE AskedInv'
  BY <1>13 DEF Dies, Torn, Of, CutShort, callState, localState, netState, PrivacyTypeOK, AskedInv,
     SentOnlyAgreed, Underway
<1>14. CASE UNCHANGED privacyVars
  BY <1>14 DEF privacyVars, fileState, lockState, callState, localState, netState, countState,
     PrivacyTypeOK, AskedInv, SentOnlyAgreed, Underway
<1> QED BY <1>1, <1>2, <1>3, <1>4, <1>5, <1>6, <1>7, <1>8, <1>9, <1>10, <1>11, <1>12, <1>13, <1>14
   DEF PrivacyNext, Accesses, Works

LEMMA KeepsLogInv ==
    PrivacyInv /\ [PrivacyNext]_privacyVars => LogInv'
<1> SUFFICES ASSUME PrivacyInv, [PrivacyNext]_privacyVars PROVE LogInv'
  OBVIOUS
<1> USE DEF PrivacyInv
<1>1. ASSUME NEW t \in Threads, Starts(t) PROVE LogInv'
  BY <1>1 DEF Starts, Moves, fileState, lockState, netState, PrivacyTypeOK, LogInv, SentIsLogged
<1>2. ASSUME NEW t \in Threads, TakeInner(t) PROVE LogInv'
  BY <1>2 DEF TakeInner, Moves, fileState, callState, localState, netState, countState,
     PrivacyTypeOK, LogInv, SentIsLogged
<1>3. ASSUME NEW t \in Threads, TakeOuter(t) PROVE LogInv'
  BY <1>3 DEF TakeOuter, Moves, fileState, callState, localState, netState, countState,
     PrivacyTypeOK, LogInv, SentIsLogged, Within
<1>4. ASSUME NEW t \in Threads, Expires(t) PROVE LogInv'
  BY <1>4 DEF Expires, Moves, Ends, fileState, netState, countState, PrivacyTypeOK, LogInv,
     SentIsLogged
<1>5. ASSUME NEW t \in Threads, Leaves(t) PROVE LogInv'
  BY <1>5 DEF Leaves, Moves, Ends, fileState, localState, netState, countState, PrivacyTypeOK,
     LogInv, SentIsLogged
<1>6. ASSUME NEW t \in Threads, ReadEntries(t) PROVE LogInv'
  BY <1>6 DEF ReadEntries, Moves, fileState, lockState, callState, netState, PrivacyTypeOK,
     LogInv, SentIsLogged
<1>7. ASSUME NEW t \in Threads, Replace(t) PROVE LogInv'
  BY <1>7 DEF Replace, Moves, lockState, callState, netState, countState, PrivacyTypeOK, LogInv,
     SentIsLogged, PlaceInv
<1>8. ASSUME NEW t \in Threads, Consult(t) PROVE LogInv'
  BY <1>8 DEF Consult, Moves, fileState, lockState, callState, netState, PrivacyTypeOK, LogInv,
     SentIsLogged, PlaceInv
<1>9. ASSUME NEW t \in Threads, Inspect(t) PROVE LogInv'
  BY <1>9 DEF Inspect, Moves, fileState, lockState, callState, netState, countState,
     PrivacyTypeOK, LogInv, SentIsLogged
<1>10. ASSUME NEW t \in Threads, AppendRecord(t) PROVE LogInv'
  BY <1>10 DEF AppendRecord, Moves, lockState, callState, netState, countState, PrivacyTypeOK,
     LogInv, SentIsLogged, AccessInv, PlaceInv, Covered, CutShort
<1>11. ASSUME NEW t \in Threads, Post(t) PROVE LogInv'
  <2>1. /\ where[t] = "post" /\ where'[t] = "idle" /\ sent' = sent \cup {id[t]}
        /\ UNCHANGED <<logged, torn>>
        /\ \A u \in Threads \ {t} :
               /\ where'[u] = where[u] /\ doc'[u] = doc[u] /\ id'[u] = id[u]
               /\ asked'[u] = asked[u] /\ delimit'[u] = delimit[u]
    BY <1>11 DEF Post, Ends, Moves, PrivacyTypeOK, fileState
  <2>2. id[t] \in logged
    BY <2>1 DEF LogInv
  <2>3. SentIsLogged'
    BY <2>1, <2>2 DEF LogInv, SentIsLogged
  <2> QED BY <2>1, <2>3 DEF LogInv
<1>12. ASSUME NEW t \in Threads, Restarts(t) PROVE LogInv'
  BY <1>12 DEF Restarts, Moves, Ends, fileState, lockState, netState, countState, PrivacyTypeOK,
     LogInv, SentIsLogged
<1>13. ASSUME NEW p \in Processes, Dies(p) PROVE LogInv'
  BY <1>13 DEF Dies, Torn, Of, CutShort, callState, localState, netState, PrivacyTypeOK, LogInv,
     SentIsLogged, AccessInv, PlaceInv, Covered
<1>14. CASE UNCHANGED privacyVars
  BY <1>14 DEF privacyVars, fileState, lockState, callState, localState, netState, countState,
     PrivacyTypeOK, LogInv, SentIsLogged
<1> QED BY <1>1, <1>2, <1>3, <1>4, <1>5, <1>6, <1>7, <1>8, <1>9, <1>10, <1>11, <1>12, <1>13, <1>14
   DEF PrivacyNext, Accesses, Works

LEMMA InitPrivacy == PrivacyInit => PrivacyInv
<1>. SUFFICES ASSUME PrivacyInit PROVE PrivacyInv
  OBVIOUS
<1>. USE PrivacyAssumption DEF PrivacyInit
<1>1. PrivacyTypeOK
  <2>1. /\ ledger \subseteq Keys /\ agreed \subseteq Keys /\ logged = {} /\ sent = {}
        /\ {torn, unasked} \subseteq BOOLEAN
    OBVIOUS
  <2>2. /\ inner \in [Processes -> [Docs -> Threads \cup {None}]]
        /\ outer \in [Docs -> Threads \cup {None}]
    OBVIOUS
  <2>3. /\ where \in [Threads -> Places] /\ doc \in [Threads -> Docs]
        /\ work \in [Threads -> {"none", "grant", "revoke", "send"}]
        /\ key \in [Threads -> Keys \cup {None}]
    BY DEF Places, Docs
  <2>4. /\ id \in [Threads -> 0..MaxOps] /\ base \in [Threads -> SUBSET Keys]
        /\ begun \in 0..MaxOps /\ faults \in 0..MaxFaults /\ deaths \in 0..MaxDeaths
    OBVIOUS
  <2>5. /\ asked \in [Threads -> BOOLEAN] /\ delimit \in [Threads -> BOOLEAN]
        /\ since \in [Threads -> BOOLEAN]
    OBVIOUS
  <2>. HIDE DEF PrivacyInit
  <2>. QED BY <2>1, <2>2, <2>3, <2>4, <2>5 DEF PrivacyTypeOK
<1>2. AccessInv /\ PlaceInv
  BY DEF AccessInv, PlaceInv, Covered, Docs
<1>3. LedgerInv /\ AskedInv /\ LogInv
  BY DEF LedgerInv, LedgerIsAgreed, AskedInv, SentOnlyAgreed, Underway, LogInv, SentIsLogged
<1>. QED BY <1>1, <1>2, <1>3 DEF PrivacyInv

LEMMA PrivacyHolds == PrivacySpec => []PrivacyInv
<1>1. PrivacyInv /\ [PrivacyNext]_privacyVars => PrivacyInv'
  BY KeepsAccessInv, KeepsPrivacyTypeOK, KeepsPlaceInv, KeepsLedgerInv, KeepsAskedInv, KeepsLogInv
     DEF PrivacyInv
<1>. QED BY <1>1, InitPrivacy, PTL DEF PrivacySpec

---------------------------------------------------------------------------

\* Every variable of the accesses keeps its type.
THEOREM PrivacyTypes == PrivacySpec => []PrivacyTypeOK
BY PrivacyHolds, PTL DEF PrivacyInv

\* No grant and no revocation is lost to a concurrent one or to a crash; a ledger that could not
\* be read loses consents and never gains one (ConsentLedger).
THEOREM LedgerStaysAgreed == PrivacySpec => []LedgerIsAgreed
BY PrivacyHolds, PTL DEF PrivacyInv, LedgerInv

\* Nothing is sent that was not agreed to at some time since its provider asked
\* (PrivacyMonitor.record_egress).
THEOREM OnlyAgreedIsSent == PrivacySpec => []SentOnlyAgreed
BY PrivacyHolds, PTL DEF PrivacyInv, AskedInv

\* What was sent can be read in the log, whatever write is cut short (EgressLog.record).
THEOREM SentStaysLogged == PrivacySpec => []SentIsLogged
BY PrivacyHolds, PTL DEF PrivacyInv, LogInv
=============================================================================
