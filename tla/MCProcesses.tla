---------------------------- MODULE MCProcesses ----------------------------
(***************************************************************************)
(* What the processes of one desktop share: the instance lock, the         *)
(* clipboard and the privacy files.  The three have no variable in common, *)
(* so that an invariant of one holds in all interleavings with the others  *)
(* if it holds of that one alone: a behaviour here is about one of them.   *)
(***************************************************************************)
EXTENDS InstanceLock, Clipboard, Privacy, TLC
CONSTANTS t1, t2, p1, p2
VARIABLE about
allVars == <<lockVars, vars, privacyVars, about>>

\* A thread in each process.
OneEach == t1 :> p1 @@ t2 :> p2

ProcessesInit ==
    /\ LockInit /\ Init /\ PrivacyInit
    /\ about \in {"instance", "clipboard", "privacy"}
    /\ about # "instance" => ~windows /\ files = 0
    /\ about # "privacy" => ledger = {} /\ ~torn

ProcessesNext ==
    /\ \/ about = "instance" /\ LockNext /\ UNCHANGED <<vars, privacyVars>>
       \/ about = "clipboard" /\ Next /\ UNCHANGED <<lockVars, privacyVars>>
       \/ about = "privacy" /\ PrivacyNext /\ UNCHANGED <<lockVars, vars>>
    /\ UNCHANGED about

ProcessesSpec == ProcessesInit /\ [][ProcessesNext]_allVars

\* The keys, and the two processes of the privacy files with their threads.
Interchangeable ==
    {f @@ g : f \in Permutations(Keys),
              g \in {t1 :> t1, t1 :> t2 @@ t2 :> t1 @@ p1 :> p2 @@ p2 :> p1}}
=============================================================================
