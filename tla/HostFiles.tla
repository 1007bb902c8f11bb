------------------------------ MODULE HostFiles ------------------------------
(***************************************************************************)
(* Files that several processes of one host share, each with a lock file   *)
(* of its own: the locks of write scopes, and the index of the code of a    *)
(* workspace.  They have nothing in common but the directory they are in;   *)
(* a behaviour is about one of them, or about a graph read from an index.   *)
(***************************************************************************)
EXTENDS WriteScopeLocks, CodeGraph

VARIABLE topic      \* what the behaviour is about

allVars == <<lockVars, graphVars, topic>>

FilesInit ==
    /\ LockInit /\ GraphInit
    /\ \/ topic \in {"locks", "index"} /\ imports = {}
       \/ topic = "imports" /\ imports \in SUBSET {e \in Nodes \X Nodes : e[1] # e[2]}
    /\ topic # "index" => bounds = CHOOSE plan \in GraphPlans : TRUE

About(what) == topic = what /\ UNCHANGED topic

FilesNext ==
    \/ About("locks") /\ LockNext /\ UNCHANGED graphVars
    \/ About("index") /\ GraphNext /\ UNCHANGED lockVars

\* A task that waits for its locks is retried by the executor's poll timer for as
\* long as it is queued, and a step of tryAcquire is followed by the next: strongly
\* fair, for another process may hold the mutex at every retry but not for ever.
\* Tasks end. Of the index nothing is assumed.
FilesSpec ==
    /\ FilesInit /\ [][FilesNext]_allVars
    /\ WF_allVars(About("locks") /\ Age /\ UNCHANGED graphVars)
    /\ \A c \in Calls : /\ SF_allVars(About("locks") /\ Attempt(c) /\ UNCHANGED graphVars)
                        /\ WF_allVars(About("locks") /\ Release(c) /\ UNCHANGED graphVars)

\* No task of a living process waits for its lock for ever, whoever died with
\* a mutex or a complete record in the directory.
LocksComeBack == topic = "locks" => ReclaimedUnlessTorn

\* What the index of the code says is true of the sources at one moment, whoever
\* edits them or refreshes or restores the index meanwhile, and following its
\* imports finds all that is within the depth.
IndexTrue ==
    /\ [](IndexIsPicture /\ FreshIsCurrent /\ (topic = "imports" => ImpactIsComplete))
    /\ RefreshesChain
==============================================================================
