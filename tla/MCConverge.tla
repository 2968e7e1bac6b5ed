----------------------------- MODULE MCConverge -----------------------------
(* Five ways the engine may be used, each an instance of Engine with its   *)
(* own constants: in four of them the held state must converge; in the     *)
(* fifth it cannot, and the answers to mutations must be right all the     *)
(* same.  The variable use says which instance a behaviour is one of.      *)
EXTENDS Naturals, FiniteSets

CONSTANTS note, def, asset, dir, Schema, Threads, MaxPasses, MaxSettle

VARIABLES
    use, disk, ignored, inbox, kb, fp, version, tx, lock, stage, full, dirty,
    base, snap, todo, acc, built, passes, settles, burst, armed, writes,
    touches, seen, quiet, mutation

vars == <<use, disk, ignored, inbox, kb, fp, version, tx, lock, stage, full,
          dirty, base, snap, todo, acc, built, passes, settles, burst, armed,
          writes, touches, seen, quiet, mutation>>

Two     == {"c1", "c2"}
Any     == Two \cup {"absent"}
All(fs) == [f \in fs |-> "c1"]
None    == [d \in {} |-> {}]

\* External writers only, every event delivered or replaced by a rescan.
Watch == INSTANCE Engine WITH
    Files <- {note, def}, TypeDefs <- {def}, Assets <- {}, Dirs <- {dir},
    Under <- [d \in {dir} |-> {note, def}], Contents <- Two,
    InitDisk <- All({note, def}), InitIgnored <- {}, WriteStates <- Any,
    MutateStates <- {}, Reconcile <- FALSE, MaxWrites <- 2, MaxTouches <- 1,
    CanReturn <- FALSE, CanMutate <- FALSE, Rescopes <- {},
    CanRescan <- TRUE, CanFail <- FALSE, Drops <- "none"

\* Events may be lost as long as one is left; the idle reconcile is on.
Lossy == INSTANCE Engine WITH
    Files <- {note, def}, TypeDefs <- {def}, Assets <- {}, Dirs <- {},
    Under <- None, Contents <- Two,
    InitDisk <- [f \in {note, def} |-> IF f = def THEN "c1" ELSE "absent"],
    InitIgnored <- {}, WriteStates <- Two, MutateStates <- {},
    Reconcile <- TRUE, MaxWrites <- 2, MaxTouches <- 1, CanReturn <- FALSE,
    CanMutate <- FALSE, Rescopes <- {}, CanRescan <- FALSE,
    CanFail <- FALSE, Drops <- "sibling"

\* The mutation channel is the only writer and never rewrites the .auignore;
\* any event may be lost and no reconcile runs.
Channel == INSTANCE Engine WITH
    Files <- {note, asset}, TypeDefs <- {}, Assets <- {asset}, Dirs <- {},
    Under <- None, Contents <- Two, InitDisk <- All({note, asset}),
    InitIgnored <- {}, WriteStates <- {}, MutateStates <- Any,
    Reconcile <- FALSE, MaxWrites <- 3, MaxTouches <- 1, CanReturn <- TRUE,
    CanMutate <- TRUE, Rescopes <- {}, CanRescan <- TRUE,
    CanFail <- FALSE, Drops <- "any"

\* Mutations race external edits, any event may be lost and no reconcile runs;
\* one of the two files is excluded by the .auignore.
Mixed == INSTANCE Engine WITH
    Files <- {note, asset}, TypeDefs <- {}, Assets <- {}, Dirs <- {},
    Under <- None, Contents <- Two,
    InitDisk <- [f \in {note, asset} |-> "absent"], InitIgnored <- {asset},
    WriteStates <- Any, MutateStates <- Any, Reconcile <- FALSE,
    MaxWrites <- 2, MaxTouches <- 0, CanReturn <- FALSE, CanMutate <- TRUE,
    Rescopes <- {}, CanRescan <- TRUE, CanFail <- FALSE, Drops <- "any"

\* The .auignore is edited, through the channel and outside it; every event is
\* delivered and the idle reconcile is on.
Rescope == INSTANCE Engine WITH
    Files <- {note}, TypeDefs <- {}, Assets <- {}, Dirs <- {}, Under <- None,
    Contents <- Two, InitDisk <- All({note}), InitIgnored <- {},
    WriteStates <- Two, MutateStates <- Two, Reconcile <- TRUE,
    MaxWrites <- 3, MaxTouches <- 1, CanReturn <- FALSE, CanMutate <- TRUE,
    Rescopes <- SUBSET {note}, CanRescan <- FALSE, CanFail <- FALSE, Drops <- "none"

Init == \/ use = "watch" /\ Watch!Init
        \/ use = "lossy" /\ Lossy!Init
        \/ use = "channel" /\ Channel!Init
        \/ use = "mixed" /\ Mixed!Init
        \/ use = "rescope" /\ Rescope!Init

Watcher ==
    /\ UNCHANGED use
    /\ \/ use = "watch" /\ Watch!Watcher
       \/ use = "lossy" /\ Lossy!Watcher
       \/ use = "channel" /\ Channel!Watcher
       \/ use = "mixed" /\ Mixed!Watcher
       \/ use = "rescope" /\ Rescope!Watcher

Writer ==
    /\ UNCHANGED use
    /\ \/ use = "watch" /\ Watch!Writer
       \/ use = "lossy" /\ Lossy!Writer
       \/ use = "channel" /\ Channel!Writer
       \/ use = "mixed" /\ Mixed!Writer
       \/ use = "rescope" /\ Rescope!Writer

Outside ==
    /\ UNCHANGED use
    /\ \/ use = "watch" /\ (Watch!Environment \/ Watch!NewRequest)
       \/ use = "lossy" /\ (Lossy!Environment \/ Lossy!NewRequest)
       \/ use = "channel" /\ (Channel!Environment \/ Channel!NewRequest)
       \/ use = "mixed" /\ (Mixed!Environment \/ Mixed!NewRequest)
       \/ use = "rescope" /\ (Rescope!Environment \/ Rescope!NewRequest)

Next == Watcher \/ Writer \/ Outside

FairSpec == Init /\ [][Next]_vars /\ WF_vars(Watcher) /\ WF_vars(Writer)

\* Once the outside world leaves the disk alone, the held state becomes and
\* stays what a build of that disk would give; with deletions from outside,
\* but for entries without content.
EveryUseConverges ==
    <>[](CASE use = "watch" -> Watch!CurrentInContent
           [] use = "lossy" -> Lossy!Current
           [] use = "channel" -> Channel!Current
           [] use = "rescope" -> Rescope!Current
           [] use = "mixed" -> TRUE)

\* An answer to a mutation shows the mutated file as the mutation, or a change
\* after it, left it, though the watcher's rebuilds and editors interleave.
\* With ReconcilePolicy::Off, "correct when the mutation channel is the only
\* writer", it is given from exactly what is on disk.
MutationReflected ==
    /\ use = "mixed" => Mixed!MutationReflected
    /\ use = "channel" => Channel!WriterLeavesCurrent

\* After the first build the version advances, and subscribers are woken, only
\* for something observable: a changed catalog or fingerprint, or a rewalk that
\* the schema path forces.
NoPhantomVersion == [][Mixed!ForSomething]_vars

\* A file the .auignore excludes never enters the knowledge base, whichever
\* path of a rebuild (walk, gate, diff, splice) meets it.
IgnoredStaysOut == use = "mixed" => Mixed!IgnoredStaysOut
=============================================================================
