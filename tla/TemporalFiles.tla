-------------------------- MODULE TemporalFiles -------------------------
(***************************************************************************)
(* The temporary and intermediate files of the compiler driver             *)
(* (driver/cxx-driver-utils.c), the cleanup when it exits and the handler  *)
(* of terminating signals (driver/cxx-driver.c), with the processes it     *)
(* spawns.  A signal may arrive between any two steps; the rest of the     *)
(* program stops while its handler runs.  A spawned process is the driver  *)
(* itself until it has executed its program: if it cannot it exits, and if *)
(* a signal comes first it is handled, like in the driver, with a cleanup  *)
(* that may be stopped at any node.                                        *)
(*                                                                         *)
(* The n-th temporary file is first <<n, FALSE>> and, when it has been     *)
(* given an extension, <<n, TRUE>>.  Others are the files of the           *)
(* compilation that are marked by name.                                    *)
(***************************************************************************)
EXTENDS Naturals, Sequences

CONSTANTS Others, NoFile,
          MaxFiles,    \* bound: temporary files created
          MaxChildren  \* bound: processes spawned

ASSUME BoundsAssumption == MaxFiles \in Nat /\ MaxChildren \in Nat
ASSUME OthersAssumption == (Others \cup {NoFile}) \cap (Nat \X BOOLEAN) = {}

VARIABLES keep,       \* keep_files and keep_temporaries
          disk,       \* names of the files there are
          list,       \* temporal_file_list: [name, temp], the last one first
          freed,      \* nodes of it already deleted: the first ones
          misused,    \* a deleted node was read, or deleted again
          created,    \* temporary files created
          pc, iter,   \* where the driver is, and its place in the list
          handler, handlerIter,  \* the same of the signal handler
          in_cleanup_routine,
          atExit,     \* cleanup_routine is still to be called by exit
          child, childIter, \* the process spawned, and its place in the list
          shares,     \* it has the memory of the driver (vfork)
          inherited, output, \* the list when it was spawned, and the file it
                      \* writes
          spawned,    \* processes spawned
          ever,       \* history: all that was listed
          torn,       \* history: a child died in its cleanup of the driver's list
          status      \* "alive", "exited", "killed"

driver == <<keep, created, pc, iter, spawned, ever>>
vars == <<driver, disk, list, freed, misused, handler, handlerIter,
          in_cleanup_routine, atExit, child, childIter, shares, inherited,
          output, torn, status>>

Temporaries == (1..MaxFiles) \X BOOLEAN
Names == Temporaries \cup Others
Nodes == [name : Names, temp : BOOLEAN]

Kept(node) == IF node.temp THEN keep.temporaries ELSE keep.files

\* The names that a cleanup of the nodes removes.
Removed(nodes) == {node.name : node \in {m \in nodes : ~Kept(m)}}

Listed == {list[i] : i \in DOMAIN list}

-----------------------------------------------------------------------------
(* The driver *)

\* A spawned process before it executes its program, or after it could not.
Unexecuted == {"born", "caught", "clean", "cleaned"}

\* The driver itself is running: it is not in its handler, nor does a child
\* run in its memory.
Running == /\ status = "alive"
           /\ handler = "none"
           /\ ~(child \in Unexecuted /\ shares)

At(p) == Running /\ pc = p
Goto(p) == pc' = p

Untouched == UNCHANGED <<keep, misused, handler, handlerIter,
                         in_cleanup_routine, atExit, status>>
NoSpawn == UNCHANGED <<child, childIter, shares, inherited, output, spawned, torn>>
NoClean == UNCHANGED <<freed, iter>>

AddToList(node) == /\ list' = <<node>> \o list
                   /\ ever' = ever \cup {node}

\* new_temporal_file_unix: the file exists before it is listed.
Create ==
  /\ At("compile")
  /\ created < MaxFiles
  /\ created' = created + 1
  /\ disk' = disk \cup {<<created', FALSE>>}
  /\ Goto("made")
  /\ UNCHANGED <<list, ever>> /\ Untouched /\ NoSpawn /\ NoClean

\* The name asked for with an extension, or as it is.
Enlist ==
  /\ At("made")
  /\ AddToList([name |-> <<created, FALSE>>, temp |-> TRUE])
  /\ \E p \in {"compile", "link"} : Goto(p)
  /\ UNCHANGED <<disk, created>> /\ Untouched /\ NoSpawn /\ NoClean

\* new_temporal_file_extension: link, unlink, and the name in the list last.
Link ==
  /\ At("link")
  /\ \/ disk' = disk \cup {<<created, TRUE>>} /\ Goto("unlink")
     \/ UNCHANGED disk /\ Goto("exit")
  /\ UNCHANGED <<list, ever, created>> /\ Untouched /\ NoSpawn /\ NoClean

Unlink ==
  /\ At("unlink")
  /\ disk' = disk \ {<<created, FALSE>>}
  /\ Goto("rename")
  /\ UNCHANGED <<list, ever, created>> /\ Untouched /\ NoSpawn /\ NoClean

\* Mutant: the list keeps the name without the extension.
MutRename ==
  /\ At("rename")
  /\ Goto("compile")
  /\ UNCHANGED <<disk, list, ever, created>> /\ Untouched /\ NoSpawn /\ NoClean

Rename ==
  /\ At("rename")
  /\ LET node == [name |-> <<created, TRUE>>, temp |-> TRUE]
     IN  /\ list' = [list EXCEPT ![1] = node]
         /\ ever' = ever \cup {node}
  /\ Goto("compile")
  /\ UNCHANGED <<disk, created>> /\ Untouched /\ NoSpawn /\ NoClean

\* A file of the compilation is written, and marked for cleanup or as
\* temporary, once.
Write(o) ==
  /\ At("compile")
  /\ disk' = disk \cup {o}
  /\ UNCHANGED <<list, ever, created, pc>> /\ Untouched /\ NoSpawn /\ NoClean

Mark(o, temp) ==
  /\ At("compile")
  /\ \A node \in Listed : node.name # o
  /\ AddToList([name |-> o, temp |-> temp])
  /\ UNCHANGED <<disk, created, pc>> /\ Untouched /\ NoSpawn /\ NoClean

\* execute_program_flags: fork to redirect the output to a file, else vfork.
Spawn ==
  /\ At("compile")
  /\ spawned < MaxChildren
  /\ spawned' = spawned + 1
  /\ child' = "born"
  /\ shares' \in BOOLEAN
  /\ inherited' = list
  /\ output' \in {node.name : node \in Listed} \cup {NoFile}
  /\ Goto("wait")
  /\ UNCHANGED <<childIter, torn, disk, list, ever, created>> /\ Untouched /\ NoClean

\* The program succeeded; or it failed, and the caller gives up, or goes on:
\* only the one that looks for wrapped modules, which redirects, does.
Waited ==
  /\ At("wait")
  /\ \/ /\ child = "succeeded"
        /\ Goto("compile")
     \/ /\ child = "failed"
        /\ Goto("exit")
     \/ /\ child = "failed"
        /\ ~shares
        /\ Goto("compile")
  /\ child' = "none"
  /\ inherited' = << >>
  /\ output' = NoFile
  /\ UNCHANGED <<childIter, shares, torn, spawned, disk, list, ever, created>> /\ Untouched /\ NoClean

\* The compilation ends, or gives up.
Finish ==
  /\ At("compile")
  /\ Goto("exit")
  /\ UNCHANGED <<disk, list, ever, created>> /\ Untouched /\ NoSpawn /\ NoClean

-----------------------------------------------------------------------------
(* cleanup_routine and temporal_files_cleanup *)

\* Removes the file of the i-th node and deletes the node.
CleanNode(i) ==
  /\ i <= Len(list)
  /\ disk' = disk \ Removed({list[i]})
  /\ freed' = i
  /\ misused' = (misused \/ i <= freed)
  /\ UNCHANGED list

CleanedAll(i) ==
  /\ i > Len(list)
  /\ list' = << >>
  /\ freed' = 0
  /\ UNCHANGED <<disk, misused>>

\* exit: the cleanup, if it is still registered.
Exit ==
  /\ At("exit")
  /\ IF atExit
     THEN in_cleanup_routine' = TRUE /\ iter' = 1 /\ Goto("clean") /\ UNCHANGED status
     ELSE status' = "exited" /\ UNCHANGED <<in_cleanup_routine, iter, pc>>
  /\ UNCHANGED <<keep, disk, list, ever, created, freed, misused, handler,
                 handlerIter, atExit>>
  /\ NoSpawn

Clean ==
  /\ At("clean")
  /\ \/ CleanNode(iter) /\ iter' = iter + 1 /\ UNCHANGED pc
     \/ CleanedAll(iter) /\ Goto("cleaned") /\ UNCHANGED iter
  /\ UNCHANGED <<keep, ever, created, handler, handlerIter, in_cleanup_routine,
                 atExit, status>>
  /\ NoSpawn

Cleaned ==
  /\ At("cleaned")
  /\ in_cleanup_routine' = FALSE
  /\ status' = "exited"
  /\ UNCHANGED <<keep, pc, disk, list, ever, created, freed, iter, misused,
                 handler, handlerIter, atExit>>
  /\ NoSpawn

-----------------------------------------------------------------------------
(* terminating_signal_handler: every signal is blocked while it runs *)

Still == UNCHANGED <<driver, atExit, child, childIter, shares, inherited, output,
                     torn>>

\* A signal arrives; a child that runs in the memory of the driver delays it.
Signal ==
  /\ Running
  /\ handler' = "caught"
  /\ UNCHANGED <<disk, list, freed, misused, handlerIter, in_cleanup_routine, status>>
  /\ Still

\* run_gdb, when the debugger cannot be executed: its process returns to the
\* handler, in the driver or in a child in its memory, cleans too, as far as it
\* comes, and dies.
GdbFails ==
  /\ \/ handler = "caught" /\ status = "alive"
     \/ child = "caught" /\ shares
  /\ ~in_cleanup_routine
  /\ \E n \in DOMAIN list : disk' = disk \ Removed({list[i] : i \in 1..n})
  /\ UNCHANGED <<list, freed, misused, handler, handlerIter, in_cleanup_routine, status>>
  /\ Still

\* Mutant: the handler always cleans.
MutCaught ==
  /\ handler = "caught"
  /\ handler' = "clean" /\ in_cleanup_routine' = TRUE /\ handlerIter' = 1
  /\ UNCHANGED <<disk, list, freed, misused, status>> /\ Still

\* Mutant: it cleans only what a cleanup had begun.
MutCaughtInverted ==
  /\ handler = "caught"
  /\ IF ~in_cleanup_routine
     THEN handler' = "raise" /\ UNCHANGED <<in_cleanup_routine, handlerIter>>
     ELSE handler' = "clean" /\ in_cleanup_routine' = TRUE /\ handlerIter' = 1
  /\ UNCHANGED <<disk, list, freed, misused, status>> /\ Still

Caught ==
  /\ handler = "caught"
  /\ IF in_cleanup_routine
     THEN handler' = "raise" /\ UNCHANGED <<in_cleanup_routine, handlerIter>>
     ELSE handler' = "clean" /\ in_cleanup_routine' = TRUE /\ handlerIter' = 1
  /\ UNCHANGED <<disk, list, freed, misused, status>> /\ Still

HandlerCleans ==
  /\ handler = "clean"
  /\ \/ /\ CleanNode(handlerIter)
        /\ handlerIter' = handlerIter + 1
        /\ UNCHANGED <<handler, in_cleanup_routine>>
     \/ /\ CleanedAll(handlerIter)
        /\ handler' = "raise"
        /\ in_cleanup_routine' = FALSE
        /\ UNCHANGED handlerIter
  /\ UNCHANGED status /\ Still

\* Mutant: the handler stays installed (no SA_RESETHAND) and catches the
\* signal it raises.
MutRaise ==
  /\ handler = "raise"
  /\ status = "alive"
  /\ handler' = "caught"
  /\ UNCHANGED <<disk, list, freed, misused, handlerIter, in_cleanup_routine, status>>
  /\ Still

Raise ==
  /\ handler = "raise"
  /\ status = "alive"
  /\ status' = "killed"
  /\ UNCHANGED <<disk, list, freed, misused, handler, handlerIter, in_cleanup_routine>>
  /\ Still

-----------------------------------------------------------------------------
(* The process spawned *)

Alone == UNCHANGED <<driver, handler, handlerIter, shares, inherited, output, status>>
NoCleanup == UNCHANGED <<disk, list, freed, misused, childIter>>

ChildExecutes ==
  /\ child = "born"
  /\ child' = "running"
  /\ UNCHANGED <<in_cleanup_routine, atExit, torn>> /\ NoCleanup /\ Alone

ChildSignal ==
  /\ child = "born"
  /\ child' = "caught"
  /\ UNCHANGED <<in_cleanup_routine, atExit, torn>> /\ NoCleanup /\ Alone

\* It could not redirect or execute and exits, or has caught a signal: it
\* begins its cleanup.  With vfork the flag is the driver's, and exit may count
\* as called in the driver.
ChildBegins ==
  /\ child \in {"born", "caught"}
  /\ child' = "clean"
  /\ childIter' = 1
  /\ in_cleanup_routine' = (in_cleanup_routine \/ shares)
  /\ \/ UNCHANGED atExit
     \/ child = "born" /\ shares /\ atExit' = FALSE
  /\ UNCHANGED <<disk, list, freed, misused, torn>> /\ Alone

\* One node: with vfork it deletes those of the driver.
ChildCleans ==
  /\ child = "clean"
  /\ IF shares
     THEN \/ CleanNode(childIter) /\ childIter' = childIter + 1 /\ UNCHANGED child
          \/ CleanedAll(childIter) /\ child' = "cleaned" /\ UNCHANGED childIter
     ELSE /\ \/ /\ childIter <= Len(inherited)
                /\ disk' = disk \ Removed({inherited[childIter]})
                /\ childIter' = childIter + 1
                /\ UNCHANGED child
             \/ childIter > Len(inherited) /\ child' = "cleaned" /\ UNCHANGED <<disk, childIter>>
          /\ UNCHANGED <<list, freed, misused>>
  /\ UNCHANGED <<in_cleanup_routine, atExit, torn>> /\ Alone

ChildCleaned ==
  /\ child = "cleaned"
  /\ child' = "failed"
  /\ in_cleanup_routine' = (in_cleanup_routine /\ ~shares)
  /\ UNCHANGED <<atExit, torn>> /\ NoCleanup /\ Alone

\* A signal during the cleanup of exit, or one that cannot be caught.
ChildDies ==
  /\ child \in Unexecuted
  /\ child' = "failed"
  /\ torn' = (torn \/ (shares /\ child \in {"clean", "cleaned"}))
  /\ UNCHANGED <<in_cleanup_routine, atExit>> /\ NoCleanup /\ Alone

\* It writes the file named by the driver, even if that is gone.
ChildWrites ==
  /\ \/ child = "running"
     \/ child = "born" /\ ~shares
  /\ output # NoFile
  /\ disk' = disk \cup {output}
  /\ UNCHANGED <<list, freed, misused, in_cleanup_routine, atExit, torn, child, childIter>>
  /\ Alone

ChildEnds ==
  /\ child = "running"
  /\ child' \in {"succeeded", "failed"}
  /\ UNCHANGED <<in_cleanup_routine, atExit, torn>> /\ NoCleanup /\ Alone

-----------------------------------------------------------------------------

Init ==
  /\ keep \in [files : BOOLEAN, temporaries : BOOLEAN]
  /\ disk = {} /\ list = << >> /\ freed = 0 /\ misused = FALSE
  /\ created = 0 /\ pc = "compile" /\ iter = 0
  /\ handler = "none" /\ handlerIter = 0
  /\ in_cleanup_routine = FALSE /\ atExit = TRUE
  /\ child = "none" /\ childIter = 0 /\ shares = FALSE /\ spawned = 0
  /\ inherited = << >> /\ output = NoFile
  /\ ever = {} /\ torn = FALSE /\ status = "alive"

Compile == \/ Create \/ Enlist \/ Link \/ Unlink \/ Rename \/ Spawn \/ Waited
           \/ Finish
           \/ \E o \in Others : Write(o)
           \/ \E o \in Others, temp \in BOOLEAN : Mark(o, temp)
Exiting == Exit \/ Clean \/ Cleaned
Handling == Caught \/ HandlerCleans \/ Raise
Child == \/ ChildExecutes \/ ChildSignal \/ ChildBegins \/ ChildCleans
         \/ ChildCleaned \/ ChildDies \/ ChildWrites \/ ChildEnds

Next == Compile \/ Exiting \/ Signal \/ GdbFails \/ Handling \/ Child

Spec == Init /\ [][Next]_vars /\ WF_vars(Exiting) /\ WF_vars(Handling)

-----------------------------------------------------------------------------
(* Properties *)

\* The state has its types.
TypeOK ==
  /\ keep \in [files : BOOLEAN, temporaries : BOOLEAN]
  /\ disk \subseteq Names
  /\ list \in Seq(Nodes)
  /\ freed \in 0..Len(list)
  /\ misused \in BOOLEAN
  /\ created \in 0..MaxFiles
  /\ pc \in {"compile", "made", "link", "unlink", "rename", "wait", "exit",
             "clean", "cleaned"}
  /\ iter \in Nat
  /\ handler \in {"none", "caught", "clean", "raise"}
  /\ handlerIter \in Nat
  /\ in_cleanup_routine \in BOOLEAN
  /\ atExit \in BOOLEAN
  /\ child \in Unexecuted \cup {"none", "running", "succeeded", "failed"}
  /\ childIter \in Nat
  /\ shares \in BOOLEAN
  /\ inherited \in Seq(Nodes)
  /\ output \in Names \cup {NoFile}
  /\ spawned \in 0..MaxChildren
  /\ ever \subseteq Nodes
  /\ torn \in BOOLEAN
  /\ status \in {"alive", "exited", "killed"}

\* No node of the list is used after it was deleted, wherever a signal stops
\* the driver, its handler or a child, and whoever else cleans: unless a child
\* was killed inside of its cleanup of the driver's list, and then only by the
\* cleanup of exit.
NeverMisused == misused => torn /\ pc \in {"clean", "cleaned"}

\* Nothing of these files is left that was listed and is not to be kept, and
\* no temporary file.
NoneOf(files) == /\ Removed(ever) \cap files = {}
                 /\ ~keep.temporaries => Temporaries \cap files = {}

\* The files of the list that a cleanup which was stopped has not reached.
Unreached == {list[i].name : i \in {n \in DOMAIN list : n > freed}}

\* After an exit nothing is left that is to be removed, whatever failed and
\* whoever removed files before; if a child was stopped in its cleanup of the
\* driver's list, nothing but what it had not reached.
CleanExit ==
  (status = "exited" /\ ~misused) =>
    /\ NoneOf(disk \ Unreached)
    /\ ~torn => NoneOf(disk)

\* The name that a creation stopped at p leaves out of the list.
Unlisted(p) == {n \in {<<created, FALSE>>} : p = "made"}
               \cup {n \in {<<created, TRUE>>} : p \in {"unlink", "rename"}}

\* A signal that does not come during the cleanup of exit leaves at most the
\* temporary file that was being created, and what a child that survives
\* writes afterwards; if a child was stopped in its cleanup of the driver's
\* list, what it had not reached too.
LeftBySignal ==
  (status = "killed" /\ pc \notin {"clean", "cleaned"}) =>
    LET left == disk \ (Unlisted(pc) \cup {output})
    IN  /\ NoneOf(left \ Unreached)
        /\ ~torn => NoneOf(left)

\* An exit, and a signal, end the driver, as far as it uses no deleted node.
Ends == (pc = "exit" \/ handler # "none") ~> (status # "alive" \/ misused)

\* What the cleanups are for, which a child that is stopped in the driver's list
\* breaks.
AllRemoved == status = "exited" => NoneOf(disk)
Sound == ~misused
=============================================================================
