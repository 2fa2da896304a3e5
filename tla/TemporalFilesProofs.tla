------------------------ MODULE TemporalFilesProofs ---------------------
(* Proofs about TemporalFiles, for any files, temporaries and processes:    *)
(* no deleted node of the list is used, an exit leaves nothing behind, and  *)
(* a signal at most the temporary file that was being created.  A child     *)
(* killed inside of its cleanup of the driver's list is the exception; what *)
(* is lost then is what it had not reached.                                 *)
EXTENDS TemporalFiles, TLAPS

-----------------------------------------------------------------------------
(* Who cleans, and how far *)

Compiling == {"compile", "made", "link", "unlink", "rename", "wait"}
Creating == {"link", "unlink", "rename"}

\* A child cleans the list of the driver.
InDriver == shares /\ child \in {"clean", "cleaned"}

\* The driver waits for the child it has; one in its memory runs alone; after one
\* that died there the driver only exits.
ChildInv ==
  /\ child = "none" <=> pc # "wait"
  /\ child = "none" => output = NoFile
  /\ child \in Unexecuted /\ shares => handler = "none"
  /\ torn => pc \in {"wait", "exit", "clean", "cleaned"}
  /\ torn /\ pc = "wait" => child = "failed" /\ shares

\* One cleans at a time, and the flag says that one does, or was stopped.
CleanInv ==
  /\ in_cleanup_routine <=> \/ handler = "clean"
                            \/ pc \in {"clean", "cleaned"} /\ status # "exited"
                            \/ InDriver
                            \/ torn /\ ~(pc = "cleaned" /\ status = "exited")
  /\ handler = "clean" => pc \notin {"clean", "cleaned"} /\ ~torn
  /\ IF pc = "clean" THEN freed = iter - 1 \/ (torn /\ iter = 1)
     ELSE IF handler = "clean" THEN freed = handlerIter - 1
     ELSE IF InDriver /\ child = "clean" THEN freed = childIter - 1
     ELSE torn \/ freed = 0
  /\ misused => torn /\ pc \in {"clean", "cleaned"}

\* What has ended, and that the list went with it.
EndInv ==
  /\ status = "exited" => handler = "none" /\ pc \in {"exit", "cleaned"}
                          /\ (torn \/ list = << >>)
  /\ status = "killed" => handler = "raise"
  /\ pc = "cleaned" => list = << >>
  /\ InDriver /\ child = "cleaned" => list = << >>
  /\ handler = "raise" /\ pc \notin {"clean", "cleaned"} => torn \/ list = << >>
  /\ ~atExit => /\ \/ pc = "exit"
                   \/ pc = "wait" /\ shares /\ child \in {"clean", "cleaned", "failed"}
                /\ list = << >> \/ torn \/ child = "clean"

\* The file being created has a number.
NumberInv == pc \in {"made"} \cup Creating => created >= 1

Control == ChildInv /\ CleanInv /\ EndInv /\ NumberInv

-----------------------------------------------------------------------------
(* What is on the disk *)

\* The nodes that are not deleted yet.
Left == {list[i] : i \in {j \in DOMAIN list : j > freed}}

\* The driver is not being stopped and has lost the list to nobody.
Intact == /\ handler = "none"
          /\ pc \in Compiling
          /\ ~(shares /\ child \in {"clean", "cleaned", "failed"})

\* The names of the file being created that are not in the list yet.
Ahead == IF pc = "made" THEN {<<created, FALSE>>, <<created, TRUE>>}
         ELSE IF pc \in Creating THEN {<<created, TRUE>>} ELSE {}

\* Everything listed is still listed, or is to be kept, or is gone; after a
\* signal a child may bring its output back.
Accounted ==
  \A node \in ever :
    \/ Kept(node)
    \/ node \in Left
    \/ node.name \notin disk
    \/ handler # "none" /\ node.name = output

\* The temporary files there are have been listed, but the one being created.
TempsListed ==
  \A t \in Temporaries \cap disk :
    \/ t \in Unlisted(pc)
    \/ [name |-> t, temp |-> TRUE] \in ever

\* What has been listed ever.
EverInv ==
  /\ Listed \subseteq ever
  /\ output \in {node.name : node \in ever} \cup {NoFile}
  /\ \A node \in ever :
       /\ node.name \in Temporaries => node.temp /\ node.name[1] <= created
       /\ node.name \notin Ahead

\* The list of a driver that compiles: no name is in it twice, and what has
\* left it had a name that no node has now.
ListInv ==
  Intact =>
    /\ \A i, j \in DOMAIN list : list[i].name = list[j].name => i = j
    /\ \A node \in ever \ Listed : /\ node.name \in Temporaries
                                   /\ \A m \in Listed : m.name # node.name
    /\ pc \in Creating => /\ list # << >>
                          /\ list[1] = [name |-> <<created, FALSE>>, temp |-> TRUE]
    /\ pc = "rename" => <<created, FALSE>> \notin disk
    /\ child # "none" => /\ inherited = list
                         /\ output \in {node.name : node \in Listed} \cup {NoFile}

Files == Accounted /\ TempsListed /\ EverInv /\ ListInv

IInv == TypeOK /\ Control /\ Files

-----------------------------------------------------------------------------
(* The list as a set *)

\* A node in front of a list.
LEMMA Pushed ==
  ASSUME NEW s \in Seq(Nodes), NEW node \in Nodes
  PROVE  LET r == <<node>> \o s
         IN  /\ r \in Seq(Nodes)
             /\ Len(r) = Len(s) + 1
             /\ r[1] = node
             /\ \A i \in DOMAIN s : r[i + 1] = s[i]
             /\ \A i \in DOMAIN r : i # 1 => i - 1 \in DOMAIN s /\ r[i] = s[i - 1]
<1> DEFINE r == <<node>> \o s
<1>1. <<node>> \in Seq(Nodes) /\ Len(<<node>>) = 1 /\ <<node>>[1] = node
  OBVIOUS
<1>2. r \in Seq(Nodes)
  BY <1>1
<1>3. Len(r) = Len(s) + 1
  BY <1>1
<1>4. \A i \in 1..Len(r) : r[i] = IF i = 1 THEN node ELSE s[i - 1]
  BY <1>1, <1>3
<1>5. DOMAIN s = 1..Len(s) /\ DOMAIN r = 1..Len(r) /\ Len(s) \in Nat
  BY <1>2
<1> HIDE DEF r
<1>6. r[1] = node
  BY <1>3, <1>4, <1>5
<1>7. ASSUME NEW i \in DOMAIN s PROVE r[i + 1] = s[i]
  <2>1. i \in Nat /\ i + 1 \in 1..Len(r) /\ i + 1 # 1 /\ (i + 1) - 1 = i
    BY <1>3, <1>5
  <2> QED
    BY <2>1, <1>4
<1>8. ASSUME NEW i \in DOMAIN r PROVE i # 1 => i - 1 \in DOMAIN s /\ r[i] = s[i - 1]
  <2>1. i \in 1..Len(r)
    BY <1>5
  <2>2. i # 1 => i - 1 \in 1..Len(s)
    BY <2>1, <1>3, <1>5
  <2>3. r[i] = IF i = 1 THEN node ELSE s[i - 1]
    BY <2>1, <1>4
  <2>4. i - 1 \in 1..Len(s) => i - 1 \in DOMAIN s
    BY <1>5
  <2> QED
    BY <2>2, <2>3, <2>4
<1> QED
  BY <1>2, <1>3, <1>6, <1>7, <1>8

\* A list with another first node.
LEMMA Replaced ==
  ASSUME NEW s \in Seq(Nodes), NEW node \in Nodes
  PROVE  LET r == [s EXCEPT ![1] = node]
         IN  /\ r \in Seq(Nodes)
             /\ Len(r) = Len(s)
             /\ \A i \in DOMAIN s : r[i] = IF i = 1 THEN node ELSE s[i]
<1> DEFINE r == [s EXCEPT ![1] = node]
<1>1. DOMAIN r = 1..Len(s) /\ \A i \in 1..Len(s) : r[i] \in Nodes
  OBVIOUS
<1>2. r \in [1..Len(s) -> Nodes]
  BY <1>1
<1>3. r \in Seq(Nodes) /\ Len(r) = Len(s)
  BY <1>2
<1> QED
  BY <1>3

\* While no node is deleted all that is listed is left.
LEMMA AllLeft ==
  ASSUME list \in Seq(Nodes), freed = 0
  PROVE  Left = Listed
BY DEF Left, Listed

\* Nothing is left behind the end of the list.
LEMMA NoneLeft ==
  ASSUME list \in Seq(Nodes), freed \in Nat, freed >= Len(list)
  PROVE  Left = {}
BY DEF Left

\* The names of a temporary file.
LEMMA TempNames ==
  ASSUME NEW n \in 1..MaxFiles, NEW extended \in BOOLEAN
  PROVE  <<n, extended>> \in Temporaries /\ <<n, extended>> \in Names
BY DEF Temporaries, Names

-----------------------------------------------------------------------------
(* Types and control *)

\* The start satisfies the invariant.
LEMMA InitIInv == Init => IInv
<1> SUFFICES ASSUME Init PROVE IInv
  OBVIOUS
<1>1. TypeOK
  <2>1. list \in Seq(Nodes) /\ freed \in 0..Len(list)
    BY DEF Init
  <2> QED
    <3>1. created \in 0..MaxFiles /\ spawned \in 0..MaxChildren /\ iter \in Nat /\ handlerIter \in Nat
      BY BoundsAssumption DEF Init
    <3> QED
      BY <2>1, <3>1, Zenon DEF Init, TypeOK
<1>2. Control
  BY DEF Init, Control, ChildInv, CleanInv, EndInv, NumberInv, Creating, InDriver,
         Unexecuted
<1>3. Files
  BY DEF Init, Files, Accounted, TempsListed, EverInv, ListInv, Left, Listed,
         Creating, Compiling, Intact
<1> QED
  BY <1>1, <1>2, <1>3 DEF IInv

\* Every step keeps the types.
LEMMA TypesStep == IInv /\ [Next]_vars => TypeOK'
<1> SUFFICES ASSUME IInv, [Next]_vars PROVE TypeOK'
  OBVIOUS
<1> USE BoundsAssumption DEF IInv, driver, Untouched, NoSpawn, NoClean, At, Goto,
                             Running
<1>1. CASE UNCHANGED vars
  BY <1>1 DEF vars, TypeOK
<1>2. CASE Compile
  <2>1. CASE Create
    <3>1. created' \in 1..MaxFiles
      BY <2>1 DEF Create, TypeOK
    <3>2. <<created', FALSE>> \in Names
      BY <3>1, TempNames
    <3> QED
      <4>1. disk' \subseteq Names
        BY <2>1, <3>2, Zenon DEF Create, TypeOK
      <4>2. created' \in 0..MaxFiles
        BY <3>1
      <4>3. pc' = "made" /\ UNCHANGED <<list, ever, keep, misused, handler, handlerIter,
                         in_cleanup_routine, atExit, status, child, childIter,
                         torn, shares, inherited, output, spawned, freed, iter>>
        BY <2>1 DEF Create
      <4> QED
        BY <4>1, <4>2, <4>3 DEF TypeOK
  <2>9. CASE Link \/ Unlink
    <3>1. created \in 1..MaxFiles
      <4>1. pc \in Creating
        BY <2>9 DEF Link, Unlink, Creating
      <4>2. created >= 1 /\ created \in 0..MaxFiles
        BY <4>1 DEF Control, NumberInv, TypeOK
      <4> QED
        BY <4>2
    <3>2. <<created, TRUE>> \in Names
      BY <3>1, TempNames
    <3> QED
      BY <2>9, <3>2 DEF Link, Unlink, TypeOK
  <2>2. ASSUME NEW node \in Nodes, AddToList(node)
        PROVE  list' \in Seq(Nodes) /\ Len(list') = Len(list) + 1 /\ ever' \subseteq Nodes
    BY <2>2, Pushed DEF AddToList, TypeOK
  <2>3. CASE Enlist
    <3>1. created \in 1..MaxFiles
      BY <2>3 DEF Enlist, TypeOK, Control, NumberInv
    <3>2. [name |-> <<created, FALSE>>, temp |-> TRUE] \in Nodes
      BY <3>1, TempNames DEF Nodes
    <3> QED
      BY <2>3, <2>2, <3>2 DEF Enlist, TypeOK
  <2>4. CASE Rename
    <3>1. created \in 1..MaxFiles
      BY <2>4 DEF Rename, TypeOK, Control, NumberInv, Creating
    <3>2. [name |-> <<created, TRUE>>, temp |-> TRUE] \in Nodes
      BY <3>1, TempNames DEF Nodes
    <3> QED
      BY <2>4, <3>2, Replaced DEF Rename, TypeOK
  <2>5. CASE Spawn
    <3>1. Listed \subseteq Nodes /\ list \in Seq(Nodes)
      BY DEF Listed, TypeOK
    <3>2. {node.name : node \in Listed} \subseteq Names
      BY <3>1 DEF Nodes
    <3> HIDE DEF IInv
    <3>3. TypeOK
      BY DEF IInv
    <3> QED
      BY <2>5, <3>1, <3>2, <3>3 DEF Spawn, TypeOK, Unexecuted
  <2>6. CASE Waited \/ Finish
    <3>1. /\ pc' \in {"compile", "exit"} /\ child' \in {"none", child}
          /\ inherited' \in {<< >>, inherited} /\ output' \in {NoFile, output}
      BY <2>6 DEF Waited, Finish
    <3>2. UNCHANGED <<keep, misused, handler, handlerIter, in_cleanup_routine, atExit,
                      status, freed, iter, childIter, shares, torn, spawned, disk, list,
                      ever, created>>
      BY <2>6 DEF Waited, Finish
    <3>3. << >> \in Seq(Nodes)
      OBVIOUS
    <3> HIDE DEF IInv
    <3>4. TypeOK
      BY DEF IInv
    <3> QED
      <4>1. /\ pc' \in {"compile", "made", "link", "unlink", "rename", "wait", "exit",
                       "clean", "cleaned"}
            /\ child' \in Unexecuted \cup {"none", "running", "succeeded", "failed"}
        BY <3>1, <3>4 DEF TypeOK
      <4>2. inherited' \in Seq(Nodes) /\ output' \in Names \cup {NoFile}
        BY <3>1, <3>3, <3>4, Zenon DEF TypeOK
      <4> QED
        BY <3>2, <3>4, <4>1, <4>2 DEF TypeOK
  <2>7. ASSUME NEW o \in Others, Write(o) PROVE TypeOK'
    BY <2>7 DEF Write, TypeOK, Names
  <2>8. ASSUME NEW o \in Others, NEW temp \in BOOLEAN, Mark(o, temp) PROVE TypeOK'
    <3>1. [name |-> o, temp |-> temp] \in Nodes
      BY DEF Names, Nodes
    <3> QED
      BY <2>8, <2>2, <3>1 DEF Mark, TypeOK
  <2> QED
    BY <1>2, <2>1, <2>3, <2>4, <2>5, <2>6, <2>7, <2>8, <2>9 DEF Compile
<1>3. ASSUME NEW i \in Nat, CleanNode(i)
      PROVE  /\ disk' \subseteq Names /\ list' \in Seq(Nodes)
             /\ freed' \in 0..Len(list') /\ misused' \in BOOLEAN
  BY <1>3 DEF CleanNode, TypeOK
<1>4. ASSUME NEW i \in Nat, CleanedAll(i)
      PROVE  /\ disk' \subseteq Names /\ list' \in Seq(Nodes)
             /\ freed' \in 0..Len(list') /\ misused' \in BOOLEAN
  BY <1>4 DEF CleanedAll, TypeOK
<1>5. CASE Exiting
  <2>1. CASE Exit
    <3>1. CASE atExit
      BY <2>1, <3>1 DEF Exit, TypeOK
    <3>2. CASE ~atExit
      BY <2>1, <3>2 DEF Exit, TypeOK
    <3> QED
      BY <3>1, <3>2
  <2>2. CASE Clean
    <3>1. iter \in Nat /\ iter + 1 \in Nat
      BY DEF TypeOK
    <3> QED
      BY <2>2, <3>1, <1>3, <1>4 DEF Clean, TypeOK
  <2>3. CASE Cleaned
    BY <2>3 DEF Cleaned, TypeOK
  <2> QED
    BY <1>5, <2>1, <2>2, <2>3 DEF Exiting
<1>6. CASE Signal \/ GdbFails
  <2>1. disk' \subseteq disk /\ handler' \in {handler, "caught"}
    BY <1>6 DEF Signal, GdbFails
  <2>2. UNCHANGED <<keep, created, pc, iter, spawned, ever, list, freed, misused,
                    handlerIter, in_cleanup_routine, status, atExit, child, childIter,
                    shares, inherited, output, torn>>
    BY <1>6 DEF Signal, GdbFails, Still
  <2> HIDE DEF IInv
  <2>3. TypeOK
    BY DEF IInv
  <2> QED
    BY <2>1, <2>2, <2>3 DEF TypeOK
<1>7. CASE Handling
  <2>1. CASE Raise
    BY <2>1 DEF Raise, Still, TypeOK
  <2>3. CASE Caught
    <3>1. CASE in_cleanup_routine
      BY <2>3, <3>1 DEF Caught, Still, TypeOK
    <3>2. CASE ~in_cleanup_routine
      BY <2>3, <3>2 DEF Caught, Still, TypeOK
    <3> QED
      BY <3>1, <3>2
  <2>2. CASE HandlerCleans
    <3>1. handlerIter \in Nat /\ handlerIter + 1 \in Nat
      BY DEF TypeOK
    <3> QED
      <4>1. CASE /\ CleanNode(handlerIter)
                 /\ handlerIter' = handlerIter + 1
                 /\ UNCHANGED <<handler, in_cleanup_routine>>
        BY <2>2, <4>1, <3>1, <1>3 DEF HandlerCleans, Still, TypeOK
      <4>2. CASE /\ CleanedAll(handlerIter)
                 /\ handler' = "raise"
                 /\ in_cleanup_routine' = FALSE
                 /\ UNCHANGED handlerIter
        <5>1. /\ disk' \subseteq Names /\ list' \in Seq(Nodes)
              /\ freed' \in 0..Len(list') /\ misused' \in BOOLEAN
          BY <4>2, <3>1, <1>4
        <5>2. in_cleanup_routine' \in BOOLEAN /\ handler' = "raise" /\ handlerIter' \in Nat
          BY <4>2, <3>1
        <5>3. UNCHANGED <<keep, created, pc, iter, spawned, ever, atExit, child,
                          childIter, torn, shares, inherited, output, status>>
          BY <2>2 DEF HandlerCleans, Still
        <5> QED
          BY <5>1, <5>2, <5>3 DEF TypeOK
      <4> QED
        BY <2>2, <4>1, <4>2 DEF HandlerCleans
  <2> QED
    BY <1>7, <2>1, <2>2, <2>3 DEF Handling
<1>8. CASE Child
  <2>1. CASE ChildExecutes \/ ChildSignal \/ ChildEnds
    BY <2>1 DEF ChildExecutes, ChildSignal, ChildEnds, NoCleanup, Alone, Unexecuted, TypeOK
  <2>2. CASE ChildWrites
    BY <2>2 DEF ChildWrites, Alone, TypeOK, Unexecuted
  <2>3. CASE ChildBegins
    <3>1. in_cleanup_routine' \in BOOLEAN
      BY <2>3 DEF ChildBegins
    <3>2. atExit' \in BOOLEAN
      BY <2>3 DEF ChildBegins, TypeOK
    <3>3. child' = "clean" /\ childIter' = 1
      BY <2>3 DEF ChildBegins
    <3>4. UNCHANGED <<keep, created, pc, iter, spawned, ever, handler, handlerIter, shares,
                      inherited, output, status, disk, list, freed, misused, torn>>
      BY <2>3 DEF ChildBegins, Alone
    <3> HIDE DEF IInv
    <3>5. TypeOK
      BY DEF IInv
    <3> QED
      BY <3>1, <3>2, <3>3, <3>4, <3>5 DEF TypeOK, Unexecuted
  <2>4. CASE ChildCleaned \/ ChildDies
    <3>1. in_cleanup_routine' \in BOOLEAN
      BY <2>4 DEF ChildCleaned, ChildDies, TypeOK
    <3>2. torn' \in BOOLEAN
      BY <2>4 DEF ChildCleaned, ChildDies, TypeOK
    <3>3. child' = "failed"
      BY <2>4 DEF ChildCleaned, ChildDies
    <3>4. UNCHANGED <<keep, created, pc, iter, spawned, ever, handler, handlerIter, shares,
                      inherited, output, status, disk, list, freed, misused, childIter,
                      atExit>>
      BY <2>4 DEF ChildCleaned, ChildDies, NoCleanup, Alone
    <3> HIDE DEF IInv
    <3>5. TypeOK
      BY DEF IInv
    <3> QED
      BY <3>1, <3>2, <3>3, <3>4, <3>5 DEF TypeOK
  <2>5. CASE ChildCleans
    <3>1. childIter \in Nat /\ childIter + 1 \in Nat
      BY DEF TypeOK
    <3>2. /\ disk' \subseteq Names /\ list' \in Seq(Nodes)
          /\ freed' \in 0..Len(list') /\ misused' \in BOOLEAN
      BY <2>5, <3>1, <1>3, <1>4 DEF ChildCleans, TypeOK
    <3>3. child' \in {"clean", "cleaned"} /\ childIter' \in Nat
      BY <2>5, <3>1 DEF ChildCleans
    <3> QED
      BY <2>5, <3>2, <3>3 DEF ChildCleans, Alone, Unexecuted, TypeOK
  <2> QED
    BY <1>8, <2>1, <2>2, <2>3, <2>4, <2>5 DEF Child
<1> QED
  BY <1>1, <1>2, <1>5, <1>6, <1>7, <1>8 DEF Next

\* Every step keeps the control.
LEMMA ControlStep == IInv /\ [Next]_vars => Control'
<1> SUFFICES ASSUME IInv, [Next]_vars PROVE Control'
  OBVIOUS
<1>0. TypeOK /\ Control
  BY DEF IInv
<1> USE DEF driver, Untouched, NoSpawn, NoClean, At, Goto, Running,
            Control, ChildInv, CleanInv, EndInv, NumberInv, Creating, InDriver, Unexecuted
<1>1. CASE UNCHANGED vars
  BY <1>0, <1>1 DEF vars
<1>2. CASE Compile
  <2>1. CASE Create
    BY <1>0, <2>1 DEF Create, TypeOK
  <2>7. CASE Link
    BY <1>0, <2>7 DEF Link
  <2>9. CASE Unlink
    BY <1>0, <2>9 DEF Unlink
  <2>10. CASE Finish
    BY <1>0, <2>10 DEF Finish
  <2>2. CASE Enlist
    BY <1>0, <2>2 DEF Enlist
  <2>8. CASE Rename
    BY <1>0, <2>8 DEF Rename
  <2>3. CASE Spawn
    BY <1>0, <2>3 DEF Spawn, TypeOK
  <2>4. CASE Waited
    BY <1>0, <2>4 DEF Waited, TypeOK
  <2>5. ASSUME NEW o \in Others, Write(o) PROVE Control'
    BY <1>0, <2>5 DEF Write, TypeOK
  <2>6. ASSUME NEW o \in Others, NEW temp \in BOOLEAN, Mark(o, temp) PROVE Control'
    BY <1>0, <2>6 DEF Mark, AddToList, TypeOK
  <2> QED
    BY <1>2, <2>1, <2>2, <2>3, <2>4, <2>5, <2>6, <2>7, <2>8,
       <2>9, <2>10 DEF Compile
<1>3. CASE Exiting
  <2>1. CASE Exit
    BY <1>0, <2>1 DEF Exit, TypeOK
  <2>2. CASE Clean
    BY <1>0, <2>2 DEF Clean, CleanNode, CleanedAll, TypeOK
  <2>3. CASE Cleaned
    BY <1>0, <2>3 DEF Cleaned, TypeOK
  <2> QED
    BY <1>3, <2>1, <2>2, <2>3 DEF Exiting
<1>4. CASE Signal \/ GdbFails
  BY <1>0, <1>4 DEF Signal, GdbFails, Still, TypeOK
<1>5. CASE Handling
  <2>1. CASE Caught \/ Raise
    BY <1>0, <2>1 DEF Caught, Raise, Still, TypeOK
  <2>2. CASE HandlerCleans
    <3>0. freed = handlerIter - 1 /\ handlerIter \in Nat /\ pc \notin {"clean", "cleaned"}
      BY <1>0, <2>2 DEF HandlerCleans, TypeOK
    <3>1. CASE /\ CleanNode(handlerIter)
               /\ handlerIter' = handlerIter + 1
               /\ UNCHANGED <<handler, in_cleanup_routine>>
      <4>1. freed' = handlerIter' - 1 /\ handler' = "clean" /\ UNCHANGED <<list, in_cleanup_routine>>
        BY <2>2, <3>0, <3>1 DEF HandlerCleans, CleanNode
      <4>2. ~misused'
        <5>1. ~(handlerIter <= freed)
          BY <3>0
        <5>2. misused' = (misused \/ handlerIter <= freed)
          BY <3>1 DEF CleanNode
        <5>3. ~misused
          BY <1>0, <3>0
        <5> QED
          BY <5>1, <5>2, <5>3, Zenon
      <4>3. UNCHANGED <<pc, iter, created, status, atExit, child, childIter, torn, shares,
                        output>>
        BY <2>2 DEF HandlerCleans, Still
      <4> QED
        BY <1>0, <2>2, <3>0, <4>1, <4>2, <4>3 DEF HandlerCleans
    <3>2. CASE /\ CleanedAll(handlerIter)
               /\ handler' = "raise"
               /\ in_cleanup_routine' = FALSE
               /\ UNCHANGED handlerIter
      BY <1>0, <2>2, <3>0, <3>2 DEF HandlerCleans, CleanedAll, Still
    <3> QED
      BY <2>2, <3>1, <3>2 DEF HandlerCleans
  <2> QED
    BY <1>5, <2>1, <2>2 DEF Handling
<1>6. CASE Child
  <2>1. CASE ChildExecutes \/ ChildSignal \/ ChildEnds \/ ChildWrites
    BY <1>0, <2>1 DEF ChildExecutes, ChildSignal, ChildEnds, ChildWrites, NoCleanup, Alone, TypeOK
  <2>2. CASE ChildBegins
    <3>1. CASE shares
      BY <1>0, <2>2, <3>1 DEF ChildBegins, Alone, TypeOK
    <3>2. CASE ~shares
      BY <1>0, <2>2, <3>2 DEF ChildBegins, Alone, TypeOK
    <3> QED
      BY <3>1, <3>2
  <2>3. CASE ChildCleans
    <3>1. CASE ~shares
      BY <1>0, <2>3, <3>1 DEF ChildCleans, Alone, TypeOK
    <3>2. CASE shares
      <4>1. /\ pc = "wait" /\ handler = "none" /\ ~torn /\ ~misused
            /\ freed = childIter - 1 /\ childIter \in Nat
        BY <1>0, <2>3, <3>2 DEF ChildCleans, TypeOK
      <4>2. CASE CleanNode(childIter) /\ childIter' = childIter + 1 /\ UNCHANGED child
        <5>1. ~(childIter <= freed)
          BY <4>1
        <5>2. ~misused'
          BY <4>1, <4>2, <5>1, Zenon DEF CleanNode
        <5>3. freed' = childIter' - 1
          BY <4>1, <4>2 DEF CleanNode
        <5> QED
          BY <1>0, <2>3, <3>2, <4>1, <4>2, <5>2, <5>3 DEF ChildCleans, CleanNode, Alone
      <4>3. CASE CleanedAll(childIter) /\ child' = "cleaned" /\ UNCHANGED childIter
        BY <1>0, <2>3, <3>2, <4>1, <4>3 DEF ChildCleans, CleanedAll, Alone
      <4> QED
        BY <2>3, <3>2, <4>2, <4>3 DEF ChildCleans
    <3> QED
      BY <3>1, <3>2
  <2>4. CASE ChildCleaned
    BY <1>0, <2>4 DEF ChildCleaned, NoCleanup, Alone, TypeOK
  <2>5. CASE ChildDies
    BY <1>0, <2>5 DEF ChildDies, NoCleanup, Alone, TypeOK
  <2> QED
    BY <1>6, <2>1, <2>2, <2>3, <2>4, <2>5 DEF Child
<1> QED
  BY <1>1, <1>2, <1>3, <1>4, <1>5, <1>6 DEF Next

-----------------------------------------------------------------------------
(* What is on the disk: the steps of the driver *)

\* No number of a temporary file is one of the others.
LEMMA OthersApart == Others \cap Temporaries = {}
BY BoundsAssumption, OthersAssumption DEF Temporaries

\* What is listed while the list is intact has been listed, and is left.
LEMMA IntactLeft ==
  ASSUME IInv, Intact
  PROVE  freed = 0 /\ Left = Listed
<1>1. freed = 0
  BY DEF IInv, Control, ChildInv, CleanInv, InDriver, Intact, Compiling
<1> QED
  BY <1>1, AllLeft DEF IInv, TypeOK

\* Whether a node is kept never changes.
LEMMA KeptStays ==
  ASSUME [Next]_vars
  PROVE  keep' = keep /\ \A node : Kept(node)' = Kept(node)
<1>1. keep' = keep
  BY DEF Next, vars, driver, Compile, Create, Enlist, Link, Unlink, Rename, Spawn,
         Waited, Finish, Write, Mark, Exiting, Exit, Clean, Cleaned, Signal, GdbFails,
         Handling, Caught, HandlerCleans, Raise, Child, ChildExecutes, ChildSignal,
         ChildBegins, ChildCleans, ChildCleaned, ChildDies, ChildWrites, ChildEnds,
         Untouched, Still, Alone
<1> QED
  BY <1>1 DEF Kept

\* Creating the file.
LEMMA CreateFiles == IInv /\ Create => Files'
<1> SUFFICES ASSUME IInv, Create PROVE Files'
  OBVIOUS
<1> USE DEF At, Goto, Running, Untouched, NoSpawn, NoClean
<1>1. TypeOK /\ Files
  BY DEF IInv
<1>2. freed = 0 /\ Left = Listed
  <2>1. Intact
    BY DEF IInv, Control, ChildInv, Intact, Compiling, Create
  <2> QED
    BY <2>1, IntactLeft
<1>3. UNCHANGED <<keep, list, freed, ever, inherited, child, shares, output, handler>>
  BY DEF Create
<1>4. Left' = Left /\ Listed' = Listed
  BY <1>3 DEF Left, Listed
<1>5. \A node \in ever : node.name # <<created', FALSE>> /\ node.name # <<created', TRUE>>
  <2>1. created \in Nat /\ created' = created + 1 /\ created' \in 1..MaxFiles
    BY <1>1, BoundsAssumption DEF Create, TypeOK
  <2>2. ASSUME NEW node \in ever, NEW b \in BOOLEAN, node.name = <<created', b>> PROVE FALSE
    <3>1. node.name \in Temporaries /\ node.name[1] = created + 1
      BY <2>1, <2>2, TempNames
    <3> QED
      BY <1>1, <2>1, <3>1 DEF Files, EverInv
  <2> QED
    BY <2>2
<1>6. Accounted'
  BY <1>1, <1>3, <1>4, <1>5 DEF Files, Accounted, Create, Kept
<1>7. TempsListed'
  BY <1>1, <1>3 DEF Files, TempsListed, Create, Unlisted
<1>8. EverInv'
  <2>1. created \in Nat /\ created' = created + 1 /\ pc' = "made"
    BY <1>1 DEF Create, TypeOK
  <2>2. /\ Listed' \subseteq ever'
        /\ output' \in {n.name : n \in ever'} \cup {NoFile}
    BY <1>1, <1>3, <1>4 DEF Files, EverInv
  <2>3. ASSUME NEW node \in ever, node.name \in Temporaries
        PROVE  node.temp /\ node.name[1] <= created'
    <3>1. node.temp /\ node.name[1] <= created
      BY <1>1, <2>3 DEF Files, EverInv
    <3>2. node.name[1] \in Nat
      BY <2>3, BoundsAssumption DEF Temporaries
    <3> QED
      BY <3>1, <3>2, <2>1
  <2> QED
    BY <1>3, <1>5, <2>1, <2>2, <2>3 DEF EverInv, Ahead
<1>9. ListInv'
  BY <1>1, <1>3, <1>4 DEF Files, ListInv, Intact, Create, Compiling, Creating
<1> QED
  BY <1>6, <1>7, <1>8, <1>9 DEF Files

\* A node listed under a name that is not in the list.
LEMMA AddedFiles ==
  ASSUME IInv, Intact, NEW node \in Nodes, AddToList(node), UNCHANGED freed,
         \A m \in Listed : m.name # node.name
  PROVE  /\ freed' = 0
         /\ Listed' = Listed \cup {node}
         /\ Left' = Left \cup {node}
         /\ list' # << >> /\ list'[1] = node
         /\ \A i, j \in DOMAIN list' : list'[i].name = list'[j].name => i = j
<1>1. TypeOK /\ freed = 0 /\ Left = Listed
  BY IntactLeft DEF IInv, Intact, Compiling
<1>2. /\ list' \in Seq(Nodes)
      /\ Len(list') = Len(list) + 1
      /\ list'[1] = node
      /\ \A i \in DOMAIN list : list'[i + 1] = list[i]
      /\ \A i \in DOMAIN list' : i # 1 => i - 1 \in DOMAIN list /\ list'[i] = list[i - 1]
  BY <1>1, Pushed DEF TypeOK, AddToList
<1>3. DOMAIN list = 1..Len(list) /\ DOMAIN list' = 1..Len(list') /\ Len(list) \in Nat
  BY <1>1, <1>2 DEF TypeOK
<1>4. Listed' = Listed \cup {node}
  <2>1. ASSUME NEW m \in Listed PROVE m \in Listed'
    <3>1. PICK i \in DOMAIN list : m = list[i]
      BY DEF Listed
    <3>2. i + 1 \in DOMAIN list' /\ list'[i + 1] = m
      BY <3>1, <1>2, <1>3
    <3> QED
      BY <3>2 DEF Listed
  <2>2. node \in Listed'
    <3>1. 1 \in DOMAIN list'
      BY <1>2, <1>3
    <3> QED
      BY <3>1, <1>2 DEF Listed
  <2>3. ASSUME NEW m \in Listed' PROVE m \in Listed \cup {node}
    <3>1. PICK i \in DOMAIN list' : m = list'[i]
      BY DEF Listed
    <3>2. CASE i = 1
      BY <3>1, <3>2, <1>2
    <3>3. CASE i # 1
      BY <3>1, <3>3, <1>2 DEF Listed
    <3> QED
      BY <3>2, <3>3
  <2> QED
    BY <2>1, <2>2, <2>3
<1>5. Left' = Listed'
  BY <1>1, <1>2, <1>3 DEF Left, Listed
<1>6. ASSUME NEW i \in DOMAIN list', NEW j \in DOMAIN list', list'[i].name = list'[j].name
      PROVE  i = j
  <2>1. \A k \in DOMAIN list' : k # 1 => list'[k] \in Listed
    BY <1>2 DEF Listed
  <2>2. CASE i = 1 \/ j = 1
    BY <2>1, <2>2, <1>2, <1>6
  <2>3. CASE i # 1 /\ j # 1
    <3>1. i - 1 = j - 1
      BY <2>3, <1>2, <1>6 DEF IInv, Files, ListInv
    <3> QED
      BY <3>1, <1>3
  <2> QED
    BY <2>2, <2>3
<1>7. list' # << >>
  BY <1>2, <1>3
<1> QED
  BY <1>1, <1>2, <1>4, <1>5, <1>6, <1>7

\* Listing the file.
LEMMA EnlistFiles == IInv /\ Enlist => Files'
<1> SUFFICES ASSUME IInv, Enlist PROVE Files'
  OBVIOUS
<1> USE DEF At, Goto, Running, Untouched, NoSpawn, NoClean
<1> DEFINE node == [name |-> <<created, FALSE>>, temp |-> TRUE]
<1>1. TypeOK /\ Files /\ created \in 1..MaxFiles
  BY DEF IInv, Control, NumberInv, Enlist, TypeOK
<1>2. Intact /\ Left = Listed
  BY IntactLeft DEF IInv, Control, ChildInv, Intact, Compiling, Enlist
<1>3. node \in Nodes /\ node.name \in Temporaries /\ node.name = <<created, FALSE>> /\ node.temp
  BY <1>1, TempNames DEF Nodes
<1>4. \A m \in ever : m.name # node.name /\ m.name # <<created, TRUE>>
  BY <1>1 DEF Files, EverInv, Ahead, Enlist
<1>5. \A m \in Listed : m \in ever
  BY <1>1, <1>2 DEF Files, EverInv
<1>6. AddToList(node) /\ ever' = ever \cup {node}
  BY DEF Enlist, AddToList
<1>7. UNCHANGED <<keep, disk, freed, inherited, child, shares, output, handler, created>>
  BY DEF Enlist
<1>8. /\ Listed' = Listed \cup {node} /\ Left' = Left \cup {node}
      /\ list' # << >> /\ list'[1] = node
      /\ \A i, j \in DOMAIN list' : list'[i].name = list'[j].name => i = j
  BY <1>2, <1>3, <1>4, <1>5, <1>6, <1>7, AddedFiles
<1>9. pc = "made" /\ pc' \in {"compile", "link"}
  BY DEF Enlist
<1> HIDE DEF node
<1>10. Accounted'
  BY <1>1, <1>6, <1>7, <1>8 DEF Files, Accounted, Kept
<1>11. TempsListed'
  BY <1>1, <1>6, <1>7, <1>9 DEF Files, TempsListed, Unlisted, node
<1>12. EverInv'
  <2>1. node.name # <<created, TRUE>> /\ node.name[1] = created
    BY <1>3
  <2>2. \A m \in ever' : m.name \notin Ahead'
    BY <1>4, <1>6, <1>7, <1>9, <2>1 DEF Ahead, Creating
  <2>3. \A m \in ever' : m.name \in Temporaries => m.temp /\ m.name[1] <= created'
    BY <1>1, <1>3, <1>6, <1>7, <2>1 DEF Files, EverInv
  <2>4. Listed' \subseteq ever'
    BY <1>1, <1>6, <1>7, <1>8 DEF Files, EverInv
  <2>5. output' \in {n.name : n \in ever'} \cup {NoFile}
    BY <1>1, <1>6, <1>7 DEF Files, EverInv
  <2> QED
    BY <2>2, <2>3, <2>4, <2>5 DEF EverInv
<1>13. ListInv'
  <2>1. \A m \in ever' \ Listed' : /\ m.name \in Temporaries
                                   /\ \A n \in Listed' : n.name # m.name
    BY <1>1, <1>2, <1>4, <1>6, <1>8 DEF Files, ListInv
  <2>2. child' = "none"
    BY <1>7, <1>9 DEF IInv, Control, ChildInv
  <2> QED
    BY <1>7, <1>8, <1>9, <2>1, <2>2 DEF ListInv, Creating, node
<1> QED
  BY <1>10, <1>11, <1>12, <1>13 DEF Files

\* The second name of the file, and the end of the first.
LEMMA LinkFiles == IInv /\ Link => Files'
<1> SUFFICES ASSUME IInv, Link PROVE Files'
  OBVIOUS
<1> USE DEF At, Goto, Running, Untouched, NoSpawn, NoClean
<1>1. UNCHANGED <<keep, list, freed, ever, inherited, child, shares, output, handler, created>>
  BY DEF Link
<1>2. Left' = Left /\ Listed' = Listed
  BY <1>1 DEF Left, Listed
<1>3. Files /\ pc = "link"
  BY DEF IInv, Link
<1>4. \A m \in ever : m.name # <<created, TRUE>>
  BY <1>3 DEF Files, EverInv, Ahead, Creating
<1>5. \/ disk' = disk \cup {<<created, TRUE>>} /\ pc' = "unlink"
      \/ disk' = disk /\ pc' = "exit"
  BY DEF Link
<1>6. Accounted'
  BY <1>1, <1>2, <1>3, <1>4, <1>5 DEF Files, Accounted, Kept
<1>7. TempsListed'
  BY <1>1, <1>3, <1>5 DEF Files, TempsListed, Unlisted
<1>8. EverInv'
  BY <1>1, <1>2, <1>3, <1>4, <1>5 DEF Files, EverInv, Ahead, Creating
<1>9. ListInv'
  BY <1>1, <1>2, <1>3, <1>5 DEF Files, ListInv, Intact, Creating, Compiling
<1> QED
  BY <1>6, <1>7, <1>8, <1>9 DEF Files

LEMMA UnlinkFiles == IInv /\ Unlink => Files'
<1> SUFFICES ASSUME IInv, Unlink PROVE Files'
  OBVIOUS
<1> USE DEF At, Goto, Running, Untouched, NoSpawn, NoClean
<1>1. UNCHANGED <<keep, list, freed, ever, inherited, child, shares, output, handler, created>>
  BY DEF Unlink
<1>2. Left' = Left /\ Listed' = Listed
  BY <1>1 DEF Left, Listed
<1>3. Files /\ pc = "unlink" /\ pc' = "rename" /\ disk' = disk \ {<<created, FALSE>>}
  BY DEF IInv, Unlink
<1>4. Accounted'
  BY <1>1, <1>2, <1>3 DEF Files, Accounted, Kept
<1>5. TempsListed'
  BY <1>1, <1>3 DEF Files, TempsListed, Unlisted
<1>6. EverInv'
  BY <1>1, <1>2, <1>3 DEF Files, EverInv, Ahead, Creating
<1>7. ListInv'
  BY <1>1, <1>2, <1>3 DEF Files, ListInv, Intact, Creating, Compiling
<1> QED
  BY <1>4, <1>5, <1>6, <1>7 DEF Files

\* The list gets the name with the extension.
LEMMA RenameFiles == IInv /\ Rename => Files'
<1> SUFFICES ASSUME IInv, Rename PROVE Files'
  OBVIOUS
<1> USE DEF At, Goto, Running, Untouched, NoSpawn, NoClean
<1> DEFINE first == [name |-> <<created, FALSE>>, temp |-> TRUE]
<1> DEFINE node == [name |-> <<created, TRUE>>, temp |-> TRUE]
<1>1. TypeOK /\ Files /\ created \in 1..MaxFiles
  BY DEF IInv, Control, NumberInv, Rename, TypeOK, Creating
<1>2. Intact /\ freed = 0 /\ Left = Listed
  BY IntactLeft DEF IInv, Control, ChildInv, Intact, Compiling, Rename
<1>3. /\ node \in Nodes /\ node.name \in Temporaries
      /\ node.name = <<created, TRUE>> /\ node.temp /\ node.name[1] = created
  BY <1>1, TempNames DEF Nodes
<1>4. /\ first.name \in Temporaries /\ first.name = <<created, FALSE>>
      /\ first.name # node.name
  BY <1>1, TempNames
<1>5. /\ ever' = ever \cup {node} /\ list' = [list EXCEPT ![1] = node]
      /\ pc = "rename" /\ pc' = "compile"
      /\ UNCHANGED <<keep, disk, freed, inherited, child, shares, output, handler, created>>
  BY DEF Rename
<1> HIDE DEF node
<1>6. \A m \in ever : m.name # node.name
  BY <1>1, <1>3, <1>5 DEF Files, EverInv, Ahead, Creating
<1>7. /\ list # << >> /\ list[1] = first /\ first.name \notin disk
      /\ \A i, j \in DOMAIN list : list[i].name = list[j].name => i = j
  BY <1>1, <1>2, <1>4, <1>5 DEF Files, ListInv, Creating
<1>8. /\ list' \in Seq(Nodes) /\ Len(list') = Len(list)
      /\ \A i \in DOMAIN list : list'[i] = IF i = 1 THEN node ELSE list[i]
  BY <1>1, <1>3, <1>5, Replaced DEF TypeOK
<1>9. /\ DOMAIN list = 1..Len(list) /\ DOMAIN list' = 1..Len(list)
      /\ Len(list) \in Nat /\ 1 \in DOMAIN list
  BY <1>1, <1>7, <1>8 DEF TypeOK
<1> HIDE DEF first
<1>10. Listed' = (Listed \ {first}) \cup {node}
  <2>1. ASSUME NEW m \in Listed, m # first PROVE m \in Listed'
    <3>1. PICK i \in DOMAIN list : m = list[i]
      BY DEF Listed
    <3>2. i # 1
      BY <3>1, <2>1, <1>7
    <3>3. i \in DOMAIN list' /\ list'[i] = m
      BY <3>1, <3>2, <1>8, <1>9
    <3> QED
      BY <3>3 DEF Listed
  <2>2. node \in Listed'
    BY <1>8, <1>9 DEF Listed
  <2>3. ASSUME NEW m \in Listed' PROVE m \in (Listed \ {first}) \cup {node}
    <3>1. PICK i \in DOMAIN list' : m = list'[i]
      BY DEF Listed
    <3>2. CASE i = 1
      BY <3>1, <3>2, <1>8, <1>9
    <3>3. CASE i # 1
      <4>1. m = list[i] /\ i \in DOMAIN list
        BY <3>1, <3>3, <1>8, <1>9
      <4>2. m # first
        BY <4>1, <3>3, <1>7, <1>9
      <4> QED
        BY <4>1, <4>2 DEF Listed
    <3> QED
      BY <3>2, <3>3
  <2> QED
    BY <2>1, <2>2, <2>3
<1>11. Left' = Listed'
  BY <1>2, <1>5, <1>8, <1>9 DEF Left, Listed
<1>12. \A m \in Listed : m \in ever
  BY <1>1, <1>2 DEF Files, EverInv
<1>13. first \in Listed
  BY <1>7, <1>9 DEF Listed
<1>14. Accounted'
  BY <1>1, <1>2, <1>5, <1>7, <1>10, <1>11 DEF Files, Accounted, Kept
<1>15. TempsListed'
  BY <1>1, <1>5 DEF Files, TempsListed, Unlisted, node
<1>16. EverInv'
  <2>1. \A m \in ever' : m.name \notin Ahead'
    BY <1>5 DEF Ahead, Creating
  <2>2. \A m \in ever' : m.name \in Temporaries => m.temp /\ m.name[1] <= created'
    BY <1>1, <1>3, <1>5 DEF Files, EverInv
  <2>3. Listed' \subseteq ever'
    BY <1>1, <1>5, <1>10, <1>12 DEF Files, EverInv
  <2>4. output' \in {n.name : n \in ever'} \cup {NoFile}
    BY <1>1, <1>5 DEF Files, EverInv
  <2> QED
    BY <2>1, <2>2, <2>3, <2>4 DEF EverInv
<1>17. ListInv'
  <2>1. ASSUME NEW i \in DOMAIN list', NEW j \in DOMAIN list', list'[i].name = list'[j].name
        PROVE  i = j
    <3>1. \A k \in DOMAIN list : list[k].name # node.name
      BY <1>6, <1>12 DEF Listed
    <3> QED
      BY <2>1, <3>1, <1>7, <1>8, <1>9
  <2>2. ASSUME NEW m \in Listed, m # first PROVE m.name # first.name
    <3>1. PICK i \in DOMAIN list : m = list[i]
      BY DEF Listed
    <3> QED
      BY <2>2, <3>1, <1>7, <1>9
  <2>3. \A m \in ever' \ Listed' : /\ m.name \in Temporaries
                                   /\ \A n \in Listed' : n.name # m.name
    <3> SUFFICES ASSUME NEW m \in ever' \ Listed'
                 PROVE  m.name \in Temporaries /\ \A n \in Listed' : n.name # m.name
      OBVIOUS
    <3>1. m \in ever /\ m # node
      BY <1>5, <1>10
    <3>2. CASE m = first
      BY <3>2, <1>4, <1>10, <2>2
    <3>3. CASE m # first
      <4>1. m \in ever \ Listed
        BY <3>1, <3>3, <1>10
      <4> QED
        BY <3>1, <4>1, <1>1, <1>2, <1>6, <1>10 DEF Files, ListInv
    <3> QED
      BY <3>2, <3>3
  <2>4. child' = "none"
    BY <1>5 DEF IInv, Control, ChildInv
  <2> QED
    BY <1>5, <2>1, <2>3, <2>4 DEF ListInv, Creating
<1> QED
  BY <1>14, <1>15, <1>16, <1>17 DEF Files

\* A file of the compilation is written, or marked.
LEMMA WriteFiles == ASSUME IInv, NEW o \in Others, Write(o) PROVE Files'
<1> USE DEF At, Goto, Running, Untouched, NoSpawn, NoClean
<1>1. UNCHANGED <<keep, list, freed, ever, inherited, child, shares, output, handler, created, pc>>
  BY DEF Write
<1>2. Left' = Left /\ Listed' = Listed
  BY <1>1 DEF Left, Listed
<1>3. Files /\ pc = "compile" /\ disk' = disk \cup {o} /\ o \notin Temporaries
  BY OthersApart DEF IInv, Write
<1>4. Intact /\ Left = Listed
  BY IntactLeft DEF IInv, Control, ChildInv, Intact, Compiling, Write
<1>5. \A m \in ever : m.name = o => m \in Left
  BY <1>3, <1>4 DEF Files, ListInv
<1>6. Accounted'
  BY <1>1, <1>2, <1>3, <1>5 DEF Files, Accounted, Kept
<1>7. TempsListed'
  BY <1>1, <1>3 DEF Files, TempsListed, Unlisted
<1>8. EverInv'
  BY <1>1, <1>2, <1>3 DEF Files, EverInv, Ahead
<1>9. ListInv'
  BY <1>1, <1>2, <1>3 DEF Files, ListInv, Intact
<1> QED
  BY <1>6, <1>7, <1>8, <1>9 DEF Files

LEMMA MarkFiles ==
  ASSUME IInv, NEW o \in Others, NEW temp \in BOOLEAN, Mark(o, temp)
  PROVE  Files'
<1> USE DEF At, Goto, Running, Untouched, NoSpawn, NoClean
<1> DEFINE node == [name |-> o, temp |-> temp]
<1>1. /\ UNCHANGED <<keep, disk, freed, inherited, child, shares, output, handler, created, pc>>
      /\ pc = "compile" /\ Files
      /\ AddToList(node) /\ ever' = ever \cup {node}
      /\ \A m \in Listed : m.name # node.name
  BY DEF IInv, Mark, AddToList
<1>2. node \in Nodes /\ node.name \notin Temporaries
  BY OthersApart DEF Nodes, Names
<1> HIDE DEF node
<1>3. Intact /\ Left = Listed
  BY <1>1, IntactLeft DEF IInv, Control, ChildInv, Intact, Compiling, Mark
<1>4. /\ Listed' = Listed \cup {node} /\ Left' = Left \cup {node}
      /\ \A i, j \in DOMAIN list' : list'[i].name = list'[j].name => i = j
  BY <1>1, <1>2, <1>3, AddedFiles
<1>5. Accounted'
  BY <1>1, <1>4 DEF Files, Accounted, Kept
<1>6. TempsListed'
  BY <1>1 DEF Files, TempsListed, Unlisted
<1>7. EverInv'
  BY <1>1, <1>2, <1>4 DEF Files, EverInv, Ahead, Creating
<1>8. ListInv'
  <2>1. \A m \in ever' \ Listed' : /\ m.name \in Temporaries
                                   /\ \A n \in Listed' : n.name # m.name
    BY <1>1, <1>2, <1>3, <1>4 DEF Files, ListInv
  <2>2. child' = "none"
    BY <1>1 DEF IInv, Control, ChildInv
  <2> QED
    BY <1>1, <1>4, <2>1, <2>2 DEF ListInv, Creating
<1> QED
  BY <1>5, <1>6, <1>7, <1>8 DEF Files

\* A process is spawned, and waited for.
LEMMA SpawnFiles == IInv /\ Spawn => Files'
<1> SUFFICES ASSUME IInv, Spawn PROVE Files'
  OBVIOUS
<1> USE DEF At, Goto, Running, Untouched, NoSpawn, NoClean
<1>1. /\ UNCHANGED <<keep, disk, list, freed, ever, handler, created>>
      /\ pc = "compile" /\ pc' = "wait" /\ child' = "born" /\ inherited' = list
      /\ output' \in {node.name : node \in Listed} \cup {NoFile}
      /\ handler = "none" /\ Files
  BY DEF IInv, Spawn
<1>2. Left' = Left /\ Listed' = Listed
  BY <1>1 DEF Left, Listed
<1>3. Intact /\ Left = Listed
  BY <1>1, IntactLeft DEF IInv, Control, ChildInv, Intact, Compiling
<1>4. Accounted'
  BY <1>1, <1>2 DEF Files, Accounted, Kept
<1>5. TempsListed'
  BY <1>1 DEF Files, TempsListed, Unlisted
<1>6. EverInv'
  BY <1>1, <1>2, <1>3 DEF Files, EverInv, Ahead, Creating
<1>7. ListInv'
  BY <1>1, <1>2, <1>3 DEF Files, ListInv, Creating
<1> QED
  BY <1>4, <1>5, <1>6, <1>7 DEF Files

LEMMA WaitedFiles == IInv /\ Waited => Files'
<1> SUFFICES ASSUME IInv, Waited PROVE Files'
  OBVIOUS
<1> USE DEF At, Goto, Running, Untouched, NoSpawn, NoClean
<1>1. /\ UNCHANGED <<keep, disk, list, freed, ever, handler, created, shares>>
      /\ pc = "wait" /\ child' = "none" /\ output' = NoFile
      /\ handler = "none" /\ Files
      /\ \/ child = "succeeded" /\ pc' = "compile"
         \/ pc' = "exit"
         \/ ~shares /\ pc' = "compile"
  BY DEF IInv, Waited
<1>2. Left' = Left /\ Listed' = Listed
  BY <1>1 DEF Left, Listed
<1>3. Accounted'
  BY <1>1, <1>2 DEF Files, Accounted, Kept
<1>4. TempsListed'
  BY <1>1 DEF Files, TempsListed, Unlisted
<1>5. EverInv'
  BY <1>1, <1>2 DEF Files, EverInv, Ahead, Creating
<1>6. ListInv'
  BY <1>1, <1>2 DEF Files, ListInv, Intact, Compiling, Creating
<1> QED
  BY <1>3, <1>4, <1>5, <1>6 DEF Files

-----------------------------------------------------------------------------
(* What is on the disk: the cleanups, and the process spawned *)

\* A step of a cleanup: one more node is deleted, and nothing new is there.
LEMMA CleanNodeFiles ==
  ASSUME TypeOK, Files, NEW i \in Nat, freed >= i - 1, CleanNode(i), UNCHANGED <<keep, ever>>,
         handler' = handler, output' = output
  PROVE  Accounted' /\ disk' \subseteq disk /\ Listed' = Listed
<1>1. i \in DOMAIN list \/ i = 0
  BY DEF CleanNode, TypeOK
<1>2. freed' = i /\ list' = list /\ disk' = disk \ Removed({list[i]})
  BY DEF CleanNode
<1>3. \A node \in Left : node \in Left' \/ node = list[i]
  BY <1>2 DEF Left, TypeOK
<1>4. ~Kept(list[i]) => list[i].name \notin disk'
  BY <1>2 DEF Removed
<1>5. \A node \in ever : Kept(node)' = Kept(node)
  BY DEF Kept
<1>6. Accounted'
  BY <1>2, <1>3, <1>4, <1>5 DEF Files, Accounted
<1> QED
  BY <1>2, <1>6 DEF Listed

\* The end of a cleanup: there was nothing left.
LEMMA CleanedAllFiles ==
  ASSUME TypeOK, Files, NEW i \in Nat, freed >= i - 1, CleanedAll(i),
         UNCHANGED <<keep, ever, output>>,
         handler = "none" => handler' = "none", handler # "none" => handler' # "none"
  PROVE  Accounted' /\ disk' = disk /\ Listed' = {}
<1>1. freed >= Len(list) /\ freed \in Nat /\ list' = << >> /\ freed' = 0 /\ disk' = disk
  BY DEF CleanedAll, TypeOK
<1>2. Left = {}
  BY <1>1, NoneLeft DEF TypeOK
<1>3. Accounted'
  BY <1>1, <1>2 DEF Files, Accounted, Kept
<1> QED
  BY <1>1, <1>3 DEF Listed

\* The exit.
LEMMA ExitingFiles == IInv /\ (Finish \/ Exiting) => Files'
<1> SUFFICES ASSUME IInv, Finish \/ Exiting PROVE Files'
  OBVIOUS
<1> USE DEF At, Goto, Running, Untouched, NoSpawn, NoClean, Exiting
<1>1. TypeOK /\ Files /\ Control
  BY DEF IInv
<1>2. /\ UNCHANGED <<keep, ever, created, child, shares, inherited, output, handler>>
      /\ pc \notin {"made"} \cup Creating /\ pc' \in {"exit", "clean", "cleaned"}
  BY DEF Finish, Exit, Clean, Cleaned, Creating
<1>3. Accounted' /\ disk' \subseteq disk /\ Listed' \subseteq Listed
  <2>1. CASE Finish \/ Exit \/ Cleaned
    <3>1. UNCHANGED <<disk, list, freed>>
      BY <2>1 DEF Finish, Exit, Cleaned
    <3> QED
      BY <1>1, <1>2, <3>1 DEF Files, Accounted, Left, Listed, Kept
  <2>2. CASE Clean
    <3>1. iter \in Nat /\ freed >= iter - 1
      BY <1>1, <2>2 DEF Clean, Control, CleanInv, TypeOK
    <3>2. CASE CleanNode(iter)
      BY <1>1, <1>2, <3>1, <3>2, CleanNodeFiles
    <3>3. CASE CleanedAll(iter)
      BY <1>1, <1>2, <3>1, <3>3, CleanedAllFiles
    <3> QED
      BY <2>2, <3>2, <3>3 DEF Clean
  <2> QED
    BY <2>1, <2>2
<1>4. TempsListed'
  BY <1>1, <1>2, <1>3 DEF Files, TempsListed, Unlisted, Creating
<1>5. EverInv'
  BY <1>1, <1>2, <1>3 DEF Files, EverInv, Ahead, Creating
<1>6. ListInv'
  BY <1>2 DEF ListInv, Intact, Compiling
<1> QED
  BY <1>3, <1>4, <1>5, <1>6 DEF Files

\* The process that the debugger was not executed in.
LEMMA GdbFiles == IInv /\ GdbFails => Files'
<1> SUFFICES ASSUME IInv, GdbFails PROVE Files'
  OBVIOUS
<1>1. Files
  BY DEF IInv
<1>2. /\ UNCHANGED <<keep, ever, created, pc, child, shares, inherited, output, handler,
                     list, freed>>
      /\ disk' \subseteq disk
  BY DEF GdbFails, Still, driver
<1>3. Left' = Left /\ Listed' = Listed
  BY <1>2 DEF Left, Listed
<1>4. Accounted'
  BY <1>1, <1>2, <1>3 DEF Files, Accounted, Kept
<1>5. TempsListed'
  BY <1>1, <1>2 DEF Files, TempsListed, Unlisted
<1>6. EverInv'
  BY <1>1, <1>2, <1>3 DEF Files, EverInv, Ahead
<1>7. ListInv'
  BY <1>1, <1>2, <1>3 DEF Files, ListInv, Intact
<1> QED
  BY <1>4, <1>5, <1>6, <1>7 DEF Files

\* The signal and its handler.
LEMMA HandlingFiles == IInv /\ (Signal \/ Handling) => Files'
<1> SUFFICES ASSUME IInv, Signal \/ Handling PROVE Files'
  OBVIOUS
<1> USE DEF Running, Still, driver, Handling
<1>1. TypeOK /\ Files /\ Control
  BY DEF IInv
<1>2. /\ UNCHANGED <<keep, ever, created, pc, child, shares, inherited, output>>
      /\ handler' # "none"
  BY DEF Signal, Caught, HandlerCleans, Raise, CleanNode, CleanedAll
<1>3. Accounted' /\ disk' \subseteq disk /\ Listed' \subseteq Listed
  <2>1. CASE Signal \/ Caught \/ Raise
    <3>1. UNCHANGED <<list, freed, disk>>
      BY <2>1 DEF Signal, Caught, Raise
    <3>2. handler # "none" => handler' # "none"
      BY <1>2
    <3> QED
      BY <1>1, <1>2, <3>1, <3>2 DEF Files, Accounted, Left, Listed, Kept
  <2>2. CASE HandlerCleans
    <3>1. handlerIter \in Nat /\ freed >= handlerIter - 1 /\ handler = "clean"
      BY <1>1, <2>2 DEF HandlerCleans, Control, CleanInv, TypeOK
    <3>2. CASE CleanNode(handlerIter) /\ UNCHANGED handler
      BY <1>1, <1>2, <3>1, <3>2, CleanNodeFiles
    <3>3. CASE CleanedAll(handlerIter)
      BY <1>1, <1>2, <3>1, <3>3, CleanedAllFiles
    <3> QED
      BY <2>2, <3>2, <3>3 DEF HandlerCleans
  <2> QED
    BY <2>1, <2>2
<1>4. TempsListed'
  BY <1>1, <1>2, <1>3 DEF Files, TempsListed, Unlisted
<1>5. EverInv'
  BY <1>1, <1>2, <1>3 DEF Files, EverInv, Ahead
<1>6. ListInv'
  BY <1>2 DEF ListInv, Intact
<1> QED
  BY <1>3, <1>4, <1>5, <1>6 DEF Files

\* The process spawned.
LEMMA ChildFiles == IInv /\ Child => Files'
<1> SUFFICES ASSUME IInv, Child PROVE Files'
  OBVIOUS
<1> USE DEF Alone, driver, NoCleanup
<1>1. TypeOK /\ Files /\ Control
  BY DEF IInv
<1>2. /\ UNCHANGED <<keep, ever, created, pc, shares, inherited, output, handler>>
      /\ child # "none"
  BY DEF Child, ChildExecutes, ChildSignal, ChildBegins, ChildCleans, ChildCleaned,
         ChildDies, ChildWrites, ChildEnds, Unexecuted
<1>3. pc = "wait"
  BY <1>1, <1>2 DEF Control, ChildInv
<1>4. CASE ChildExecutes \/ ChildSignal \/ ChildBegins \/ ChildCleaned \/ ChildDies \/ ChildEnds
  <2>1. UNCHANGED <<disk, list, freed>>
    BY <1>4 DEF ChildExecutes, ChildSignal, ChildBegins, ChildCleaned, ChildDies, ChildEnds
  <2>2. Left' = Left /\ Listed' = Listed
    BY <2>1 DEF Left, Listed
  <2>3. Accounted' /\ TempsListed' /\ EverInv'
    BY <1>1, <1>2, <2>1, <2>2 DEF Files, Accounted, TempsListed, EverInv, Kept, Unlisted, Ahead
  <2>4. shares /\ child \in {"clean", "cleaned", "failed"}
          => child' \in {"clean", "cleaned", "failed"}
    BY <1>4 DEF ChildExecutes, ChildSignal, ChildBegins, ChildCleaned, ChildDies, ChildEnds
  <2>5. Intact' => Intact
    BY <1>2, <2>4 DEF Intact
  <2>6. ListInv'
    BY <1>1, <1>2, <1>3, <2>1, <2>2, <2>5 DEF Files, ListInv, Creating
  <2> QED
    BY <2>3, <2>6 DEF Files
<1>5. CASE ChildWrites
  <2>1. /\ UNCHANGED <<list, freed, child>> /\ disk' = disk \cup {output} /\ output # NoFile
        /\ shares => child = "running"
        /\ child \in {"running", "born"}
    BY <1>5 DEF ChildWrites
  <2>2. Left' = Left /\ Listed' = Listed
    BY <2>1 DEF Left, Listed
  <2>3. handler = "none" => /\ Intact /\ Left = Listed
                            /\ output \in {node.name : node \in Listed}
    <3>1. handler = "none" => Intact
      BY <1>3, <2>1 DEF Intact, Compiling
    <3> QED
      BY <1>1, <1>2, <2>1, <3>1, IntactLeft DEF Files, ListInv
  <2>4. ASSUME NEW node \in ever, node.name = output, handler = "none" PROVE node \in Left
    BY <1>1, <2>3, <2>4 DEF Files, ListInv
  <2>5. Accounted'
    BY <1>1, <1>2, <2>1, <2>2, <2>4 DEF Files, Accounted, Kept
  <2>6. TempsListed'
    <3>1. output \in Temporaries => [name |-> output, temp |-> TRUE] \in ever
      <4>1. PICK node \in ever : node.name = output
        BY <1>1, <2>1 DEF Files, EverInv
      <4>2. node \in Nodes
        BY <1>1 DEF TypeOK
      <4>3. output \in Temporaries => node.temp = TRUE
        BY <1>1, <4>1, <4>2 DEF Files, EverInv, Nodes
      <4>4. node = [name |-> node.name, temp |-> node.temp]
        BY <4>2 DEF Nodes
      <4> QED
        BY <4>1, <4>3, <4>4
    <3> QED
      BY <1>1, <1>2, <2>1, <3>1 DEF Files, TempsListed, Unlisted
  <2>7. EverInv'
    BY <1>1, <1>2, <2>2 DEF Files, EverInv, Ahead
  <2>8. ListInv'
    BY <1>1, <1>2, <1>3, <2>1, <2>2 DEF Files, ListInv, Intact, Creating
  <2> QED
    BY <2>5, <2>6, <2>7, <2>8 DEF Files
<1>6. CASE ChildCleans
  <2>1. child = "clean"
    BY <1>6 DEF ChildCleans
  <2>2. Accounted' /\ disk' \subseteq disk /\ Listed' \subseteq Listed /\ ListInv'
    <3>1. CASE shares
      <4>1. freed = childIter - 1 /\ childIter \in Nat
        BY <1>1, <1>3, <2>1, <3>1 DEF Control, ChildInv, CleanInv, InDriver, Unexecuted, TypeOK
      <4>2. freed >= childIter - 1
        BY <4>1
      <4>3. Accounted' /\ disk' \subseteq disk /\ Listed' \subseteq Listed
        <5>1. CASE CleanNode(childIter)
          BY <1>1, <1>2, <4>1, <4>2, <5>1, CleanNodeFiles
        <5>2. CASE CleanedAll(childIter)
          BY <1>1, <1>2, <4>1, <4>2, <5>2, CleanedAllFiles
        <5> QED
          BY <1>6, <3>1, <5>1, <5>2 DEF ChildCleans
      <4>4. ~Intact'
        BY <1>2, <1>6, <3>1 DEF ChildCleans, Intact
      <4> QED
        BY <4>3, <4>4 DEF ListInv
    <3>2. CASE ~shares
      <4>1. UNCHANGED <<list, freed>> /\ disk' \subseteq disk /\ child' # "none"
        BY <1>6, <3>2 DEF ChildCleans
      <4>2. Left' = Left /\ Listed' = Listed
        BY <4>1 DEF Left, Listed
      <4>3. Accounted'
        BY <1>1, <1>2, <4>1, <4>2 DEF Files, Accounted, Kept
      <4>4. ListInv'
        BY <1>1, <1>2, <1>3, <2>1, <3>2, <4>1, <4>2 DEF Files, ListInv, Intact, Creating
      <4> QED
        BY <4>1, <4>2, <4>3, <4>4
    <3> QED
      BY <3>1, <3>2
  <2>3. TempsListed' /\ EverInv'
    BY <1>1, <1>2, <2>2 DEF Files, TempsListed, EverInv, Unlisted, Ahead
  <2> QED
    BY <2>2, <2>3 DEF Files
<1> QED
  BY <1>4, <1>5, <1>6 DEF Child

-----------------------------------------------------------------------------
(* The theorems *)

\* Every step preserves what the invariant says of the disk.
LEMMA FilesStep == IInv /\ [Next]_vars => Files'
<1> SUFFICES ASSUME IInv, [Next]_vars PROVE Files'
  OBVIOUS
<1>1. CASE UNCHANGED vars
  <2>1. UNCHANGED <<keep, created, pc, ever, disk, list, freed, handler, child,
                    shares, inherited, output>>
    BY <1>1 DEF vars, driver
  <2>2. Left' = Left /\ Listed' = Listed
    BY <2>1 DEF Left, Listed
  <2>3. Accounted' /\ TempsListed' /\ EverInv'
    BY <2>1, <2>2 DEF IInv, Files, Accounted, TempsListed, EverInv, Kept, Unlisted, Ahead
  <2>4. ListInv'
    BY <2>1, <2>2 DEF IInv, Files, ListInv, Intact
  <2> QED
    BY <2>3, <2>4 DEF Files
<1>2. CASE Compile
  BY <1>2, CreateFiles, EnlistFiles, LinkFiles, UnlinkFiles, RenameFiles, SpawnFiles,
     WaitedFiles, ExitingFiles, WriteFiles, MarkFiles DEF Compile
<1>3. CASE Exiting
  BY <1>3, ExitingFiles
<1>4. CASE Signal \/ GdbFails \/ Handling
  BY <1>4, HandlingFiles, GdbFiles
<1>5. CASE Child
  BY <1>5, ChildFiles
<1> QED
  BY <1>1, <1>2, <1>3, <1>4, <1>5 DEF Next

LEMMA IInvAlways == Spec => []IInv
<1>1. IInv /\ [Next]_vars => IInv'
  BY TypesStep, ControlStep, FilesStep DEF IInv
<1> QED
  BY InitIInv, <1>1, PTL DEF Spec

\* The state always has its types.
THEOREM TypesAlways == Spec => []TypeOK
<1>1. IInv => TypeOK
  BY DEF IInv
<1> QED
  BY IInvAlways, <1>1, PTL

\* temporal_files_cleanup never uses a deleted node, for any number of files
\* and processes, wherever a signal stops the driver, its handler or a child; but
\* the cleanup of exit does when a child was killed in its own.
THEOREM NeverMisusedAlways == Spec => []NeverMisused
<1>1. IInv => NeverMisused
  BY DEF IInv, Control, CleanInv, NeverMisused
<1> QED
  BY IInvAlways, <1>1, PTL

\* What is on the disk and not left in the list is to be kept.
LEMMA ListGone ==
  ASSUME IInv, NEW files, files \subseteq disk, files \cap Unreached = {},
         files \cap Unlisted(pc) = {}, handler # "none" => output \notin files
  PROVE  NoneOf(files)
<1>1. \A node \in Left : node.name \notin files
  BY DEF Left, Unreached
<1>2. \A node \in ever : Kept(node) \/ node.name \notin files
  BY <1>1 DEF IInv, Files, Accounted
<1>3. ASSUME NEW t \in Temporaries, t \in files, ~keep.temporaries PROVE FALSE
  <2>1. [name |-> t, temp |-> TRUE] \in ever
    BY <1>3 DEF IInv, Files, TempsListed
  <2> QED
    BY <1>2, <1>3, <2>1 DEF Kept
<1> QED
  BY <1>2, <1>3 DEF Removed, NoneOf

\* Nothing is unreached in a list that is gone.
LEMMA Reached == list = << >> => Unreached = {}
BY DEF Unreached

\* An exit leaves no file behind that was listed and is not to be kept, but those
\* that a child killed in its cleanup of the driver's list had not reached.
THEOREM CleanExitAlways == Spec => []CleanExit
<1>1. IInv => CleanExit
  <2> SUFFICES ASSUME IInv, status = "exited"
               PROVE  NoneOf(disk \ Unreached) /\ (~torn => NoneOf(disk))
    BY DEF CleanExit
  <2>1. handler = "none" /\ pc \in {"exit", "cleaned"} /\ (torn \/ list = << >>)
    BY DEF IInv, Control, EndInv
  <2>2. Unlisted(pc) = {}
    BY <2>1 DEF Unlisted
  <2>3. NoneOf(disk \ Unreached)
    BY <2>1, <2>2, ListGone
  <2>4. ~torn => Unreached = {}
    BY <2>1, Reached
  <2>5. ~torn => NoneOf(disk)
    BY <2>1, <2>2, <2>4, ListGone
  <2> QED
    BY <2>3, <2>5
<1> QED
  BY IInvAlways, <1>1, PTL

\* A signal outside of the cleanup of exit leaves at most the temporary file
\* that was being created, the output of a child that goes on, and what a child
\* killed in its cleanup of the driver's list had not reached.
THEOREM LeftBySignalAlways == Spec => []LeftBySignal
<1>1. IInv => LeftBySignal
  <2> SUFFICES ASSUME IInv, status = "killed", pc \notin {"clean", "cleaned"},
                      NEW left, left = disk \ (Unlisted(pc) \cup {output})
               PROVE  NoneOf(left \ Unreached) /\ (~torn => NoneOf(left))
    BY DEF LeftBySignal
  <2>1. handler = "raise" /\ (torn \/ list = << >>)
    BY DEF IInv, Control, EndInv
  <2>2. NoneOf(left \ Unreached)
    BY ListGone
  <2>3. ~torn => NoneOf(left)
    <3>1. ~torn => Unreached = {}
      BY <2>1, Reached
    <3> QED
      BY <3>1, ListGone
  <2> QED
    BY <2>2, <2>3
<1> QED
  BY IInvAlways, <1>1, PTL
=============================================================================
