------------------------- MODULE RaidenLaunchProofs -------------------------
(***************************************************************************)
(* Proofs about RaidenLaunch, for any number of processes, of processes    *)
(* started by hand and of crashes.                                         *)
(*                                                                         *)
(* FilesOK says how far the installation is, AskedOK what the request has  *)
(* learnt of the processes and why it stays true while they start and end. *)
(***************************************************************************)
EXTENDS RaidenLaunch, Integers, FiniteSetTheorems, TLAPS

States == {"none", "starting", "ready", "zombie", "gone"}

\* The steps while the passphrase is in its file.
Holding == {"running", "launch", "begin", "pid", "alive", "zombie", "status", "socket",
            "kill", "assert", "erase"}

\* The file is written before it is made executable, and no passphrase is left over.
FilesOK ==
  /\ pc \in {"download", "open"} => binary = "none"
  /\ pc = "write" => binary = "partial"
  /\ pc = "chmod" => binary \in {"empty", "whole"}
  /\ executable => binary \in {"empty", "whole"}
  /\ Live # {} => Runs
  /\ passfile /\ crashes = 0 => pc \in Holding

\* No two processes of the wizard's own work at once.
Alone == \A p, q \in launched \cap Live : p = q

\* The process remembered was started; none of the wizard's own works when the request
\* launches one, gives up without one, or has failed.
AskedOK ==
  /\ pid # None => pid \notin Unused
  /\ \/ pc = "launch"
     \/ pc = "kill" /\ pid = None
     \/ pc = "erase" /\ outcome = "failed"
     => launched \cap Live = {}

Inv == TypeOK /\ FilesOK /\ Alone /\ AskedOK /\ KillsOnlyDead /\ PassphraseRead

-----------------------------------------------------------------------------

\* A set of numbers up to n that is not empty has a greatest one: a p above which
\* there are no more of them than above any other, as sets that grow smaller come to
\* an end.
LEMMA GreatestExists ==
  ASSUME NEW n \in Nat, NEW S \in SUBSET (1 .. n), S # {}
  PROVE  \E p \in S : \A q \in S : q <= p
<1> DEFINE Above(p) == {q \in S : q > p}
           T == {Above(p) : p \in S}
<1>0. S \subseteq Int /\ IsFiniteSet(1 .. n)
  BY FS_Interval
<1>1. IsFiniteSet(S)
  BY <1>0, FS_Subset
<1>2. T \subseteq FiniteSubsetsOf(S)
  BY <1>1, FS_Subset DEF FiniteSubsetsOf
<1>3. T # {}
  OBVIOUS
<1>4. PICK x \in T : \A y \in T : <<y, x>> \notin StrictSubsetOrdering(S)
  <2> HIDE DEF T
  <2> QED
    BY <1>2, <1>3, FS_StrictSubsetOrderingWellFounded, WFMin
<1>5. PICK p \in S : x = Above(p)
  BY <1>4
<1>6. ASSUME NEW q \in S, q > p PROVE FALSE
  <2>1. \A r \in S : r > q => r > p
    BY <1>0, <1>6
  <2>2. Above(q) \subseteq Above(p)
    BY <2>1
  <2>3. q \in Above(p) /\ q \notin Above(q)
    <3>1. q \in Above(p)
      BY <1>6
    <3>2. ~(q > q)
      BY <1>0
    <3> QED
      BY <3>1, <3>2
  <2>4. <<Above(q), Above(p)>> \in StrictSubsetOrdering(S)
    BY <2>2, <2>3 DEF StrictSubsetOrdering
  <2> QED
    BY <1>4, <1>5, <2>4
<1> QED
  BY <1>0, <1>6
(* Looking up the processes *)

\* The look-up finds a process that was started, and none only if none works.
LEMMA LookupFinds ==
  ASSUME TypeOK
  PROVE  /\ Lookup \in Pids \cup {None}
         /\ Lookup # None => Lookup \notin Unused
         /\ Lookup = None => Live = {}
<1> DEFINE found == Live \cup (IF zombiesNamed THEN Zombies ELSE {})
<1>1. found \subseteq Pids \ Unused
  BY DEF Live, Zombies, Unused
<1>2. CASE found = {}
  BY <1>2 DEF Lookup
<1>3. CASE found # {}
  <2>1. \E p \in found : \A q \in found : q <= p
    <3> HIDE DEF found
    <3> QED
      BY <1>1, <1>3, GreatestExists, LaunchAssumption DEF Pids
  <2>2. Lookup \in found
    <3>1. Lookup = CHOOSE p \in found : \A q \in found : q <= p
      BY <1>3 DEF Lookup
    <3> HIDE DEF found
    <3> QED
      BY <2>1, <3>1
  <2>3. None \notin Pids
    BY DEF None, Pids
  <2> HIDE DEF found
  <2> QED
    BY <1>1, <2>2, <2>3
<1> QED
  BY <1>2, <1>3

-----------------------------------------------------------------------------
(* What the steps do to the processes *)

\* Steps that leave the processes alone leave alone what is derived from them.
LEMMA SameProcs == ASSUME UNCHANGED procs PROVE UNCHANGED <<Live, Zombies, Unused, ApiReady>>
  BY DEF Live, Zombies, Unused, ApiReady

\* Popen adds one process to those that work, and reaps the zombies.
LEMMA LaunchStarts ==
  ASSUME TypeOK, Launch
  PROVE  \E p \in Unused :
           /\ Live' = Live \cup {p} /\ Zombies' = {} /\ Unused' = Unused \ {p}
           /\ children' = children \cup {p} /\ launched' = launched \cup {p} /\ pid' = p
           /\ procs' \in [Pids -> States]
<1>1. PICK p \in Pids :
        /\ Fresh(p)
        /\ procs' = [q \in Pids |-> IF q = p THEN "starting"
                                    ELSE IF q \in Zombies THEN "gone" ELSE procs[q]]
        /\ children' = children \cup {p} /\ launched' = launched \cup {p} /\ pid' = p
  BY DEF Launch
<1>2. p \in Unused
  BY <1>1 DEF Fresh
<1>3. Live' = Live \cup {p} /\ Zombies' = {} /\ Unused' = Unused \ {p}
  BY <1>1, <1>2 DEF Live, Zombies, Unused
<1>4. procs' \in [Pids -> States]
  BY <1>1 DEF TypeOK, States
<1> QED
  BY <1>1, <1>2, <1>3, <1>4

\* A process started by hand is one that was not used before.
LEMMA HandStarts ==
  ASSUME TypeOK, NEW p \in Pids, StartByHand(p)
  PROVE  /\ p \in Unused /\ Live' = Live \cup {p} /\ Zombies' = Zombies
         /\ Unused' = Unused \ {p} /\ procs' \in [Pids -> States]
<1>1. p \in Unused /\ procs' = [procs EXCEPT ![p] = "starting"]
  BY DEF StartByHand, Fresh
<1> QED
  BY <1>1 DEF TypeOK, Live, Zombies, Unused, States

\* A process that dies works no more, and is a zombie only as a child of the wizard.
LEMMA DieEnds ==
  ASSUME TypeOK, NEW p \in Pids, Die(p)
  PROVE  /\ p \in Live /\ Live' = Live \ {p} /\ Unused' = Unused
         /\ Zombies' \subseteq Zombies \cup ({p} \cap children)
         /\ procs' \in [Pids -> States]
<1>1. /\ p \in Live
      /\ procs' = [procs EXCEPT ![p] = IF p \in children THEN "zombie" ELSE "gone"]
  BY DEF Die
<1> QED
  BY <1>1 DEF TypeOK, Live, Zombies, Unused, States

\* A process that gets ready worked before.
LEMMA ReadyStays ==
  ASSUME TypeOK, NEW p \in Pids, BecomeReady(p)
  PROVE  UNCHANGED <<Live, Zombies, Unused>> /\ procs' \in [Pids -> States]
<1>1. procs[p] = "starting" /\ procs' = [procs EXCEPT ![p] = "ready"]
  BY DEF BecomeReady
<1> QED
  BY <1>1 DEF TypeOK, Live, Zombies, Unused, States

\* A crash reaps the zombies and stops no process that works.
LEMMA CrashReaps ==
  ASSUME TypeOK, Crash
  PROVE  Live' = Live /\ Zombies' = {} /\ Unused' = Unused /\ procs' \in [Pids -> States]
<1>1. procs' = [p \in Pids |-> IF p \in Zombies THEN "gone" ELSE procs[p]]
  BY DEF Crash
<1> QED
  BY <1>1 DEF TypeOK, Live, Zombies, Unused, States

\* kill ends only the process remembered.
LEMMA KillEnds ==
  ASSUME TypeOK, Kill
  PROVE  /\ Live' \subseteq Live /\ Zombies' \subseteq Zombies /\ Unused' = Unused
         /\ procs' \in [Pids -> States]
         /\ UNCHANGED <<files, children, launched, pid, crashes, zombiesNamed>>
         /\ \/ pid = None /\ pc' = "erase" /\ outcome' = "failed" /\ Live' = Live
            \/ pid # None /\ pc' = "assert" /\ outcome' = outcome
            \/ pid # None /\ pc' = "erase" /\ outcome' = "raised"
<1>0. None \notin Pids /\ None \notin Live \cup Zombies
  BY DEF None, Pids, Live, Zombies
<1>1. CASE UNCHANGED procs
  <2>1. UNCHANGED <<Live, Zombies, Unused>> /\ procs' \in [Pids -> States]
    BY <1>1, SameProcs DEF TypeOK, States
  <2>2. UNCHANGED <<files, children, launched, pid, crashes, zombiesNamed>>
    BY DEF Kill, Go, Leave
  <2>3. \/ pid = None /\ pc' = "erase" /\ outcome' = "failed"
        \/ pid # None /\ pc' = "assert" /\ outcome' = outcome
        \/ pid # None /\ pc' = "erase" /\ outcome' = "raised"
    BY <1>0 DEF Kill, Go, Leave
  <2> QED
    BY <2>1, <2>2, <2>3
<1>2. CASE pid \in Live \cup Zombies /\ procs' = [procs EXCEPT ![pid] = "gone"]
  <2>1. pid \in Pids /\ pid # None /\ pid \in Live \cup Zombies
    BY <1>0, <1>2 DEF Live, Zombies
  <2>2. /\ Live' \subseteq Live /\ Zombies' \subseteq Zombies /\ Unused' = Unused
        /\ procs' \in [Pids -> States]
    BY <1>2, <2>1 DEF TypeOK, Live, Zombies, Unused, States
  <2>3. /\ pc' = "assert" /\ outcome' = outcome
        /\ UNCHANGED <<files, children, launched, pid, crashes, zombiesNamed>>
    BY <2>1 DEF Kill, Go
  <2> QED
    BY <2>1, <2>2, <2>3
<1> QED
  BY <1>1, <1>2 DEF Kill

-----------------------------------------------------------------------------
(* The types and the files *)

\* What a step of the request changes when it leaves the processes alone.
Quiet ==
  \/ Request \/ Download \/ Open \/ Write \/ Chmod \/ Secret \/ IsRunning \/ CannotLaunch
  \/ Begin \/ ReadPid \/ IsAlive \/ IsZombie \/ Status \/ Socket \/ Assert
  \/ NoSuchProcess \/ Erase

\* The quiet steps change neither the processes nor who started them.
LEMMA QuietIsQuiet == Quiet => UNCHANGED os
<1> USE DEF Quiet
<1>1. Request \/ Download \/ Open \/ Write \/ Chmod \/ Secret \/ IsRunning => UNCHANGED os
  BY DEF Request, Download, Open, Write, Chmod, Secret, IsRunning, os
<1>2. CannotLaunch \/ NoSuchProcess => UNCHANGED os
  BY DEF CannotLaunch, NoSuchProcess, Raise
<1>3. Begin \/ ReadPid \/ IsAlive \/ IsZombie \/ Status \/ Socket => UNCHANGED os
  BY DEF Begin, ReadPid, IsAlive, IsZombie, Status, Socket
<1>4. Assert \/ Erase => UNCHANGED os
  BY DEF Assert, Erase
<1> QED
  BY <1>1, <1>2, <1>3, <1>4

\* The types of what the quiet steps do change.
LocalTypes ==
  /\ binary \in {"none", "partial", "empty", "whole"}
  /\ executable \in BOOLEAN /\ passfile \in BOOLEAN
  /\ pid \in Pids \cup {None} /\ pc \in Steps
  /\ outcome \in {"none", "ready", "failed", "raised"}
  /\ crashes \in 0 .. MaxCrashes /\ zombiesNamed \in BOOLEAN

\* Who started which process, and which of them are zombies.
ProcTypes ==
  /\ procs \in [Pids -> States]
  /\ launched \subseteq Pids \ Unused
  /\ children \subseteq launched /\ Zombies \subseteq children

\* The type invariant is the two parts.
LEMMA TypeParts == TypeOK <=> LocalTypes /\ ProcTypes
  BY DEF TypeOK, LocalTypes, ProcTypes, States

\* Every quiet step keeps the types.
LEMMA QuietTypes == TypeOK /\ Quiet => TypeOK'
<1> SUFFICES ASSUME TypeOK, Quiet PROVE TypeOK'
  OBVIOUS
<1>1. ProcTypes'
  <2>1. UNCHANGED <<procs, children, launched>>
    BY QuietIsQuiet DEF os
  <2>2. UNCHANGED <<Zombies, Unused>>
    BY <2>1, SameProcs
  <2> QED
    BY <2>1, <2>2, TypeParts DEF ProcTypes
<1>2. LocalTypes'
  <2> USE TypeParts DEF LocalTypes, Steps, Go, Leave, files
  <2>1. CASE Request \/ Download
    BY <2>1, LookupFinds DEF Request, Download
  <2>2. CASE Open \/ Write \/ Chmod \/ Secret
    BY <2>2 DEF Open, Write, Chmod, Secret
  <2>3. CASE IsRunning \/ Begin \/ IsAlive \/ IsZombie \/ Status \/ Socket
    BY <2>3 DEF IsRunning, Begin, IsAlive, IsZombie, Status, Socket
  <2>4. CASE CannotLaunch \/ NoSuchProcess
    BY <2>4 DEF CannotLaunch, NoSuchProcess, Raise
  <2>5. CASE ReadPid \/ Assert
    BY <2>5, LookupFinds DEF ReadPid, Assert
  <2>6. CASE Erase
    BY <2>6 DEF Erase
  <2> QED
    BY <2>1, <2>2, <2>3, <2>4, <2>5, <2>6 DEF Quiet
<1> QED
  BY <1>1, <1>2 DEF TypeOK, LocalTypes, ProcTypes, States

\* Every step keeps the types.
LEMMA TypesStep == TypeOK /\ [Next]_vars => TypeOK'
<1> SUFFICES ASSUME TypeOK, [Next]_vars PROVE TypeOK'
  OBVIOUS
<1>0. LocalTypes /\ ProcTypes
  BY TypeParts
<1>1. CASE Quiet
  BY <1>1, QuietTypes
<1>2. CASE Launch
  <2>1. PICK p \in Unused :
          /\ Live' = Live \cup {p} /\ Zombies' = {} /\ Unused' = Unused \ {p}
          /\ children' = children \cup {p} /\ launched' = launched \cup {p} /\ pid' = p
          /\ procs' \in [Pids -> States]
    BY <1>2, LaunchStarts
  <2>2. p \in Pids
    BY DEF Unused
  <2>3. ProcTypes'
    BY <1>0, <2>1, <2>2 DEF ProcTypes
  <2>4. LocalTypes'
    BY <1>0, <1>2, <2>1, <2>2 DEF LocalTypes, Launch, Go, files, Steps
  <2> QED
    BY <2>3, <2>4 DEF TypeOK, LocalTypes, ProcTypes, States
<1>3. CASE Kill
  <2>1. ProcTypes'
    BY <1>0, <1>3, KillEnds DEF ProcTypes
  <2>2. LocalTypes'
    BY <1>0, <1>3, KillEnds DEF LocalTypes, files, Steps
  <2> QED
    BY <2>1, <2>2 DEF TypeOK, LocalTypes, ProcTypes, States
<1>4. CASE Crash
  <2>1. ProcTypes'
    BY <1>0, <1>4, CrashReaps DEF ProcTypes, Crash
  <2>2. passfile' \in BOOLEAN /\ executable' \in BOOLEAN /\ zombiesNamed' \in BOOLEAN
    BY <1>0, <1>4, Zenon DEF LocalTypes, Crash
  <2>3. /\ binary' = binary /\ pid' = None /\ pc' = "idle" /\ outcome' = "none"
        /\ crashes < MaxCrashes /\ crashes' = crashes + 1
    BY <1>4 DEF Crash
  <2>4. LocalTypes'
    BY <1>0, <2>2, <2>3, LaunchAssumption DEF LocalTypes, Steps
  <2> QED
    BY <2>1, <2>4 DEF TypeOK, LocalTypes, ProcTypes, States
<1>5. ASSUME NEW p \in Pids, BecomeReady(p) \/ Die(p) \/ StartByHand(p) PROVE TypeOK'
  <2>1. UNCHANGED <<files, children, launched, pid, pc, outcome, crashes, zombiesNamed>>
    BY <1>5 DEF BecomeReady, Die, StartByHand
  <2>2. LocalTypes'
    BY <1>0, <2>1 DEF LocalTypes, files
  <2>3. ProcTypes'
    BY <1>0, <1>5, <2>1, ReadyStays, DieEnds, HandStarts DEF ProcTypes
  <2> QED
    BY <2>2, <2>3 DEF TypeOK, LocalTypes, ProcTypes, States
<1>6. CASE UNCHANGED vars
  BY <1>6 DEF TypeOK, vars, files, os, Zombies, Unused
<1> QED
  BY <1>1, <1>2, <1>3, <1>4, <1>5, <1>6 DEF Next, Handler, Quiet

\* A quiet step keeps what the files promise: the binary is made executable last.
LEMMA QuietFiles == TypeOK /\ FilesOK /\ Quiet => FilesOK'
<1> SUFFICES ASSUME TypeOK, FilesOK, Quiet PROVE FilesOK'
  OBVIOUS
<1>0. UNCHANGED Live
  BY QuietIsQuiet, SameProcs DEF os
<1> USE <1>0 DEF FilesOK, Runs, Holding, Go, Leave, files
<1>1. CASE Request \/ Download
  BY <1>1 DEF Request, Download
<1>2. CASE Open \/ Write \/ Chmod \/ Secret
  <2>1. CASE Open
    BY <2>1 DEF Open
  <2>2. CASE Write
    BY <2>2 DEF Write
  <2>3. CASE Chmod
    BY <2>3 DEF Chmod
  <2>4. CASE Secret
    BY <2>4 DEF Secret
  <2> QED
    BY <1>2, <2>1, <2>2, <2>3, <2>4
<1>3. CASE IsRunning \/ Begin \/ IsAlive \/ IsZombie \/ Status \/ Socket
  BY <1>3 DEF IsRunning, Begin, IsAlive, IsZombie, Status, Socket
<1>4. CASE CannotLaunch \/ NoSuchProcess
  BY <1>4 DEF CannotLaunch, NoSuchProcess, Raise
<1>5. CASE ReadPid \/ Assert
  BY <1>5 DEF ReadPid, Assert
<1>6. CASE Erase
  BY <1>6 DEF Erase
<1> QED
  BY <1>1, <1>2, <1>3, <1>4, <1>5, <1>6 DEF Quiet

\* Every step keeps what the files promise.
LEMMA FilesStep == TypeOK /\ FilesOK /\ [Next]_vars => FilesOK'
<1> SUFFICES ASSUME TypeOK, FilesOK, [Next]_vars PROVE FilesOK'
  OBVIOUS
<1>1. CASE Quiet
  BY <1>1, QuietFiles
<1>2. CASE Launch
  BY <1>2 DEF FilesOK, Runs, Launch, Go, files, Holding
<1>3. CASE Kill
  BY <1>3, KillEnds DEF FilesOK, Runs, Kill, files, Holding
<1>4. CASE Crash
  <2>1. crashes' # 0 /\ pc' = "idle" /\ UNCHANGED <<binary, executable>>
    BY <1>4 DEF Crash, TypeOK
  <2> QED
    BY <1>4, <2>1, CrashReaps DEF FilesOK, Runs
<1>5. ASSUME NEW p \in Pids, BecomeReady(p) \/ Die(p) \/ StartByHand(p) PROVE FilesOK'
  <2>1. UNCHANGED <<binary, executable, passfile, pc, crashes, Runs>>
    BY <1>5 DEF BecomeReady, Die, StartByHand, files, Runs
  <2>2. Live' # {} => Runs
    <3>1. CASE BecomeReady(p)
      BY <3>1, ReadyStays DEF FilesOK
    <3>2. CASE Die(p)
      BY <3>2, DieEnds DEF FilesOK
    <3>3. CASE StartByHand(p)
      BY <3>3 DEF StartByHand
    <3> QED
      BY <1>5, <3>1, <3>2, <3>3
  <2> QED
    BY <2>1, <2>2 DEF FilesOK
<1>6. CASE UNCHANGED vars
  BY <1>6, SameProcs DEF FilesOK, Runs, vars, files, os
<1> QED
  BY <1>1, <1>2, <1>3, <1>4, <1>5, <1>6 DEF Next, Handler, Quiet

-----------------------------------------------------------------------------
(* The processes and what the request knows of them *)

\* What the invariant says of the processes.
Aware == Alone /\ AskedOK /\ KillsOnlyDead /\ PassphraseRead

\* A quiet step keeps it: what the request decides, it decides on what it has just read.
LEMMA QuietAware == Inv /\ Quiet => Aware'
<1> SUFFICES ASSUME Inv, Quiet PROVE Aware'
  OBVIOUS
<1>0. /\ UNCHANGED <<procs, children, launched>>
      /\ UNCHANGED <<Live, Zombies, Unused, ApiReady>>
      /\ None \notin Pids
  BY QuietIsQuiet, SameProcs DEF os, None, Pids
<1>1. Alone'
  BY <1>0 DEF Inv, Alone
<1>2. UNCHANGED ByHand
  BY <1>0 DEF ByHand
<1>3. /\ Lookup \in Pids \cup {None}
      /\ Lookup # None => Lookup \notin Unused
      /\ Lookup = None => Live = {}
  BY LookupFinds DEF Inv
<1>4. AskedOK'
  <2> USE <1>0 DEF AskedOK, Inv, Go, Leave
  <2>1. CASE Request \/ Download \/ Open \/ Write \/ Chmod \/ Secret \/ Erase
    BY <1>3, <2>1 DEF Request, Download, Open, Write, Chmod, Secret, Erase
  <2>2. CASE IsRunning \/ Begin \/ IsAlive
    BY <1>3, <2>2 DEF IsRunning, Begin, IsAlive
  <2>3. CASE IsZombie \/ Status \/ Socket
    BY <2>3 DEF IsZombie, Status, Socket, Zombies
  <2>4. CASE CannotLaunch \/ NoSuchProcess
    BY <2>4 DEF CannotLaunch, NoSuchProcess, Raise
  <2>5. CASE ReadPid \/ Assert
    BY <1>3, <2>5 DEF ReadPid, Assert
  <2> QED
    BY <2>1, <2>2, <2>3, <2>4, <2>5 DEF Quiet
<1>5. KillsOnlyDead'
  <2> USE <1>0 DEF KillsOnlyDead, Inv, Go, Leave
  <2>1. CASE Request \/ Download \/ Open \/ Write \/ Chmod \/ Secret \/ Erase
    BY <2>1 DEF Request, Download, Open, Write, Chmod, Secret, Erase
  <2>2. CASE IsRunning \/ Begin \/ IsAlive
    BY <1>3, <2>2 DEF IsRunning, Begin, IsAlive
  <2>3. CASE IsZombie \/ Status \/ Socket
    BY <2>3 DEF IsZombie, Status, Socket, Zombies, Live
  <2>4. CASE CannotLaunch \/ NoSuchProcess
    BY <2>4 DEF CannotLaunch, NoSuchProcess, Raise
  <2>5. CASE ReadPid \/ Assert
    BY <2>5 DEF ReadPid, Assert
  <2> QED
    BY <2>1, <2>2, <2>3, <2>4, <2>5 DEF Quiet
<1>6. PassphraseRead'
  <2>0. SUFFICES ASSUME pc' = "erase", outcome' \in {"ready", "failed"}, ByHand = {},
                        NEW p \in children, procs[p] = "starting"
                 PROVE  FALSE
    BY <1>0, <1>2 DEF PassphraseRead
  <2>1. p \in launched \cap Live
    BY <2>0 DEF Inv, TypeOK, Live
  <2>2. outcome' # "failed"
    BY <1>0, <1>4, <2>0, <2>1 DEF AskedOK
  <2>3. CASE ApiReady
    <3>1. PICK q \in Pids : procs[q] = "ready"
      BY <2>3 DEF ApiReady
    <3>2. q \in launched \cap Live
      BY <2>0, <3>1 DEF ByHand, Live
    <3> QED
      BY <2>0, <2>1, <3>1, <3>2 DEF Inv, Alone
  <2>4. ASSUME ~ApiReady PROVE FALSE
    BY <2>0, <2>2, <2>4 DEF Quiet, Request, Download, Open, Write, Chmod, Secret, Erase,
       IsRunning, Begin, IsAlive, IsZombie, Status, Socket, CannotLaunch, NoSuchProcess,
       Raise, ReadPid, Assert, Go, Leave
  <2> QED
    BY <2>3, <2>4
<1> QED
  BY <1>1, <1>4, <1>5, <1>6 DEF Aware

\* Launching a process keeps it: at that call none of the wizard's own works.
LEMMA LaunchAware == Inv /\ Launch => Aware'
<1> SUFFICES ASSUME Inv, Launch PROVE Aware'
  OBVIOUS
<1>1. PICK p \in Unused :
        /\ Live' = Live \cup {p} /\ Unused' = Unused \ {p}
        /\ launched' = launched \cup {p} /\ pid' = p
  BY LaunchStarts DEF Inv
<1>2. launched \cap Live = {} /\ pc' = "begin"
  BY DEF Launch, Go, Inv, AskedOK
<1>3. launched' \cap Live' = {p}
  BY <1>1, <1>2 DEF Inv, TypeOK, Live, Unused
<1>4. Alone' /\ AskedOK'
  BY <1>1, <1>2, <1>3 DEF Alone, AskedOK
<1> QED
  BY <1>2, <1>4 DEF Aware, KillsOnlyDead, PassphraseRead

\* Killing keeps it.
LEMMA KillAware == Inv /\ Kill => Aware'
<1> SUFFICES ASSUME Inv, Kill PROVE Aware'
  OBVIOUS
<1>1. /\ Live' \subseteq Live /\ Unused' = Unused
      /\ launched' = launched /\ pid' = pid /\ pc = "kill"
      /\ \/ pid = None /\ pc' = "erase" /\ outcome' = "failed" /\ Live' = Live
         \/ pid # None /\ pc' = "assert" /\ outcome' = outcome
         \/ pid # None /\ pc' = "erase" /\ outcome' = "raised"
  BY KillEnds DEF Inv, Kill
<1>2. Alone' /\ AskedOK'
  BY <1>1 DEF Inv, Alone, AskedOK
<1>3. KillsOnlyDead'
  BY <1>1 DEF KillsOnlyDead
<1>4. PassphraseRead'
  <2>1. SUFFICES ASSUME outcome' \in {"ready", "failed"}, pc' = "erase",
                        NEW p \in children', (procs[p] = "starting")'
                 PROVE  FALSE
    BY DEF PassphraseRead
  <2>2. p \in (launched \cap Live)'
    BY <2>1, TypesStep DEF Inv, TypeOK, Live, Next, Handler
  <2> QED
    BY <1>1, <1>2, <2>1, <2>2 DEF AskedOK
<1> QED
  BY <1>2, <1>3, <1>4 DEF Aware

\* The machine keeps it: only a process that was never used starts to work.
LEMMA MachineAware ==
  ASSUME Inv, NEW p \in Pids, BecomeReady(p) \/ Die(p) \/ StartByHand(p)
  PROVE  Aware'
<1>1. UNCHANGED <<children, launched, pid, pc, outcome>>
  BY DEF BecomeReady, Die, StartByHand
<1>2. launched \subseteq Pids \ Unused /\ children \subseteq launched
  BY DEF Inv, TypeOK
<1>3. /\ Unused' \subseteq Unused /\ (p \in Unused \/ Unused' = Unused)
      /\ \/ Live' \subseteq Live
         \/ p \in Unused /\ Live' = Live \cup {p}
  BY ReadyStays, DieEnds, HandStarts DEF Inv
<1>4. launched' \cap Live' \subseteq launched \cap Live
  BY <1>1, <1>2, <1>3
<1>5. Alone' /\ AskedOK' /\ KillsOnlyDead'
  <2>1. Alone'
    BY <1>4 DEF Inv, Alone
  <2>2. AskedOK'
    BY <1>1, <1>3, <1>4 DEF Inv, AskedOK
  <2>3. KillsOnlyDead'
    BY <1>1, <1>3 DEF Inv, AskedOK, KillsOnlyDead, None, Pids, Live
  <2> QED
    BY <2>1, <2>2, <2>3
<1>6. PassphraseRead'
  <2>1. SUFFICES ASSUME pc = "erase", outcome \in {"ready", "failed"}, ByHand' = {},
                        NEW q \in children, procs'[q] = "starting"
                 PROVE  FALSE
    BY <1>1 DEF PassphraseRead
  <2>2. q \in Pids /\ procs[q] # "none" /\ q \notin Unused
    BY <1>2 DEF Unused
  <2>3. procs[q] = "starting"
    BY <2>1, <2>2, HandStarts DEF BecomeReady, Die, StartByHand, Inv, TypeOK
  <2>4. ByHand = {}
    <3>1. \A r \in Pids : procs[r] # "none" => procs'[r] # "none"
      BY DEF BecomeReady, Die, StartByHand, Inv, TypeOK
    <3> QED
      BY <1>1, <2>1, <3>1 DEF ByHand
  <2> QED
    BY <2>1, <2>3, <2>4 DEF Inv, PassphraseRead
<1> QED
  BY <1>5, <1>6 DEF Aware

\* A crash keeps it: the request is over.
LEMMA CrashAware == Inv /\ Crash => Aware'
<1> SUFFICES ASSUME Inv, Crash PROVE Aware'
  OBVIOUS
<1>1. launched' = launched /\ pid' = None /\ pc' = "idle"
  BY DEF Crash
<1>2. Live' = Live
  BY CrashReaps DEF Inv
<1> QED
  BY <1>1, <1>2 DEF Inv, Aware, Alone, AskedOK, KillsOnlyDead, PassphraseRead

-----------------------------------------------------------------------------
(* The theorems *)

\* The initial state has the invariant.
LEMMA InitInv == Init => Inv
<1> SUFFICES ASSUME Init PROVE Inv
  OBVIOUS
<1>1. zombiesNamed \in BOOLEAN
  BY Zenon DEF Init
<1>2. Live = {} /\ Zombies = {} /\ Unused = Pids
  BY DEF Init, Live, Zombies, Unused
<1>3. TypeOK
  <2>1. /\ binary = "none" /\ executable = FALSE /\ passfile = FALSE
        /\ procs = [p \in Pids |-> "none"] /\ children = {} /\ launched = {}
        /\ pid = None /\ pc = "idle" /\ outcome = "none" /\ crashes = 0
    BY DEF Init
  <2>2. executable \in BOOLEAN /\ passfile \in BOOLEAN
    BY <2>1
  <2>3. ProcTypes
    BY <1>2, <2>1 DEF ProcTypes, States
  <2>4. /\ binary \in {"none", "partial", "empty", "whole"} /\ pid \in Pids \cup {None}
        /\ pc \in Steps /\ outcome \in {"none", "ready", "failed", "raised"}
        /\ crashes \in 0 .. MaxCrashes
    BY <2>1, LaunchAssumption DEF Steps
  <2> QED
    BY <1>1, <2>2, <2>3, <2>4 DEF TypeOK, ProcTypes, States
<1>4. FilesOK /\ Aware
  BY <1>2 DEF Init, FilesOK, Aware, Alone, AskedOK, KillsOnlyDead, PassphraseRead
<1> QED
  BY <1>3, <1>4 DEF Inv, Aware

\* Every step keeps the invariant.
LEMMA InvStep == Inv /\ [Next]_vars => Inv'
<1> SUFFICES ASSUME Inv, [Next]_vars PROVE Inv'
  OBVIOUS
<1>1. TypeOK' /\ FilesOK'
  BY TypesStep, FilesStep DEF Inv
<1>2. Aware'
  <2>1. CASE Quiet
    BY <2>1, QuietAware
  <2>2. CASE Launch
    BY <2>2, LaunchAware
  <2>3. CASE Kill
    BY <2>3, KillAware
  <2>4. CASE Crash
    BY <2>4, CrashAware
  <2>5. ASSUME NEW p \in Pids, BecomeReady(p) \/ Die(p) \/ StartByHand(p) PROVE Aware'
    BY <2>5, MachineAware
  <2>6. CASE UNCHANGED vars
    BY <2>6, SameProcs
    DEF Inv, Aware, Alone, AskedOK, KillsOnlyDead, PassphraseRead, ByHand, vars, os
  <2> QED
    BY <2>1, <2>2, <2>3, <2>4, <2>5, <2>6 DEF Next, Handler, Quiet
<1> QED
  BY <1>1, <1>2 DEF Inv, Aware

\* The invariant holds throughout.
THEOREM Invariance == Spec => []Inv
  BY InitInv, InvStep, PTL DEF Spec

\* Every variable keeps its type, a process is launched once, and every zombie is the
\* child of the wizard that runs.
THEOREM TypeCorrect == Spec => []TypeOK
<1>1. Inv => TypeOK
  BY DEF Inv
<1> QED
  BY <1>1, Invariance, PTL

\* Wherever the wizard crashes or an installation fails, only a complete binary runs.
THEOREM OnlyWholeEverRuns == Spec => []OnlyWholeBinaryRuns
<1>1. Inv => OnlyWholeBinaryRuns
  BY DEF Inv, FilesOK, Runs, OnlyWholeBinaryRuns
<1> QED
  BY <1>1, Invariance, PTL

\* The wizard never has two processes of its own running, over all its runs.
THEOREM AlwaysOneLaunch == Spec => []OneLaunch
<1>1. Inv => OneLaunch
  <2>1. SUFFICES ASSUME Inv PROVE Cardinality(launched \cap Live) <= 1
    BY DEF OneLaunch
  <2>2. CASE launched \cap Live = {}
    BY <2>2, FS_EmptySet
  <2>3. ASSUME NEW p \in launched \cap Live PROVE Cardinality(launched \cap Live) <= 1
    <3>1. launched \cap Live = {p}
      BY <2>1, <2>3 DEF Inv, Alone
    <3>2. Cardinality(launched \cap Live) = 1
      BY <3>1, FS_Singleton, Zenon
    <3> QED
      BY <3>2
  <2> QED
    BY <2>2, <2>3
<1> QED
  BY <1>1, Invariance, PTL

\* The process a failed wait kills is dead already, whatever starts and ends meanwhile.
THEOREM AlwaysKillsOnlyDead == Spec => []KillsOnlyDead
<1>1. Inv => KillsOnlyDead
  BY DEF Inv
<1> QED
  BY <1>1, Invariance, PTL

\* Without a crash no passphrase outlives its request.
THEOREM AlwaysErased == Spec => []PassphraseErased
<1>1. Inv => PassphraseErased
  BY DEF Inv, FilesOK, Holding, PassphraseErased
<1> QED
  BY <1>1, Invariance, PTL

\* The passphrase is erased only when no process of the wizard's own has to read it.
THEOREM AlwaysRead == Spec => []PassphraseRead
<1>1. Inv => PassphraseRead
  BY DEF Inv
<1> QED
  BY <1>1, Invariance, PTL
=============================================================================
