---------------------------- MODULE RaidenLaunch ----------------------------
(***************************************************************************)
(* The launch request: _run_launch and the part of RaidenClient it uses.   *)
(* It installs the Raiden binary if its path does not exist, writes the    *)
(* passphrase to a temporary file, starts a process unless one runs, and   *)
(* polls until the API is ready, or kills.  Meanwhile processes become     *)
(* ready, die and are started by hand, and the wizard may crash at any     *)
(* step, leaving the binary, the passphrase file and the processes behind. *)
(*                                                                         *)
(* Processes are those psutil finds under the name of the binary.  Their   *)
(* ids grow and are not used again while a request is served; that the     *)
(* machine gives an old id to another program is left out.  The account is *)
(* unlocked.                                                               *)
(***************************************************************************)
EXTENDS Naturals, FiniteSets

CONSTANTS
  MaxPid,       \* bound: processes ever started
  MaxByHand,    \* bound: how many of them the user starts by hand
  MaxCrashes    \* bound: crashes of the wizard

ASSUME LaunchAssumption ==
  MaxPid \in Nat \ {0} /\ MaxByHand \in Nat /\ MaxCrashes \in Nat

VARIABLES
  binary,       \* the file at install_path
  executable,   \* its mode: chmod 0o770
  procs,        \* the state of every process
  children,     \* processes the running wizard is the parent of
  launched,     \* processes some run of the wizard started
  passfile,     \* is the passphrase in a temporary file?
  pid,          \* _process_id of the request's RaidenClient
  pc,           \* the call the request makes next
  outcome,      \* how the request ends
  crashes,      \* crashes of the wizard so far
  zombiesNamed  \* does psutil know the name of a zombie?  It depends on the platform

files == <<binary, executable, passfile>>
os == <<procs, children, launched>>
vars == <<files, os, pid, pc, outcome, crashes, zombiesNamed>>

Pids == 1 .. MaxPid

\* _process_id is None.
None == 0

Live == {p \in Pids : procs[p] \in {"starting", "ready"}}
Zombies == {p \in Pids : procs[p] = "zombie"}
Unused == {p \in Pids : procs[p] = "none"}
ByHand == {p \in Pids \ launched : procs[p] # "none"}

\* Processes get their ids in order.
Fresh(p) == p \in Unused /\ \A q \in Unused : p <= q

\* get_process_id: the greatest id that runs the binary.  status() is compared
\* with `is', so a zombie counts where psutil can tell its name.
Lookup ==
  LET found == Live \cup (IF zombiesNamed THEN Zombies ELSE {})
  IN  IF found = {} THEN None ELSE CHOOSE p \in found : \A q \in found : q <= p

ApiReady == \E p \in Pids : procs[p] = "ready"

Init ==
  /\ binary = "none" /\ executable = FALSE /\ passfile = FALSE
  /\ procs = [p \in Pids |-> "none"] /\ children = {} /\ launched = {}
  /\ pid = None /\ pc = "idle" /\ outcome = "none" /\ crashes = 0
  /\ zombiesNamed \in BOOLEAN

-----------------------------------------------------------------------------
(* The request *)

Go(step) == pc' = step /\ UNCHANGED <<outcome, crashes, zombiesNamed>>

\* The temporary file is erased however the request ends.
Leave(how) == pc' = "erase" /\ outcome' = how /\ UNCHANGED <<crashes, zombiesNamed>>

\* An exception nobody catches.  psutil.NoSuchProcess can come out of any look at
\* the processes, when one of the machine ends just then.
Raise(step) == pc = step /\ Leave("raised") /\ UNCHANGED <<files, os, pid>>

\* Bound: an id is left for the process a request may launch.
Room == Cardinality(Unused) > MaxByHand - Cardinality(ByHand)

\* A new RaidenClient: its constructor looks the process up, before anything else.
Request ==
  /\ pc = "idle" /\ Room /\ pid' = Lookup
  /\ Go(IF binary = "none" THEN "download" ELSE "secret")
  /\ UNCHANGED <<files, os>>

\* An HTTP error, or an archive that is none, leaves no file.
Download ==
  /\ pc = "download" /\ (Go("open") \/ Go("idle"))
  /\ UNCHANGED <<files, os, pid>>

\* Slip: the file is made executable before it is written.
SlipOpenExecutable ==
  /\ pc = "open" /\ binary' = "partial" /\ executable' = TRUE /\ Go("write")
  /\ UNCHANGED <<passfile, os, pid>>

Open ==
  /\ pc = "open" /\ binary' = "partial" /\ Go("write")
  /\ UNCHANGED <<executable, passfile, os, pid>>

\* Slip: what a corrupt archive yields is taken for the binary.
SlipWrite ==
  /\ pc = "write" /\ binary' \in {"whole", "corrupt"} /\ Go("chmod")
  /\ UNCHANGED <<executable, passfile, os, pid>>

\* The archive may be corrupt, or the disk full; or its first member may be no file, and
\* what is then installed is empty.
Write ==
  /\ pc = "write"
  /\ \/ binary' \in {"whole", "empty"} /\ Go("chmod")
     \/ UNCHANGED binary /\ Go("idle")
  /\ UNCHANGED <<executable, passfile, os, pid>>

Chmod ==
  /\ pc = "chmod" /\ executable' = TRUE /\ Go("secret")
  /\ UNCHANGED <<binary, passfile, os, pid>>

\* temporary_passphrase_file
Secret ==
  /\ pc = "secret" /\ passfile' = TRUE /\ Go("running")
  /\ UNCHANGED <<binary, executable, os, pid>>

\* Slip: a process counts only if this run of the wizard started it.
SlipIsRunning ==
  /\ pc = "running" /\ Go(IF children \cap Live = {} THEN "launch" ELSE "begin")
  /\ UNCHANGED <<files, os, pid>>

\* is_running
IsRunning ==
  /\ pc = "running"
  /\ Go(IF Lookup = None THEN "launch" ELSE "begin")
  /\ UNCHANGED <<files, os, pid>>

\* Can the file be executed?  An empty one has no format.
Runs == executable /\ binary # "empty"

\* Popen: reaps the wizard's zombies, and needs a file that can be executed.
Launch ==
  /\ pc = "launch" /\ Runs
  /\ \E p \in Pids :
       /\ Fresh(p)
       /\ procs' = [q \in Pids |-> IF q = p THEN "starting"
                                   ELSE IF q \in Zombies THEN "gone"
                                   ELSE procs[q]]
       /\ children' = children \cup {p} /\ launched' = launched \cup {p}
       /\ pid' = p
  /\ Go("begin") /\ UNCHANGED files

\* Slip: the process is started before the file is taken care of.
SlipCannotLaunch ==
  /\ pc = "launch" /\ ~Runs /\ Go("idle") /\ UNCHANGED <<files, os, pid>>

CannotLaunch == ~Runs /\ Raise("launch")

\* wait_for_web_ui_ready: not is_running.
Begin ==
  /\ pc = "begin" /\ Go(IF Lookup = None THEN "kill" ELSE "pid")
  /\ UNCHANGED <<files, os, pid>>

ReadPid ==
  /\ pc = "pid" /\ pid' = Lookup /\ Go("alive") /\ UNCHANGED <<files, os>>

\* Slip: another process than the one just found is taken for its end.
SlipIsAlive ==
  /\ pc = "alive" /\ Go(IF Lookup # pid THEN "kill" ELSE "zombie")
  /\ UNCHANGED <<files, os, pid>>

\* not self.is_running: the processes are looked up once more.
IsAlive ==
  /\ pc = "alive" /\ Go(IF Lookup = None THEN "kill" ELSE "zombie")
  /\ UNCHANGED <<files, os, pid>>

\* self.is_zombie: NoSuchProcess if it is gone.
IsZombie ==
  /\ pc = "zombie"
  /\ \/ pid = None /\ Go("status")
     \/ pid \in Live /\ Go("status")
     \/ pid \in Zombies /\ Go("kill")
     \/ pid \in Pids \ (Live \cup Zombies) /\ Leave("raised")
  /\ UNCHANGED <<files, os, pid>>

\* Slip: a process that runs is ready.
SlipStatusAlive ==
  /\ pc = "status" /\ Live # {} /\ Leave("ready") /\ UNCHANGED <<files, os, pid>>

\* Slip: only the process last looked up may answer.
SlipStatus ==
  /\ pc = "status" /\ pid \in Pids /\ procs[pid] = "ready" /\ Go("socket")
  /\ UNCHANGED <<files, os, pid>>

\* check_status_api, again and again until some process answers.  The answer may
\* break off.
Status ==
  /\ pc = "status" /\ ApiReady /\ (Go("socket") \/ Leave("raised"))
  /\ UNCHANGED <<files, os, pid>>

\* connect_ex, or another turn of the loop.
Socket ==
  /\ pc = "socket"
  /\ \/ ApiReady /\ Leave("ready")
     \/ ~ApiReady /\ Go("pid")
  /\ UNCHANGED <<files, os, pid>>

\* kill: nothing to do without _process_id, which may be the one that the constructor
\* found; NoSuchProcess, caught by nobody, if it is gone; wait() reaps it.  Nothing reads _process_id after that.
Kill ==
  /\ pc = "kill"
  /\ \/ pid = None /\ Leave("failed") /\ UNCHANGED procs
     \/ /\ pid \in Live \cup Zombies /\ Go("assert")
        /\ procs' = [procs EXCEPT ![pid] = "gone"]
     \/ pid \in Pids \ (Live \cup Zombies) /\ Leave("raised") /\ UNCHANGED procs
  /\ UNCHANGED <<files, children, launched, pid>>

\* assert self._process_id is None
Assert ==
  /\ pc = "assert" /\ pid' = Lookup
  /\ Leave(IF pid' = None THEN "failed" ELSE "raised")
  /\ UNCHANGED <<files, os>>

\* The with statement ends.
Erase ==
  /\ pc = "erase" /\ passfile' = FALSE /\ pc' = "idle" /\ outcome' = "none"
  /\ UNCHANGED <<binary, executable, os, pid, crashes, zombiesNamed>>

NoSuchProcess ==
  \E step \in {"running", "begin", "pid", "alive", "assert"} : Raise(step)

Handler ==
  \/ Download \/ Open \/ Write \/ Chmod \/ Secret \/ IsRunning \/ Launch
  \/ CannotLaunch \/ Begin \/ ReadPid \/ IsAlive \/ IsZombie \/ Status \/ Socket
  \/ Kill \/ Assert \/ NoSuchProcess \/ Erase

-----------------------------------------------------------------------------
(* The machine *)

\* Only one process has the API's port.
BecomeReady(p) ==
  /\ procs[p] = "starting" /\ ~ApiReady
  /\ procs' = [procs EXCEPT ![p] = "ready"]
  /\ UNCHANGED <<files, children, launched, pid, pc, outcome, crashes,
                 zombiesNamed>>

\* A child of the wizard stays as a zombie until the wizard waits for it.
Die(p) ==
  /\ p \in Live
  /\ procs' = [procs EXCEPT ![p] = IF p \in children THEN "zombie" ELSE "gone"]
  /\ UNCHANGED <<files, children, launched, pid, pc, outcome, crashes,
                 zombiesNamed>>

StartByHand(p) ==
  /\ Fresh(p) /\ Cardinality(ByHand) < MaxByHand /\ Runs
  /\ procs' = [procs EXCEPT ![p] = "starting"]
  /\ UNCHANGED <<files, children, launched, pid, pc, outcome, crashes,
                 zombiesNamed>>

\* The wizard's children go on without it; its zombies are reaped.  On Ctrl-C the
\* passphrase is still erased.
Crash ==
  /\ crashes < MaxCrashes /\ crashes' = crashes + 1
  /\ procs' = [p \in Pids |-> IF p \in Zombies THEN "gone" ELSE procs[p]]
  /\ children' = {} /\ pid' = None /\ pc' = "idle" /\ outcome' = "none"
  /\ passfile' \in {passfile, FALSE}
  /\ UNCHANGED <<binary, executable, launched, zombiesNamed>>

Next ==
  \/ Request \/ Handler \/ Crash
  \/ \E p \in Pids : BecomeReady(p) \/ Die(p) \/ StartByHand(p)

Spec == Init /\ [][Next]_vars

\* The server runs the request; a process that starts gets ready or dies.
FairSpec ==
  /\ Spec /\ WF_vars(Handler)
  /\ \A p \in Pids : WF_vars(procs[p] = "starting" /\ (BecomeReady(p) \/ Die(p)))

-----------------------------------------------------------------------------
(* Properties *)

Steps == {"idle", "download", "open", "write", "chmod", "secret", "running",
          "launch", "begin", "pid", "alive", "zombie", "status", "socket", "kill",
          "assert", "erase"}

\* Every variable has its type; a process is launched once and its parent is the
\* wizard, and every zombie is the wizard's child.
TypeOK ==
  /\ binary \in {"none", "partial", "empty", "whole"}
  /\ executable \in BOOLEAN /\ passfile \in BOOLEAN
  /\ procs \in [Pids -> {"none", "starting", "ready", "zombie", "gone"}]
  /\ launched \subseteq Pids \ Unused
  /\ children \subseteq launched /\ Zombies \subseteq children
  /\ pid \in Pids \cup {None} /\ pc \in Steps
  /\ outcome \in {"none", "ready", "failed", "raised"}
  /\ crashes \in 0 .. MaxCrashes /\ zombiesNamed \in BOOLEAN

\* Wherever the wizard crashes or an installation fails, a binary that is not
\* complete, or empty, never runs, although is_installed only looks for a file: it is made
\* executable last (install).
OnlyWholeBinaryRuns == Live # {} => binary = "whole"

\* The wizard never has two processes of its own running, over crashes and
\* restarts: a process of an earlier run is found by its name (_run_launch).
OneLaunch == Cardinality(launched \cap Live) <= 1

\* The process a failed wait goes on to kill is dead already: _process_id, read
\* before the liveness checks or, when no process is found after the installation, as
\* long ago as the constructor, never names a process that still works, although
\* others start and end between the reads (wait_for_web_ui_ready, kill).
KillsOnlyDead == pc = "kill" => pid \notin Live

\* As long as the wizard does not crash, no passphrase outlives its request,
\* whatever exception ends it (temporary_passphrase_file).
PassphraseErased == pc = "idle" /\ crashes = 0 => ~passfile

\* When an answered request erases the passphrase, no process of this wizard still
\* has to read it, unless the user has started others by hand.
PassphraseRead ==
  pc = "erase" /\ outcome \in {"ready", "failed"} /\ ByHand = {}
    => \A p \in children : procs[p] # "starting"

\* A request for which a process stays alive is answered: it waits forever only
\* when nothing runs (wait_for_web_ui_ready).
OnlyDeadHangs == pc # "idle" ~> pc = "idle" \/ Live = {}

\* "client process terminated while waiting for web ui" (raiden.py): a request
\* that waits for a process learns of its end.
Answered == pc # "idle" ~> pc = "idle"

\* "assert self._process_id is None" (raiden.py): nothing runs after the kill.
AloneAfterKill == pc = "assert" => Live = {}
=============================================================================
