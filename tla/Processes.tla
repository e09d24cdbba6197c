----------------------------- MODULE Processes -----------------------------
(***************************************************************************)
(* The background processes of an installation and the commands that start *)
(* and stop them.  A runtime is a supervisor with its boot process; the    *)
(* dashboard is the console and the config server.  All that a command     *)
(* knows of what runs is two pid files, and nothing locks them: commands   *)
(* are processes of their own, one of them started by the config server's  *)
(* restart button and killed with it.                                      *)
(***************************************************************************)
EXTENDS Naturals, Sequences, FiniteSets

CONSTANTS
  MaxPid,     \* bound: the daemons ever started
  MaxCommand  \* bound: the commands given

ASSUME ProcessesAssumption == MaxPid \in Nat /\ MaxCommand \in Nat \ {0}

Pid == 1..MaxPid
Command == 1..MaxCommand
Nothing == 0

VARIABLES
  daemon,     \* per pid: what it is, whether the leader of its group lives, and its boot
  pidFile,    \* per pid file: the pids recorded in it
  present,    \* the pid files that exist
  todo,       \* per command: the steps it has left
  targets,    \* per command: the pids it read and has still to kill
  child,      \* per command: the daemon it started last
  host,       \* per command: the config server that runs it, or Nothing
  given,      \* how many commands were given
  crossed,    \* the pid files two commands were at once about, or one left half-way (history)
  doubled,    \* a runtime was started beside one that ran (history)
  orphans     \* the runtimes whose supervisor died by itself (history)

prvars == <<daemon, pidFile, present, todo, targets, child, host, given, crossed, doubled, orphans>>
commands == <<todo, targets, child, host, given>>
files == <<pidFile, present>>
marksOfOverlap == <<crossed, doubled, orphans>>

File == {"runtime", "dashboard"}
Daemon == {"unborn", "runtime", "foreground", "config", "console"}
FileOf(what) == IF what \in {"config", "console"} THEN "dashboard" ELSE what
Step == [act : {"read", "truncate"}, file : File] \cup [act : {"spawn", "append"}, what : Daemon]

PRTypeOK ==
  /\ daemon \in [Pid -> [what : Daemon, leads : BOOLEAN, boot : {"none", "up", "leaving", "dying"}]]
  /\ pidFile \in [File -> SUBSET Pid]
  /\ present \subseteq File
  /\ \A c \in Command : \A i \in DOMAIN todo[c] : todo[c][i] \in Step
  /\ targets \in [Command -> SUBSET Pid]
  /\ child \in [Command -> Pid \cup {Nothing}]
  /\ host \in [Command -> Pid \cup {Nothing}]
  /\ given \in 0..MaxCommand /\ crossed \subseteq File
  /\ doubled \in BOOLEAN /\ orphans \subseteq Pid

PRInit ==
  /\ daemon = [p \in Pid |-> [what |-> "unborn", leads |-> FALSE, boot |-> "none"]]
  /\ pidFile = [f \in File |-> {}]
  /\ present = {}
  /\ todo = [c \in Command |-> <<>>]
  /\ targets = [c \in Command |-> {}]
  /\ child = [c \in Command |-> Nothing]
  /\ host = [c \in Command |-> Nothing]
  /\ given = 0 /\ crossed = {} /\ doubled = FALSE /\ orphans = {}

Live(p) == daemon[p].leads

----------------------------------------------------------------------------
(* The commands.                                                           *)

Halt(file) == <<[act |-> "read", file |-> file], [act |-> "truncate", file |-> file]>>
Launch(what) == <<[act |-> "spawn", what |-> what], [act |-> "append", what |-> what]>>

(* Mutant of Script: what restarts begins with the new one. *)
ScriptNewFirst(does) ==
  CASE does = "run" -> <<[act |-> "spawn", what |-> "foreground"]>>
    [] does = "start" -> Launch("runtime")
    [] does = "stop" -> Halt("runtime") \o Halt("dashboard")
    [] does = "restart" -> <<Halt("runtime")[1]>> \o Launch("runtime") \o <<Halt("runtime")[2]>>
    [] does = "dashboard" -> Halt("dashboard") \o Launch("config") \o Launch("console")

(* Mutant of Script: a dashboard does not replace the one before. *)
ScriptAdding(does) ==
  CASE does = "run" -> <<[act |-> "spawn", what |-> "foreground"]>>
    [] does = "start" -> Launch("runtime")
    [] does = "stop" -> Halt("runtime") \o Halt("dashboard")
    [] does = "restart" -> Halt("runtime") \o Launch("runtime")
    [] does = "dashboard" -> Launch("config") \o Launch("console")

(* A restart stops the runtime only; stopping stops everything. *)
Script(does) ==
  CASE does = "run" -> <<[act |-> "spawn", what |-> "foreground"]>>
    [] does = "start" -> Launch("runtime")
    [] does = "stop" -> Halt("runtime") \o Halt("dashboard")
    [] does = "restart" -> Halt("runtime") \o Launch("runtime")
    [] does = "dashboard" -> Halt("dashboard") \o Launch("config") \o Launch("console")

About(steps) ==
  {f \in File : \E i \in DOMAIN steps :
     IF steps[i].act \in {"read", "truncate"} THEN steps[i].file = f ELSE FileOf(steps[i].what) = f}

Begin(c, does, at) ==
  /\ c = given + 1
  /\ given' = c
  /\ todo' = [todo EXCEPT ![c] = Script(does)]
  /\ host' = [host EXCEPT ![c] = at]
  /\ crossed' = crossed \cup (About(Script(does)) \cap UNION {About(todo[d]) : d \in Command})
  /\ UNCHANGED <<daemon, files, targets, child, doubled, orphans>>

(* Somebody types a command. *)
Typed(c) == \E does \in {"run", "start", "stop", "restart", "dashboard"} : Begin(c, does, Nothing)

(* The restart button: a child of the config server, in its process group. *)
RestartPressed(c) ==
  \E p \in Pid : Live(p) /\ daemon[p].what = "config" /\ Begin(c, "restart", p)

Doing(c, act) == todo[c] # <<>> /\ Head(todo[c]).act = act
Did(c) == todo' = [todo EXCEPT ![c] = Tail(@)]

(* stopPidFile: nothing to do where there is no file. *)
ReadPids(c) ==
  /\ Doing(c, "read")
  /\ LET file == Head(todo[c]).file IN
     IF file \in present
     THEN Did(c) /\ targets' = [targets EXCEPT ![c] = pidFile[file]]
     ELSE todo' = [todo EXCEPT ![c] = Tail(Tail(@))] /\ UNCHANGED targets
  /\ UNCHANGED <<daemon, files, child, host, given, marksOfOverlap>>

(* Mutant of Signalled: the pid alone gets the signal, not its group. *)
SignalledAlone(p) == [daemon EXCEPT ![p].leads = FALSE]

(* SIGTERM to a whole group: the leader dies at once, a boot begins to stop. *)
Signalled(p) ==
  [daemon EXCEPT ![p].leads = FALSE, ![p].boot = IF @ = "none" THEN @ ELSE "dying"]

(* The next of the pids: killed if its leader lives, and with it a command  *)
(* that runs in its group.                                                 *)
Kill(c, p) ==
  /\ Doing(c, "truncate")
  /\ p \in targets[c]
  /\ LET cut == {d \in Command : Live(p) /\ host[d] = p} IN
     /\ daemon' = IF Live(p) THEN Signalled(p) ELSE daemon
     /\ todo' = [d \in Command |-> IF d \in cut THEN <<>> ELSE todo[d]]
     /\ targets' = [d \in Command |->
                      IF d \in cut THEN {} ELSE IF d = c THEN targets[c] \ {p} ELSE targets[d]]
     /\ crossed' = crossed \cup UNION {About(todo[d]) : d \in cut}
  /\ UNCHANGED <<files, child, host, given, doubled, orphans>>

(* The file is emptied, whatever was appended to it since it was read. *)
Truncate(c) ==
  /\ Doing(c, "truncate")
  /\ targets[c] = {}
  /\ pidFile' = [pidFile EXCEPT ![Head(todo[c]).file] = {}]
  /\ Did(c)
  /\ UNCHANGED <<daemon, present, targets, child, host, given, marksOfOverlap>>

SpawnDaemon(c, p) ==
  /\ Doing(c, "spawn")
  /\ daemon[p].what = "unborn"
  /\ \A q \in Pid : q < p => daemon[q].what # "unborn"
  /\ LET what == Head(todo[c]).what IN
     /\ daemon' = [daemon EXCEPT ![p] =
          [what |-> what, leads |-> TRUE, boot |-> IF FileOf(what) = "dashboard" THEN "none" ELSE "up"]]
     /\ doubled' = (doubled \/ (FileOf(what) # "dashboard"
                     /\ \E q \in Pid : Live(q) /\ daemon[q].what \in {"runtime", "foreground"}))
  /\ Did(c)
  /\ child' = [child EXCEPT ![c] = p]
  /\ UNCHANGED <<files, targets, host, given, crossed, orphans>>

(* Mutant of Append1: the file is written anew. *)
AppendOver(c) ==
  /\ Doing(c, "append")
  /\ LET file == FileOf(Head(todo[c]).what) IN
     /\ pidFile' = [pidFile EXCEPT ![file] = {child[c]}]
     /\ present' = present \cup {file}
  /\ Did(c)
  /\ UNCHANGED <<daemon, targets, child, host, given, marksOfOverlap>>

Append1(c) ==
  /\ Doing(c, "append")
  /\ LET file == FileOf(Head(todo[c]).what) IN
     /\ pidFile' = [pidFile EXCEPT ![file] = @ \cup {child[c]}]
     /\ present' = present \cup {file}
  /\ Did(c)
  /\ UNCHANGED <<daemon, targets, child, host, given, marksOfOverlap>>

CommandStep(c) ==
  \/ ReadPids(c) \/ Truncate(c) \/ Append1(c)
  \/ \E p \in Pid : Kill(c, p) \/ SpawnDaemon(c, p)

----------------------------------------------------------------------------
(* The daemons.                                                            *)

(* core.restart: boot stops its agents and will exit with the restart code. *)
BootRestarts(p) ==
  /\ daemon[p].boot = "up"
  /\ daemon' = [daemon EXCEPT ![p].boot = "leaving"]
  /\ UNCHANGED <<commands, files, marksOfOverlap>>

(* Ctrl+C on a foreground runtime: the supervisor leaves it to its boot. *)
Interrupted(p) ==
  /\ daemon[p].what = "foreground"
  /\ daemon[p].boot \in {"up", "leaving"}
  /\ daemon' = [daemon EXCEPT ![p].boot = "dying"]
  /\ UNCHANGED <<commands, files, marksOfOverlap>>

(* boot has stopped its agents and exits; with any code but the one for a  *)
(* restart its supervisor ends too.                                        *)
BootExits(p) ==
  /\ daemon[p].boot \in {"leaving", "dying"}
  /\ daemon' = [daemon EXCEPT ![p].boot = "none", ![p].leads = @ /\ daemon[p].boot = "leaving"]
  /\ UNCHANGED <<commands, files, marksOfOverlap>>

(* boot ends by itself, for good. *)
BootFails(p) ==
  /\ daemon[p].boot = "up"
  /\ daemon' = [daemon EXCEPT ![p].boot = "none", ![p].leads = FALSE]
  /\ UNCHANGED <<commands, files, marksOfOverlap>>

(* Mutant of Relaunch: whoever was told to stop meanwhile. *)
RelaunchAnyway(p) ==
  /\ daemon[p].what \in {"runtime", "foreground"}
  /\ daemon[p].boot = "none"
  /\ daemon' = [daemon EXCEPT ![p].boot = "up"]
  /\ UNCHANGED <<commands, files, marksOfOverlap>>

(* superviseLoop launches it again. *)
Relaunch(p) ==
  /\ Live(p)
  /\ daemon[p].what \in {"runtime", "foreground"}
  /\ daemon[p].boot = "none"
  /\ daemon' = [daemon EXCEPT ![p].boot = "up"]
  /\ UNCHANGED <<commands, files, marksOfOverlap>>

(* A supervisor dies by itself (no memory left): nothing tells its boot. *)
SupervisorDies(p) ==
  /\ Live(p)
  /\ daemon' = [daemon EXCEPT ![p].leads = FALSE]
  /\ orphans' = orphans \cup {p}
  /\ UNCHANGED <<commands, files, crossed, doubled>>

PRNext ==
  \/ \E c \in Command : Typed(c) \/ RestartPressed(c) \/ CommandStep(c)
  \/ \E p \in Pid :
       \/ BootRestarts(p) \/ Interrupted(p) \/ BootExits(p) \/ BootFails(p)
       \/ Relaunch(p) \/ SupervisorDies(p)

PRSpec == PRInit /\ [][PRNext]_prvars

----------------------------------------------------------------------------
(* Properties.                                                             *)

(* Whatever runs in the background can be stopped: its pid is in its file,  *)
(* or about to be, unless commands about that file crossed each other.     *)
DaemonsRecorded ==
  \A p \in Pid :
    LET file == FileOf(daemon[p].what) IN
    Live(p) /\ file \in File \ crossed =>
      \/ p \in pidFile[file]
      \/ \E c \in Command : child[c] = p /\ Doing(c, "append")

(* "A fresh dashboard replaces any prior one", and a restart the runtime:   *)
(* of each daemon there is one, but for the boot that is being stopped, if  *)
(* no command crossed another, none started a second and no supervisor died.*)
Replaced ==
  \A what \in {"runtime", "config", "console"} :
    LET running == {p \in Pid : daemon[p].what = what /\ (Live(p) \/ daemon[p].boot \in {"up", "leaving"})} IN
    FileOf(what) \notin crossed /\ ~doubled /\ running \cap orphans = {} => Cardinality(running) <= 1

(* What was told to stop is on its way out, whatever boot was in the middle  *)
(* of, and no restart brings it back.  A supervisor that died by itself      *)
(* leaves a boot that nothing finds any more.                                *)
KilledStaysDown ==
  \A p \in Pid : ~Live(p) /\ p \notin orphans => daemon[p].boot \in {"none", "dying"}
=============================================================================
