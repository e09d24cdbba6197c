------------------------------ MODULE Surfaces ------------------------------
(***************************************************************************)
(* A surface of the runtime - the chat page or the inspector - which one   *)
(* server per process serves for all its agents, and which the dashboard   *)
(* frames by a URL with the token it expects the server to want.           *)
(*                                                                         *)
(* Both take the token from a settings file: the dashboard, and the        *)
(* command that starts the runtime, look for the first agent that has the  *)
(* surface and pin a token in its file; the runtime reads the files, and   *)
(* the first agent to come up with the surface makes the server, with the  *)
(* token of its settings or a random one.  Started by hand (`npm start`),   *)
(* the runtime pins nothing, and nobody relaunches it.  Agents come up one *)
(* after another and go together; one runtime is there at a time.          *)
(* Meanwhile an editor saves whole files.                                  *)
(***************************************************************************)
EXTENDS Naturals, FiniteSets, FiniteSetsExt

CONSTANTS
  MaxFolder,   \* bound: the agents, in the order of their folders
  MaxToken,    \* bound: the tokens ever made
  MaxBoots,    \* bound: how often the runtime comes up
  MaxSaves,    \* bound: what the editor saves
  MaxUpset     \* bound: the kinds of mishap in one behaviour

ASSUME SurfacesAssumption ==
  {MaxFolder, MaxToken, MaxBoots, MaxSaves, MaxUpset} \subseteq Nat

Folder == 1..MaxFolder
Commander == {"runtime", "dashboard"}
NoToken == 0
NoFolder == 0

VARIABLES
  surface,   \* which of the two
  twins,     \* all the folders name the same agent
  file,      \* per folder: whether the agent has the surface, and the token pinned
  minted,    \* the last token made
  asks,      \* per command: the pinning it is in
  framed,    \* the token in the URL the dashboard frames
  copy,      \* the editor's copy of a file
  saves,     \* what it has saved
  boot,      \* the runtime: how far it is, the files it read, the agent it is at, who started it
  boots,     \* how often it has come up
  holders,   \* the agents whose plugin has joined and not left
  listed,    \* the agents the server knows
  refs,      \* the inspector's count
  server,    \* the server and its token
  upset      \* what came between the two (history)

svars == <<surface, twins, file, minted, asks, framed, copy, saves, boot, boots, holders, listed,
           refs, server, upset>>
onDisk == <<file, minted, copy, saves>>
inCommands == <<asks, framed>>
inHub == <<holders, listed, refs, server>>

Slice == [has : BOOLEAN, token : 0..MaxToken]
NoServer == [is |-> "none", token |-> NoToken]
NoSlice == [has |-> FALSE, token |-> NoToken]
NotAsking == [at |-> "idle", folder |-> NoFolder, seen |-> NoSlice]
NoCopy == [folder |-> NoFolder, slice |-> NoSlice]
Unread == [f \in Folder |-> NoSlice]

SFTypeOK ==
  /\ surface \in {"chat", "inspector"} /\ twins \in BOOLEAN
  /\ file \in [Folder -> Slice] /\ minted \in 0..MaxToken
  /\ asks \in [Commander -> [at : {"idle", "looked", "done"}, folder : 0..MaxFolder, seen : Slice]]
  /\ framed \in 0..MaxToken
  /\ copy \in [folder : 0..MaxFolder, slice : Slice] /\ saves \in 0..MaxSaves
  /\ boot \in [at : {"down", "starting", "joining", "up", "stopping"}, read : [Folder -> Slice],
               next : 1..(MaxFolder + 1), again : BOOLEAN, by : {"command", "hand", "bare"}]
  /\ boots \in 0..MaxBoots
  /\ holders \subseteq Folder /\ listed \subseteq Folder /\ refs \in Nat
  /\ server \in [is : {"none", "binding", "bound", "failed"}, token : 0..MaxToken]
  /\ upset \subseteq {"raced", "unwritten", "edited", "skipped", "unbound", "left"}

SFInit ==
  /\ surface \in {"chat", "inspector"} /\ twins \in BOOLEAN
  /\ file \in [Folder -> [has : BOOLEAN, token : {NoToken}]]
  /\ minted = 0 /\ framed = NoToken
  /\ asks = [c \in Commander |-> NotAsking]
  /\ copy = NoCopy /\ saves = 0
  /\ boot = [at |-> "down", read |-> Unread, next |-> 1, again |-> FALSE, by |-> "command"]
  /\ boots = 0
  /\ holders = {} /\ listed = {} /\ refs = 0 /\ server = NoServer
  /\ upset = {}

(* The id an agent goes by: its file names it, and a copied folder names   *)
(* the agent it was copied from.                                           *)
Ident(f) == IF twins THEN 1 ELSE f

----------------------------------------------------------------------------
(* Pinning: ensureSurfaceTokens, of one surface.                           *)

(* Mutant of Winner: the agent whose folder comes last. *)
WinnerLast(files) == Max({NoFolder} \cup {f \in Folder : files[f].has})

(* The agent that will make the server. *)
Winner(files) ==
  IF \E f \in Folder : files[f].has THEN Min({f \in Folder : files[f].has}) ELSE NoFolder

Serves(c, token) == framed' = IF c = "dashboard" THEN token ELSE framed

(* The files are read.  A token that is pinned already is taken as it is. *)
Looks(c) ==
  /\ asks[c].at = "idle"
  /\ LET f == Winner(file)
         needs == f # NoFolder /\ file[f].token = NoToken IN
     /\ asks' = [asks EXCEPT ![c] =
          IF needs THEN [at |-> "looked", folder |-> f, seen |-> file[f]]
          ELSE [NotAsking EXCEPT !.at = "done"]]
     /\ IF needs THEN UNCHANGED framed
        ELSE Serves(c, IF f = NoFolder THEN NoToken ELSE file[f].token)
     /\ upset' = upset \cup {u \in {"raced"} : needs /\ \E d \in Commander : asks[d].at = "looked"}
  /\ UNCHANGED <<surface, twins, onDisk, boot, boots, inHub>>

(* Mutant of Pins: the token is not written down. *)
PinsInMemory(c) ==
  /\ asks[c].at = "looked" /\ minted < MaxToken
  /\ minted' = minted + 1
  /\ UNCHANGED file
  /\ asks' = [asks EXCEPT ![c] = [NotAsking EXCEPT !.at = "done"]]
  /\ Serves(c, minted')
  /\ UNCHANGED <<surface, twins, copy, saves, boot, boots, inHub, upset>>

(* A new one is made, and the file written as it was read but for it. *)
Pins(c) ==
  /\ asks[c].at = "looked" /\ minted < MaxToken
  /\ minted' = minted + 1
  /\ file' = [file EXCEPT ![asks[c].folder] = [asks[c].seen EXCEPT !.token = minted']]
  /\ asks' = [asks EXCEPT ![c] = [NotAsking EXCEPT !.at = "done"]]
  /\ Serves(c, minted')
  /\ upset' = IF file[asks[c].folder] = asks[c].seen THEN upset ELSE upset \cup {"raced"}
  /\ UNCHANGED <<surface, twins, copy, saves, boot, boots, inHub>>

(* The file cannot be written: the token is used all the same. *)
PinFails(c) ==
  /\ asks[c].at = "looked" /\ minted < MaxToken
  /\ minted' = minted + 1
  /\ asks' = [asks EXCEPT ![c] = [NotAsking EXCEPT !.at = "done"]]
  /\ Serves(c, minted')
  /\ upset' = upset \cup {"unwritten"}
  /\ UNCHANGED <<surface, twins, file, copy, saves, boot, boots, inHub>>

(* The dashboard is opened once more. *)
OpensAgain ==
  /\ asks["dashboard"].at = "done"
  /\ asks' = [asks EXCEPT !["dashboard"] = NotAsking]
  /\ framed' = NoToken
  /\ UNCHANGED <<surface, twins, onDisk, boot, boots, inHub, upset>>

(* The editor reads a file, and saves it whole, with or without the surface. *)
EditorReads(f) ==
  /\ copy.folder = NoFolder /\ saves < MaxSaves
  /\ copy' = [folder |-> f, slice |-> file[f]]
  /\ UNCHANGED <<surface, twins, file, minted, saves, inCommands, boot, boots, inHub, upset>>

EditorSaves(has) ==
  /\ copy.folder # NoFolder
  /\ file' = [file EXCEPT ![copy.folder] = [copy.slice EXCEPT !.has = has]]
  /\ upset' = IF file' = file THEN upset ELSE upset \cup {"edited"}
  /\ copy' = NoCopy
  /\ saves' = saves + 1
  /\ UNCHANGED <<surface, twins, minted, inCommands, boot, boots, inHub>>

----------------------------------------------------------------------------
(* The runtime.                                                            *)

(* It reads all the files before the first agent. *)
BootsBy(who) ==
  /\ boot.at = "down" /\ boots < MaxBoots
  /\ boot' = [at |-> "starting", read |-> file, next |-> 1, again |-> FALSE, by |-> who]
  /\ boots' = boots + 1

(* The command that pinned the tokens starts it, or relaunches it. *)
ComesUp ==
  /\ asks["runtime"].at = "done" \/ boot.again
  /\ BootsBy("command")
  /\ asks' = [asks EXCEPT !["runtime"] = NotAsking]
  /\ UNCHANGED <<surface, twins, onDisk, framed, inHub, upset>>

(* It is started by hand, which pins nothing: where no token was pinned     *)
(* before, it comes up bare.                                               *)
StartsByHand ==
  /\ ~boot.again
  /\ LET f == Winner(file) IN
     BootsBy(IF f # NoFolder /\ file[f].token = NoToken THEN "bare" ELSE "hand")
  /\ UNCHANGED <<surface, twins, onDisk, inCommands, inHub, upset>>

GoesOn == boot' = [boot EXCEPT !.at = "starting", !.next = @ + 1]

(* An agent that does not have the surface, or leaves its plugin out. *)
PassesBy ==
  /\ boot.at = "starting" /\ boot.next \in Folder
  /\ GoesOn
  /\ upset' = IF boot.read[boot.next].has THEN upset \cup {"skipped"} ELSE upset
  /\ UNCHANGED <<surface, twins, onDisk, inCommands, boots, inHub>>

(* Mutant of TokenOf: every agent that joins sets the token. *)
TokenOfLast(own) == own

(* The first to join sets the token. *)
TokenOf(own) == IF server.is = "none" THEN own ELSE server.token

(* The token of the settings, or one of its own. *)
TokensFor(f) ==
  IF boot.read[f].token # NoToken THEN {boot.read[f].token} ELSE {minted + 1} \cap (1..MaxToken)

Registers(f) ==
  /\ holders' = holders \cup {f}
  /\ listed' = listed \cup {Ident(f)}
  /\ refs' = refs + 1

(* The plugin joins; the first makes the server and waits until it listens. *)
Joins ==
  LET f == boot.next IN
  /\ boot.at = "starting" /\ f \in Folder /\ boot.read[f].has
  /\ \E own \in TokensFor(f) :
       /\ minted' = Max({minted, own})
       /\ server' = [is |-> IF server.is = "none" THEN "binding" ELSE server.is, token |-> TokenOf(own)]
  /\ IF server.is = "none" THEN boot' = [boot EXCEPT !.at = "joining"] ELSE GoesOn
  /\ Registers(f)
  /\ UNCHANGED <<surface, twins, file, copy, saves, inCommands, boots, upset>>

(* The server listens; *)
Bound ==
  /\ boot.at = "joining"
  /\ server' = [server EXCEPT !.is = "bound"]
  /\ GoesOn
  /\ UNCHANGED <<surface, twins, onDisk, inCommands, boots, holders, listed, refs, upset>>

(* or its port is taken: the chat drops it, and the next agent makes        *)
(* another; the inspector keeps it.                                        *)
BindFails ==
  /\ boot.at = "joining"
  /\ server' = IF surface = "chat" THEN NoServer ELSE [server EXCEPT !.is = "failed"]
  /\ GoesOn
  /\ upset' = upset \cup {"unbound"}
  /\ UNCHANGED <<surface, twins, onDisk, inCommands, boots, holders, listed, refs>>

(* Mutant of Ends: the first that leaves takes the server along. *)
EndsAnyway(remaining, count) == TRUE

(* Nobody is left: as the chat sees it, and as the inspector does. *)
Ends(remaining, count) == IF surface = "chat" THEN remaining = {} ELSE count = 0

Gone(f) ==
  /\ holders' = holders \ {f}
  /\ listed' = listed \ {Ident(f)}
  /\ refs' = refs - 1
  /\ server' = IF Ends(listed', refs') THEN NoServer ELSE server

(* The setup throws after it has joined: the inspector leaves again; the    *)
(* chat, which registers its action only now, does not - nor has it come    *)
(* to its server.                                                          *)
JoinsInVain ==
  LET f == boot.next IN
  /\ boot.at = "starting" /\ f \in Folder /\ boot.read[f].has /\ surface = "chat"
  /\ listed' = listed \cup {Ident(f)}
  /\ GoesOn
  /\ upset' = upset \cup {"skipped", "left"}
  /\ UNCHANGED <<surface, twins, onDisk, inCommands, boots, holders, refs, server>>

LeavesAgain ==
  LET f == boot.next - 1 IN
  /\ boot.at = "starting" /\ f \in holders /\ surface = "inspector"
  /\ Gone(f)
  /\ upset' = upset \cup {"skipped"}
  /\ UNCHANGED <<surface, twins, onDisk, inCommands, boot, boots>>

AllStarted ==
  /\ boot.at = "starting" /\ boot.next > MaxFolder
  /\ boot' = [boot EXCEPT !.at = "up", !.read = Unread]
  /\ UNCHANGED <<surface, twins, onDisk, inCommands, boots, inHub, upset>>

(* A signal, or an agent's own request to restart, which the command heeds. *)
Stops ==
  /\ boot.at = "up"
  /\ \E again \in BOOLEAN :
       /\ again => boot.by = "command"
       /\ boot' = [boot EXCEPT !.at = "stopping", !.again = again]
  /\ UNCHANGED <<surface, twins, onDisk, inCommands, boots, inHub, upset>>

(* Their teardowns run in any order; *)
Leaves(f) ==
  /\ boot.at = "stopping" /\ f \in holders
  /\ Gone(f)
  /\ UNCHANGED <<surface, twins, onDisk, inCommands, boot, boots, upset>>

(* and after them the process ends, and what it held with it. *)
GoesDown ==
  /\ boot.at = "stopping" /\ holders = {}
  /\ boot' = [boot EXCEPT !.at = "down", !.by = "command"]
  /\ listed' = {} /\ refs' = 0 /\ server' = NoServer
  /\ UNCHANGED <<surface, twins, onDisk, inCommands, boots, holders, upset>>

(* A kill, at any moment.                                                  *)
Killed ==
  /\ boot.at # "down"
  /\ boot' = [boot EXCEPT !.at = "down", !.read = Unread, !.again = FALSE, !.by = "command"]
  /\ holders' = {} /\ listed' = {} /\ refs' = 0 /\ server' = NoServer
  /\ UNCHANGED <<surface, twins, onDisk, inCommands, boots, upset>>

SFStep ==
  \/ \E c \in Commander : Looks(c) \/ Pins(c) \/ PinFails(c)
  \/ OpensAgain
  \/ \E f \in Folder : EditorReads(f) \/ Leaves(f)
  \/ \E has \in BOOLEAN : EditorSaves(has)
  \/ ComesUp \/ StartsByHand \/ PassesBy \/ Joins \/ Bound \/ BindFails \/ JoinsInVain \/ LeavesAgain
  \/ AllStarted \/ Stops \/ GoesDown \/ Killed

SFNext == SFStep /\ Cardinality(upset') <= MaxUpset

----------------------------------------------------------------------------
(* Properties.                                                             *)

(* "both the runtime (at boot) and `dashboard` (when building the framed    *)
(* URLs) then read the SAME token" (surfaces.ts): in whatever order the    *)
(* two were started, and however often; unless two pinned at once, the     *)
(* file could not be written or was edited, the agent that was to make the *)
(* server left the surface out, or its port was taken.  Nor does it hold   *)
(* of a runtime that was started by hand before any command had pinned a   *)
(* token: that one keeps its random token until it goes down.              *)
FramedIsServed ==
  upset = {} /\ boot.by # "bare" /\ framed # NoToken /\ server.is = "bound" =>
    server.token = framed

(* The server is there as long as an agent needs it, but for a taken port  *)
(* and for agents of one id, where the chat ends it with the first of      *)
(* them; and it is closed when none needs it, unless one was left behind.  *)
ServedWhileNeeded ==
  /\ (holders # {} /\ "unbound" \notin upset /\ ~(surface = "chat" /\ twins)) =>
        server.is \in {"binding", "bound"}
  /\ (holders = {} /\ "left" \notin upset) => server = NoServer

(* What the page can choose from are the agents that listen. *)
ListedAreThere ==
  ~twins /\ "left" \notin upset => listed = holders
=============================================================================
