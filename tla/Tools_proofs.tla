----------------------------- MODULE Tools_proofs -----------------------------
(***************************************************************************)
(* The tools at work, for any calls, commands, endpoints and processes:    *)
(* the browser and its Chrome (Browser), a row of searches (Search), a     *)
(* command in a shell (Shell), and all of them side by side as the run has *)
(* them.  What follows from folds and from the walk of a tree is left to   *)
(* the run: the texts of an edit, the budget of what is shown, a listing.  *)
(***************************************************************************)
EXTENDS MCBrowser, SequenceTheorems, FiniteSetTheorems, TLAPS

----------------------------------------------------------------------------
(* The browser.  Of each client it is known which attempt it is in, which  *)
(* processes it has started, and which of them it holds.                   *)

BrowserTypes ==
  /\ canFallback \in BOOLEAN /\ down \in BOOLEAN
  /\ phase \in [Call -> {"idle", "launch", "run", "wait", "done", "stranded"}]
  /\ on \in [Call -> Call \cup {None}]
  /\ commands \in [Call -> 0..MaxCommands]
  /\ client \in Call \cup {None}
  /\ stage \in [Call -> {"none", "port", "poll", "connect", "ready", "failed"}]
  /\ attempt \in [Call -> 0..2] /\ child \in [Call -> 0..2]
  /\ exited \in [Call -> BOOLEAN]
  /\ ws \in [Call -> {"null", "open", "closed"}]
  /\ proc \in [Process -> {"none", "starting", "ready", "gone", "reaped"}]
  /\ signalled \in SUBSET Process
  /\ cause \in SUBSET {"overlap", "teardown", "gaveup", "refused"}

(* A call that waits has a client, and a command to wait for. *)
Calls(q) ==
  /\ phase[q] = "idle" => stage[q] = "none"
  /\ phase[q] = "wait" => commands[q] < MaxCommands
  /\ phase[q] \in {"run", "wait"} => on[q] \in Call

(* A process is one of an attempt that was made; what a client holds is of  *)
(* its last attempt; and a client whose Chrome has exited knows it.        *)
Follows(q) ==
  /\ stage[q] = "none" => attempt[q] = 0 /\ child[q] = 0 /\ proc[<<q, 1>>] = "none"
  /\ stage[q] # "none" => attempt[q] \in {1, 2}
  /\ attempt[q] # 2 => proc[<<q, 2>>] = "none"
  /\ stage[q] = "port" => proc[<<q, attempt[q]>>] = "none" /\ child[q] = 0
  /\ child[q] # 0 => child[q] = attempt[q] /\ proc[<<q, attempt[q]>>] \in {"starting", "ready", "gone"}
  /\ stage[q] \in {"poll", "connect", "ready"} /\ proc[<<q, attempt[q]>>] = "reaped" => exited[q]

(* As long as nothing has come between a client and its Chrome: a second    *)
(* attempt is made when the first one's process is known to be gone, a      *)
(* client is dead only when its Chrome is, and holds it until then.        *)
Holds(q) ==
  /\ Launching(q) => ~down /\ (client = None \/ exited[client])
  /\ attempt[q] = 2 => proc[<<q, 1>>] = "reaped"
  /\ stage[q] = "port" => ~exited[q]
  /\ stage[q] \in {"poll", "connect", "ready"} /\ exited[q] => proc[<<q, attempt[q]>>] = "reaped"
  /\ stage[q] \in {"poll", "connect"} \/ client = q =>
       child[q] = attempt[q] \/ proc[<<q, attempt[q]>>] = "reaped"
  /\ stage[q] = "failed" => ~Live(<<q, attempt[q]>>)
  /\ stage[q] = "ready" /\ client # q /\ Live(<<q, attempt[q]>>) => <<q, attempt[q]>> \in signalled

(* One is launched at a time, one lives at a time, and none is signalled    *)
(* before the teardown.                                                    *)
OneAtATime ==
  /\ ~down => signalled = {}
  /\ \A q, r \in Call : Launching(q) /\ Launching(r) => q = r
  /\ \A p, o \in Process : Live(p) /\ Live(o) => p = o

BrowserInv ==
  /\ BrowserTypes
  /\ \A q \in Call : Calls(q) /\ Follows(q)
  /\ client # None => stage[client] = "ready"
  /\ cause = {} => OneAtATime /\ \A q \in Call : Holds(q)

(* A process is of a call and an attempt. *)
LEMMA ProcessesAre ==
  /\ \A q \in Call, n \in {1, 2} : <<q, n>> \in Process
  /\ \A p \in Process : \E q \in Call, n \in {1, 2} : p = <<q, n>>
  /\ \A q, r, n, m : <<q, n>> = <<r, m>> <=> q = r /\ n = m
BY DEF Process

(* Nobody has called: there is nothing. *)
LEMMA BrowserStarts == ASSUME BInit PROVE BrowserInv
<1>1. BrowserTypes
  <2>1. 0 \in 0..MaxCommands
    BY CommandsAssumption
  <2>2. /\ canFallback \in BOOLEAN /\ down \in BOOLEAN
        /\ phase \in [Call -> {"idle", "launch", "run", "wait", "done", "stranded"}]
        /\ on \in [Call -> Call \cup {None}]
        /\ exited \in [Call -> BOOLEAN]
    BY Zenon DEF BInit
  <2>3. /\ commands \in [Call -> 0..MaxCommands]
        /\ attempt \in [Call -> 0..2] /\ child \in [Call -> 0..2]
    BY <2>1 DEF BInit
  <2>4. /\ client \in Call \cup {None}
        /\ stage \in [Call -> {"none", "port", "poll", "connect", "ready", "failed"}]
        /\ ws \in [Call -> {"null", "open", "closed"}]
        /\ proc \in [Process -> {"none", "starting", "ready", "gone", "reaped"}]
        /\ signalled \in SUBSET Process
        /\ cause \in SUBSET {"overlap", "teardown", "gaveup", "refused"}
    BY DEF BInit
  <2> QED
    BY <2>2, <2>3, <2>4 DEF BrowserTypes
<1>2. \A q \in Call : Calls(q) /\ Follows(q)
  BY ProcessesAre DEF BInit, Calls, Follows
<1>3. OneAtATime /\ \A q \in Call : Holds(q)
  BY ProcessesAre, CallAssumption DEF BInit, OneAtATime, Holds, Launching, Live
<1> QED
  BY <1>1, <1>2, <1>3 DEF BrowserInv, BInit

(* A step that lets the clients and their Chromes alone. *)
ChromeRests == UNCHANGED <<client, stage, attempt, child, exited, proc, signalled, down, cause>>

LEMMA ChromeRestsKeeps ==
  ASSUME BrowserInv, BrowserTypes', ChromeRests, \A q \in Call : Calls(q)'
  PROVE  BrowserInv'
<1>1. /\ client' = client /\ stage' = stage /\ attempt' = attempt /\ child' = child /\ exited' = exited
      /\ proc' = proc /\ signalled' = signalled /\ down' = down /\ cause' = cause
  BY DEF ChromeRests
<1>2. \A q \in Call : Follows(q)'
  BY <1>1 DEF BrowserInv, Follows
<1>3. cause' = {} => OneAtATime' /\ \A q \in Call : Holds(q)'
  BY <1>1 DEF BrowserInv, OneAtATime, Holds, Launching, Live
<1> QED
  BY <1>1, <1>2, <1>3 DEF BrowserInv

(* The calls that have a client go on with it. *)
LEMMA CommandsKeep ==
  ASSUME BrowserInv, NEW q \in Call,
         UseClient(q) \/ Send(q) \/ FetchFails(q) \/ Answered(q) \/ TimesOut(q) \/ Return(q)
  PROVE  BrowserInv'
<1>0. BrowserTypes /\ \A r \in Call : Calls(r)
  BY DEF BrowserInv
<1>1. ChromeRests /\ canFallback' = canFallback /\ ws' = ws
  BY DEF ChromeRests, UseClient, Send, FetchFails, Answered, TimesOut, Return
<1>2. CASE UseClient(q)
  <2>1. /\ phase[q] = "idle" /\ client \in Call
        /\ phase' = [phase EXCEPT ![q] = "run"] /\ on' = [on EXCEPT ![q] = client] /\ commands' = commands
    BY <1>0, <1>2 DEF UseClient, NeedsClient, BrowserTypes
  <2>2. BrowserTypes'
    BY <1>0, <1>1, <2>1 DEF BrowserTypes, ChromeRests
  <2>3. \A r \in Call : Calls(r)'
    BY <1>0, <1>1, <2>1 DEF BrowserTypes, ChromeRests, Calls
  <2> QED
    BY <1>1, <2>2, <2>3, ChromeRestsKeeps
<1>3. CASE Answered(q)
  <2>1. /\ phase[q] = "wait" /\ commands[q] \in 0..MaxCommands /\ commands[q] < MaxCommands /\ MaxCommands \in Nat
    BY <1>0, <1>3, CommandsAssumption DEF Answered, BrowserTypes, Calls
  <2>2. commands[q] + 1 \in 0..MaxCommands
    BY <2>1
  <2>3. /\ commands' = [commands EXCEPT ![q] = commands[q] + 1] /\ phase' = [phase EXCEPT ![q] = "run"] /\ on' = on
    BY <1>3 DEF Answered
  <2>4. BrowserTypes'
    BY <1>0, <1>1, <2>2, <2>3 DEF BrowserTypes, ChromeRests
  <2>5. \A r \in Call : Calls(r)'
    BY <1>0, <1>1, <2>1, <2>3 DEF BrowserTypes, ChromeRests, Calls
  <2> QED
    BY <1>1, <2>4, <2>5, ChromeRestsKeeps
<1>4. CASE Send(q) \/ FetchFails(q) \/ TimesOut(q) \/ Return(q)
  <2>1. \E how \in {"done", "wait"} :
          /\ phase' = [phase EXCEPT ![q] = how] /\ on' = on /\ commands' = commands
          /\ phase[q] # "idle"
          /\ how = "wait" => commands[q] < MaxCommands /\ phase[q] = "run"
    BY <1>4 DEF Send, FetchFails, TimesOut, Return
  <2>2. BrowserTypes'
    BY <1>0, <1>1, <2>1 DEF BrowserTypes, ChromeRests
  <2>3. \A r \in Call : Calls(r)'
    BY <1>0, <1>1, <2>1 DEF BrowserTypes, ChromeRests, Calls
  <2> QED
    BY <1>1, <2>2, <2>3, ChromeRestsKeeps
<1> QED
  BY <1>2, <1>3, <1>4


(* A process that a client holds is one. *)
LEMMA HeldIsProcess == ASSUME BrowserTypes, NEW q \in Call PROVE child[q] = 0 \/ <<q, child[q]>> \in Process
<1>1. child[q] \in 0..2
  BY DEF BrowserTypes
<1>2. child[q] = 0 \/ child[q] \in {1, 2}
  BY <1>1
<1> QED
  BY <1>2, ProcessesAre

(* A step in which one client alone changes, but for what is signalled. *)
Alone(q) ==
  /\ client' = client /\ down' = down /\ signalled \subseteq signalled'
  /\ client = q /\ exited[q] => exited'[q]
  /\ \A r \in Call \ {q} :
       /\ stage'[r] = stage[r] /\ attempt'[r] = attempt[r] /\ child'[r] = child[r] /\ exited'[r] = exited[r]
       /\ \A n \in {1, 2} : proc'[<<r, n>>] = proc[<<r, n>>]

LEMMA OthersKeep ==
  ASSUME BrowserInv, NEW q \in Call, Alone(q), NEW r \in Call \ {q}
  PROVE  Follows(r)' /\ (Holds(r) => Holds(r)')
<1>1. /\ Follows(r) /\ client' = client /\ down' = down /\ signalled \subseteq signalled'
      /\ stage'[r] = stage[r] /\ attempt'[r] = attempt[r] /\ child'[r] = child[r] /\ exited'[r] = exited[r]
      /\ proc'[<<r, 1>>] = proc[<<r, 1>>] /\ proc'[<<r, 2>>] = proc[<<r, 2>>]
      /\ client = None \/ exited[client] => client' = None \/ exited'[client']
  BY DEF BrowserInv, BrowserTypes, Alone
<1>2. stage[r] # "none" => attempt[r] \in {1, 2} /\ proc'[<<r, attempt'[r]>>] = proc[<<r, attempt[r]>>]
  BY <1>1 DEF Follows
<1>3. Follows(r)'
  BY <1>1, <1>2 DEF Follows
<1>4. client = r => stage[r] = "ready"
  BY CallAssumption DEF BrowserInv
<1>5. ASSUME Holds(r) PROVE Holds(r)'
  BY <1>1, <1>2, <1>4, <1>5 DEF Holds, Launching, Live
<1> QED
  BY <1>3, <1>5

(* A client begins to be launched. *)
LEMMA LaunchKeeps == ASSUME BrowserInv, NEW q \in Call, Launch(q) PROVE BrowserInv'
<1>0. BrowserTypes /\ Calls(q) /\ Follows(q) /\ (\A r \in Call : Calls(r)) /\ (client # None => stage[client] = "ready")
  BY DEF BrowserInv
<1>1. /\ phase[q] = "idle" /\ ~down /\ (client \in Call => exited[client])
      /\ phase' = [phase EXCEPT ![q] = "launch"] /\ stage' = [stage EXCEPT ![q] = "port"]
      /\ attempt' = [attempt EXCEPT ![q] = 1] /\ exited' = [exited EXCEPT ![q] = FALSE]
      /\ UNCHANGED <<canFallback, on, commands, client, child, ws, proc, signalled, down>>
  BY DEF Launch, BeginAttempt, NeedsClient
<1>2. stage[q] = "none" /\ attempt[q] = 0 /\ child[q] = 0 /\ proc[<<q, 1>>] = "none" /\ proc[<<q, 2>>] = "none"
  BY <1>0, <1>1 DEF Calls, Follows
<1>3. client # q
  BY <1>0, <1>2, CallAssumption
<1>4. BrowserTypes'
  <2>1. cause' \in SUBSET {"overlap", "teardown", "gaveup", "refused"}
    BY <1>0 DEF Launch, BrowserTypes
  <2> QED
    BY <1>0, <1>1, <2>1 DEF BrowserTypes
<1>5. stage'[q] = "port" /\ attempt'[q] = 1 /\ child'[q] = 0 /\ exited'[q] = FALSE
  BY <1>0, <1>1, <1>2 DEF BrowserTypes
<1>6. Alone(q)
  BY <1>0, <1>1, <1>3 DEF Alone, BrowserTypes
<1>7. \A r \in Call : Calls(r)'
  BY <1>0, <1>1 DEF Calls, BrowserTypes
<1>8. \A r \in Call : Follows(r)'
  <2>1. Follows(q)'
    BY <1>1, <1>2, <1>5 DEF Follows
  <2> QED
    BY <1>6, <2>1, OthersKeep
<1>9. client' # None => stage'[client'] = "ready"
  BY <1>0, <1>1, <1>3 DEF BrowserTypes
<1>10. ASSUME cause' = {} PROVE OneAtATime' /\ \A r \in Call : Holds(r)'
  <2>1. cause = {} /\ ~ \E r \in Call : Launching(r)
    BY <1>10 DEF Launch
  <2>2. OneAtATime /\ \A r \in Call : Holds(r)
    BY <2>1 DEF BrowserInv
  <2>3. \A r \in Call : Launching(r)' => r = q
    BY <1>0, <1>1, <2>1 DEF Launching, BrowserTypes
  <2>4. OneAtATime'
    BY <1>1, <2>2, <2>3 DEF OneAtATime, Live
  <2>5. client' = None \/ exited'[client']
    BY <1>0, <1>1, <1>3 DEF BrowserTypes
  <2>6. Holds(q)'
    BY <1>1, <1>3, <1>5, <2>5 DEF Holds
  <2> QED
    BY <1>6, <2>2, <2>4, <2>6, OthersKeep
<1> QED
  BY <1>4, <1>7, <1>8, <1>9, <1>10 DEF BrowserInv

(* While a client waits to spawn, and nothing has come between one and its  *)
(* Chrome, no Chrome lives.                                                *)
LEMMA NoneLives ==
  ASSUME BrowserInv, cause = {}, NEW q \in Call, stage[q] = "port"
  PROVE  \A p \in Process : ~Live(p)
<1>1. /\ OneAtATime /\ (\A r \in Call : Holds(r)) /\ (\A r \in Call : Follows(r)) /\ BrowserTypes
      /\ client # None => stage[client] = "ready"
  BY DEF BrowserInv
<1>2. ~down /\ signalled = {} /\ (client = None \/ exited[client]) /\ Launching(q)
  BY <1>1 DEF Holds, OneAtATime, Launching
<1>3. ASSUME NEW r \in Call, NEW n \in {1, 2}, Live(<<r, n>>) PROVE FALSE
  <2>1. proc[<<r, n>>] \in {"starting", "ready"}
    BY <1>3 DEF Live
  <2>2. stage[r] # "none" /\ attempt[r] \in {1, 2}
    <3>1. Follows(r) /\ (n = 1 \/ n = 2)
      BY <1>1
    <3>2. n = 1 => proc[<<r, 1>>] # "none"
      BY <2>1
    <3>3. n = 2 => proc[<<r, 2>>] # "none"
      BY <2>1
    <3> QED
      BY <3>1, <3>2, <3>3 DEF Follows
  <2>3. n = attempt[r]
    BY <1>1, <2>1, <2>2 DEF Follows, Holds
  <2>4. CASE stage[r] = "port"
    BY <1>1, <2>1, <2>3, <2>4 DEF Follows
  <2>5. CASE stage[r] \in {"poll", "connect"}
    <3>1. r = q
      BY <1>1, <1>2, <2>5 DEF OneAtATime, Launching
    <3> QED
      BY <2>5, <3>1
  <2>6. CASE stage[r] = "failed"
    BY <1>1, <1>3, <2>3, <2>6 DEF Holds
  <2>7. CASE stage[r] = "ready" /\ client # r
    BY <1>1, <1>2, <1>3, <2>3, <2>7 DEF Holds
  <2>8. CASE stage[r] = "ready" /\ client = r
    <3>1. exited[r]
      BY <1>2, <2>8, CallAssumption
    <3> QED
      BY <1>1, <2>1, <2>3, <2>8, <3>1 DEF Holds
  <2>9. stage[r] \in {"none", "port", "poll", "connect", "ready", "failed"}
    BY <1>1 DEF BrowserTypes
  <2> QED
    BY <2>2, <2>4, <2>5, <2>6, <2>7, <2>8, <2>9
<1> QED
  <2>1. SUFFICES ASSUME NEW p \in Process PROVE ~Live(p)
    OBVIOUS
  <2>2. PICK r \in Call, n \in {1, 2} : p = <<r, n>>
    BY ProcessesAre
  <2> QED
    BY <1>3, <2>2

(* It spawns its Chrome. *)
LEMMA SpawnKeeps == ASSUME BrowserInv, NEW q \in Call, Spawn(q) PROVE BrowserInv'
<1>0. BrowserTypes /\ Calls(q) /\ Follows(q) /\ (\A r \in Call : Calls(r)) /\ (client # None => stage[client] = "ready")
  BY DEF BrowserInv
<1> DEFINE n == attempt[q]
<1>1. /\ stage[q] = "port" /\ proc' = [proc EXCEPT ![<<q, n>>] = "starting"]
      /\ child' = [child EXCEPT ![q] = n] /\ stage' = [stage EXCEPT ![q] = "poll"]
      /\ UNCHANGED <<canFallback, phase, on, commands, client, attempt, exited, ws, signalled, down, cause>>
  BY DEF Spawn, Current
<1>2. n \in {1, 2} /\ <<q, n>> \in Process /\ proc[<<q, n>>] = "none" /\ phase[q] # "idle"
  BY <1>0, <1>1, ProcessesAre DEF Follows, Calls
<1>3. client # q
  BY <1>0, <1>1, CallAssumption
<1>4. BrowserTypes'
  BY <1>0, <1>1, <1>2 DEF BrowserTypes
<1>5. stage'[q] = "poll" /\ attempt'[q] = n /\ child'[q] = n /\ exited'[q] = exited[q] /\ proc'[<<q, n>>] = "starting"
  BY <1>0, <1>1, <1>2 DEF BrowserTypes
<1>6. \A p \in Process : p # <<q, n>> => proc'[p] = proc[p]
  BY <1>0, <1>1 DEF BrowserTypes
<1>7. Alone(q)
  <2>1. \A r \in Call \ {q}, m \in {1, 2} : proc'[<<r, m>>] = proc[<<r, m>>]
    BY <1>6, ProcessesAre
  <2> QED
    BY <1>0, <1>1, <2>1 DEF Alone, BrowserTypes
<1>8. \A r \in Call : Calls(r)'
  BY <1>0, <1>1, <1>2 DEF Calls, BrowserTypes
<1>9. \A m \in {1, 2} : m # n => proc'[<<q, m>>] = proc[<<q, m>>]
  BY <1>6, ProcessesAre
<1>10. Follows(q)'
  <2>1. attempt'[q] # 2 => proc'[<<q, 2>>] = "none"
    BY <1>0, <1>2, <1>5, <1>9 DEF Follows
  <2> QED
    BY <1>2, <1>5, <2>1 DEF Follows
<1>11. ASSUME cause' = {} PROVE OneAtATime' /\ \A r \in Call : Holds(r)'
  <2>1. cause = {} /\ OneAtATime /\ \A r \in Call : Holds(r)
    BY <1>1, <1>11 DEF BrowserInv
  <2>2. \A p \in Process : ~Live(p)
    BY <1>1, <2>1, NoneLives
  <2>3. \A p \in Process : Live(p)' => p = <<q, n>>
    BY <1>6, <2>2 DEF Live
  <2>4. \A r \in Call : Launching(r)' => Launching(r)
    BY <1>0, <1>1 DEF Launching, BrowserTypes
  <2>5. OneAtATime'
    BY <1>1, <2>1, <2>3, <2>4 DEF OneAtATime
  <2>6. Holds(q) /\ Launching(q)
    BY <1>1, <2>1 DEF Launching
  <2>7. Holds(q)'
    <3>1. ~down' /\ (client' = None \/ exited'[client']) /\ ~exited'[q]
      BY <1>1, <2>6 DEF Holds
    <3>2. attempt'[q] = 2 => proc'[<<q, 1>>] = "reaped"
      BY <1>5, <1>9, <2>6 DEF Holds
    <3> QED
      BY <1>5, <3>1, <3>2 DEF Holds
  <2> QED
    BY <1>7, <2>1, <2>5, <2>7, OthersKeep
<1>12. client' # None => stage'[client'] = "ready"
  BY <1>0, <1>1, <1>3 DEF BrowserTypes
<1> QED
  BY <1>4, <1>7, <1>8, <1>10, <1>11, <1>12, OthersKeep DEF BrowserInv

(* A launch ends with an error. *)
LEMMA LaunchThrowsKeeps ==
  ASSUME BrowserInv, NEW q \in Call, LaunchThrows(q), stage[q] \in {"port", "poll", "connect"},
         attempt' = attempt, proc' = proc, client' = client, down' = down, canFallback' = canFallback,
         on' = on, commands' = commands, ws' = ws, signalled' = signalled,
         \/ child' = child /\ exited' = exited
         \/ /\ stage[q] = "port"
            /\ child' = [child EXCEPT ![q] = 0] /\ exited' = [exited EXCEPT ![q] = TRUE],
         cause \subseteq cause', cause' \in SUBSET {"overlap", "teardown", "gaveup", "refused"},
         cause' = {} => ~Live(<<q, attempt[q]>>)
  PROVE  BrowserInv'
<1>0. BrowserTypes /\ Calls(q) /\ Follows(q) /\ (\A r \in Call : Calls(r)) /\ (client # None => stage[client] = "ready")
  BY DEF BrowserInv
<1>1. stage' = [stage EXCEPT ![q] = "failed"] /\ phase' = [phase EXCEPT ![q] = "done"]
  BY DEF LaunchThrows
<1>2. child' \in [Call -> 0..2] /\ exited' \in [Call -> BOOLEAN]
  <2>1. child \in [Call -> 0..2] /\ exited \in [Call -> BOOLEAN] /\ 0 \in 0..2
    BY <1>0 DEF BrowserTypes
  <2>2. CASE child' = child /\ exited' = exited
    BY <2>1, <2>2
  <2>3. CASE child' = [child EXCEPT ![q] = 0] /\ exited' = [exited EXCEPT ![q] = TRUE]
    <3>1. child' \in [Call -> 0..2]
      BY <2>1, <2>3
    <3>2. exited' \in [Call -> BOOLEAN]
      BY <2>1, <2>3
    <3> QED
      BY <3>1, <3>2
  <2> QED
    BY <2>2, <2>3
<1>3. BrowserTypes'
  BY <1>0, <1>1, <1>2 DEF BrowserTypes
<1>4. client # q
  BY <1>0, CallAssumption
<1>5. stage'[q] = "failed" /\ (child'[q] = child[q] \/ child'[q] = 0) /\ attempt[q] \in {1, 2} /\ attempt'[q] = attempt[q]
  BY <1>0, <1>1 DEF BrowserTypes, Follows
<1>6. \A r \in Call \ {q} :
        stage'[r] = stage[r] /\ phase'[r] = phase[r] /\ child'[r] = child[r] /\ exited'[r] = exited[r]
  BY <1>0, <1>1 DEF BrowserTypes
<1>7. Alone(q)
  BY <1>4, <1>6 DEF Alone
<1>8. \A r \in Call : Calls(r)'
  BY <1>0, <1>1 DEF Calls, BrowserTypes
<1>9. Follows(q)'
  BY <1>0, <1>5 DEF Follows
<1>10. client' # None => stage'[client'] = "ready"
  BY <1>0, <1>4, <1>6 DEF BrowserTypes
<1>11. ASSUME cause' = {} PROVE OneAtATime' /\ \A r \in Call : Holds(r)'
  <2>1. cause = {} /\ OneAtATime /\ \A r \in Call : Holds(r)
    BY <1>11 DEF BrowserInv
  <2>2. \A r \in Call : Launching(r)' => Launching(r)
    BY <1>5, <1>6 DEF Launching
  <2>3. OneAtATime'
    BY <2>1, <2>2 DEF OneAtATime, Live
  <2>4. Holds(q)'
    BY <1>4, <1>5, <1>11, <2>1 DEF Holds, Launching, Live
  <2> QED
    BY <1>7, <2>1, <2>3, <2>4, OthersKeep
<1> QED
  BY <1>3, <1>7, <1>8, <1>9, <1>10, <1>11, OthersKeep DEF BrowserInv

LEMMA SpawnFailsKeeps == ASSUME BrowserInv, NEW q \in Call, SpawnFails(q) PROVE BrowserInv'
<1>1. Follows(q) /\ cause \in SUBSET {"overlap", "teardown", "gaveup", "refused"}
  BY DEF BrowserInv, BrowserTypes
<1>2. stage[q] = "port" /\ UNCHANGED <<canFallback, on, commands, client, attempt, ws, proc, signalled, down, cause>>
  BY DEF SpawnFails
<1>3. ~Live(<<q, attempt[q]>>)
  BY <1>1, <1>2 DEF Follows, Live
<1> QED
  BY <1>1, <1>2, <1>3, LaunchThrowsKeeps DEF SpawnFails

LEMMA ConnectFailsKeeps == ASSUME BrowserInv, NEW q \in Call, ConnectFails(q) PROVE BrowserInv'
<1>1. cause \in SUBSET {"overlap", "teardown", "gaveup", "refused"}
  BY DEF BrowserInv, BrowserTypes
<1>2. /\ stage[q] = "connect" /\ LaunchThrows(q)
      /\ UNCHANGED <<canFallback, on, commands, client, attempt, child, exited, ws, proc, signalled, down>>
      /\ cause' = IF Live(<<q, attempt[q]>>) THEN cause \cup {"refused"} ELSE cause
  BY DEF ConnectFails, Current
<1>3. /\ cause \subseteq cause' /\ cause' \in SUBSET {"overlap", "teardown", "gaveup", "refused"}
      /\ cause' = {} => ~Live(<<q, attempt[q]>>)
  BY <1>1, <1>2
<1> QED
  BY <1>2, <1>3, LaunchThrowsKeeps

(* The debugger answers. *)
LEMMA DebuggerAnswersKeeps == ASSUME BrowserInv, NEW q \in Call, DebuggerAnswers(q) PROVE BrowserInv'
<1>0. BrowserTypes /\ Follows(q) /\ Calls(q) /\ (\A r \in Call : Calls(r)) /\ (client # None => stage[client] = "ready")
  BY DEF BrowserInv
<1>1. /\ stage[q] = "poll" /\ stage' = [stage EXCEPT ![q] = "connect"]
      /\ UNCHANGED <<canFallback, phase, on, commands, client, attempt, child, exited, ws, proc, signalled, down, cause>>
  BY DEF DebuggerAnswers
<1>2. BrowserTypes'
  BY <1>0, <1>1 DEF BrowserTypes
<1>3. stage'[q] = "connect" /\ (\A r \in Call \ {q} : stage'[r] = stage[r]) /\ client # q
  BY <1>0, <1>1, CallAssumption DEF BrowserTypes
<1>4. Alone(q)
  BY <1>1, <1>3 DEF Alone
<1>5. \A r \in Call : Calls(r)'
  BY <1>0, <1>1 DEF Calls, BrowserTypes
<1>6. Follows(q)'
  BY <1>0, <1>1, <1>3 DEF Follows
<1>7. client' # None => stage'[client'] = "ready"
  BY <1>0, <1>1, <1>3 DEF BrowserTypes
<1>8. ASSUME cause' = {} PROVE OneAtATime' /\ \A r \in Call : Holds(r)'
  <2>1. OneAtATime /\ \A r \in Call : Holds(r)
    BY <1>1, <1>8 DEF BrowserInv
  <2>2. \A r \in Call : Launching(r)' <=> Launching(r)
    BY <1>1, <1>3 DEF Launching
  <2>3. OneAtATime'
    BY <1>1, <2>1, <2>2 DEF OneAtATime, Live
  <2>4. Holds(q)'
    BY <1>1, <1>3, <2>1, <2>2 DEF Holds, Live
  <2> QED
    BY <1>4, <2>1, <2>3, <2>4, OthersKeep
<1> QED
  BY <1>2, <1>4, <1>5, <1>6, <1>7, <1>8, OthersKeep DEF BrowserInv

(* The WebSocket opens: the client is the plugin's, in place of the one     *)
(* there was.                                                              *)
LEMMA ConnectedKeeps == ASSUME BrowserInv, NEW q \in Call, Connected(q) PROVE BrowserInv'
<1>0. BrowserTypes /\ (\A r \in Call : Calls(r) /\ Follows(r)) /\ (client # None => stage[client] = "ready")
  BY DEF BrowserInv
<1>1. /\ stage[q] = "connect" /\ ws' = [ws EXCEPT ![q] = "open"] /\ stage' = [stage EXCEPT ![q] = "ready"]
      /\ client' = q /\ on' = [on EXCEPT ![q] = q] /\ phase' = [phase EXCEPT ![q] = "run"]
      /\ UNCHANGED <<canFallback, commands, attempt, child, exited, proc, signalled, down, cause>>
  BY DEF Connected
<1>2. BrowserTypes'
  BY <1>0, <1>1 DEF BrowserTypes
<1>3. stage'[q] = "ready" /\ (\A r \in Call \ {q} : stage'[r] = stage[r]) /\ client # q
  BY <1>0, <1>1, CallAssumption DEF BrowserTypes
<1>4. \A r \in Call : Calls(r)'
  BY <1>0, <1>1 DEF Calls, BrowserTypes
<1>5. ASSUME NEW r \in Call PROVE Follows(r)'
  <2>1. CASE r = q
    BY <1>0, <1>1, <1>3, <2>1 DEF Follows
  <2>2. CASE r # q
    <3>1. stage'[r] = stage[r] /\ Follows(r)
      BY <1>0, <1>3, <2>2
    <3> QED
      BY <1>1, <3>1 DEF Follows
  <2> QED
    BY <2>1, <2>2
<1>6. client' # None => stage'[client'] = "ready"
  BY <1>1, <1>3
<1>7. ASSUME cause' = {} PROVE OneAtATime' /\ \A r \in Call : Holds(r)'
  <2>1. OneAtATime /\ (\A r \in Call : Holds(r)) /\ Launching(q)
    BY <1>1, <1>7 DEF BrowserInv, Launching
  <2>2. \A r \in Call : ~Launching(r)'
    BY <1>3, <2>1 DEF Launching, OneAtATime
  <2>3. OneAtATime'
    BY <1>1, <2>1, <2>2 DEF OneAtATime, Live
  <2>4. ASSUME NEW r \in Call PROVE Holds(r)'
    <3>1. CASE r = q
      BY <1>1, <1>3, <2>1, <2>2, <3>1 DEF Holds, Live
    <3>2. CASE r # q
      <4>1. Holds(r) /\ stage'[r] = stage[r] /\ client' # r /\ Follows(r)
        BY <1>0, <1>1, <1>3, <2>1, <3>2
      <4>2. ASSUME client = r PROVE exited[r] /\ stage[r] = "ready" /\ proc[<<r, attempt[r]>>] = "reaped"
        <5>1. client = None \/ exited[client]
          BY <2>1 DEF Holds
        <5>2. exited[r] /\ stage[r] = "ready"
          BY <1>0, <4>2, <5>1, CallAssumption
        <5> QED
          BY <4>1, <5>2 DEF Holds
      <4> QED
        BY <1>1, <2>2, <4>1, <4>2 DEF Holds, Live
    <3> QED
      BY <3>1, <3>2
  <2> QED
    BY <2>3, <2>4
<1> QED
  BY <1>2, <1>4, <1>5, <1>6, <1>7 DEF BrowserInv

(* An attempt fails and the second one begins: what the first had is let go *)
(* of, and where nothing had come between the client and its Chrome, that   *)
(* has exited already.                                                     *)
LEMMA SecondAttemptKeeps ==
  ASSUME BrowserInv, NEW q \in Call, stage[q] = "poll", FallsBack(q), AttemptFails(q),
         proc' = proc, client' = client, down' = down, canFallback' = canFallback,
         on' = on, commands' = commands,
         cause \subseteq cause', cause' \in SUBSET {"overlap", "teardown", "gaveup", "refused"},
         cause' = {} => exited[q]
  PROVE  BrowserInv'
<1>0. BrowserTypes /\ Calls(q) /\ Follows(q) /\ (\A r \in Call : Calls(r)) /\ (client # None => stage[client] = "ready")
  BY DEF BrowserInv
<1>1. /\ attempt[q] = 1 /\ phase' = phase
      /\ signalled' = IF child[q] = 0 THEN signalled ELSE signalled \cup {<<q, child[q]>>}
      /\ child' = [child EXCEPT ![q] = 0] /\ ws' = [ws EXCEPT ![q] = "null"]
      /\ stage' = [stage EXCEPT ![q] = "port"] /\ attempt' = [attempt EXCEPT ![q] = attempt[q] + 1]
      /\ exited' = [exited EXCEPT ![q] = FALSE]
  BY DEF AttemptFails, BeginAttempt, FallsBack
<1>2. attempt' = [attempt EXCEPT ![q] = 2]
  BY <1>1
<1>3. signalled \subseteq signalled' /\ signalled' \in SUBSET Process
  <2>1. child[q] # 0 => <<q, child[q]>> \in Process
    BY <1>0, HeldIsProcess
  <2> QED
    BY <1>0, <1>1, <2>1 DEF BrowserTypes
<1>4. child' \in [Call -> 0..2] /\ attempt' \in [Call -> 0..2]
  BY <1>0, <1>1, <1>2 DEF BrowserTypes
<1>5. BrowserTypes'
  BY <1>0, <1>1, <1>3, <1>4 DEF BrowserTypes
<1>6. client # q
  BY <1>0, CallAssumption
<1>7. /\ stage'[q] = "port" /\ attempt'[q] = 2 /\ child'[q] = 0 /\ exited'[q] = FALSE
      /\ \A r \in Call \ {q} :
           stage'[r] = stage[r] /\ attempt'[r] = attempt[r] /\ child'[r] = child[r] /\ exited'[r] = exited[r]
  BY <1>0, <1>1, <1>2 DEF BrowserTypes
<1>8. Alone(q)
  BY <1>3, <1>6, <1>7 DEF Alone
<1>9. \A r \in Call : Calls(r)'
  BY <1>0, <1>1 DEF Calls, BrowserTypes
<1>10. Follows(q)'
  BY <1>0, <1>1, <1>7 DEF Follows
<1>11. client' # None => stage'[client'] = "ready"
  BY <1>0, <1>6, <1>7 DEF BrowserTypes
<1>12. ASSUME cause' = {} PROVE OneAtATime' /\ \A r \in Call : Holds(r)'
  <2>1. cause = {} /\ exited[q]
    BY <1>12
  <2>2. OneAtATime /\ (\A r \in Call : Holds(r)) /\ Launching(q)
    BY <2>1 DEF BrowserInv, Launching
  <2>3. proc[<<q, 1>>] = "reaped"
    BY <1>1, <2>1, <2>2 DEF Holds
  <2>4. signalled' = signalled
    BY <1>0, <1>1, <2>3 DEF Follows
  <2>5. \A r \in Call : Launching(r)' <=> Launching(r)
    BY <1>7, <2>2 DEF Launching
  <2>6. OneAtATime'
    BY <2>2, <2>4, <2>5 DEF OneAtATime, Live
  <2>7. client = None \/ exited[client]
    BY <2>2 DEF Holds
  <2>8. client' = None \/ exited'[client']
    BY <1>0, <1>6, <1>7, <2>7 DEF BrowserTypes
  <2>9. ~down'
    BY <2>2 DEF Holds
  <2>10. Holds(q)'
    BY <1>6, <1>7, <2>3, <2>8, <2>9 DEF Holds
  <2> QED
    BY <1>8, <2>2, <2>6, <2>10, OthersKeep
<1> QED
  BY <1>5, <1>8, <1>9, <1>10, <1>11, <1>12, OthersKeep DEF BrowserInv

LEMMA PollKeeps == ASSUME BrowserInv, NEW q \in Call, PollSeesExit(q) \/ PollTimesOut(q) PROVE BrowserInv'
<1>0. Follows(q) /\ cause \in SUBSET {"overlap", "teardown", "gaveup", "refused"}
  BY DEF BrowserInv, BrowserTypes
<1>1. /\ stage[q] = "poll" /\ AttemptFails(q) /\ UNCHANGED <<canFallback, on, commands, client, proc, down>>
  BY DEF PollSeesExit, PollTimesOut
<1>2. /\ cause \subseteq cause' /\ cause' \in SUBSET {"overlap", "teardown", "gaveup", "refused"}
      /\ cause' = {} => exited[q]
  <2>1. CASE PollSeesExit(q)
    BY <1>0, <2>1 DEF PollSeesExit
  <2>2. CASE PollTimesOut(q)
    <3>1. /\ ~exited[q] /\ stage[q] = "poll"
          /\ cause' = IF proc[<<q, attempt[q]>>] = "reaped" THEN cause ELSE cause \cup {"gaveup"}
      BY <2>2 DEF PollTimesOut, Current
    <3>2. proc[<<q, attempt[q]>>] # "reaped"
      BY <1>0, <3>1 DEF Follows
    <3> QED
      BY <1>0, <3>1, <3>2
  <2> QED
    BY <2>1, <2>2
<1>3. CASE FallsBack(q)
  BY <1>1, <1>2, <1>3, SecondAttemptKeeps
<1>4. CASE ~FallsBack(q)
  <2>1. LaunchThrows(q) /\ UNCHANGED <<signalled, child, ws, attempt, exited>>
    BY <1>1, <1>4 DEF AttemptFails
  <2>2. cause' = {} => ~Live(<<q, attempt[q]>>)
    <3>1. SUFFICES ASSUME cause' = {} PROVE ~Live(<<q, attempt[q]>>)
      OBVIOUS
    <3>2. Holds(q) /\ exited[q]
      BY <1>2, <3>1 DEF BrowserInv
    <3> QED
      BY <1>1, <3>2 DEF Holds, Live
  <2> QED
    BY <1>1, <1>2, <2>1, <2>2, LaunchThrowsKeeps
<1> QED
  BY <1>3, <1>4

(* What Chrome does by itself: it starts, and it dies. *)
LEMMA ChromeKeeps == ASSUME BrowserInv, NEW p \in Process, DebuggerReady(p) \/ Dies(p) PROVE BrowserInv'
<1>0. BrowserTypes /\ (\A r \in Call : Calls(r) /\ Follows(r)) /\ (client # None => stage[client] = "ready")
  BY DEF BrowserInv
<1>1. /\ UNCHANGED <<canFallback, phase, on, commands, client, stage, attempt, child, exited, ws, signalled, down, cause>>
      /\ \E how \in {"ready", "gone"} : proc' = [proc EXCEPT ![p] = how]
      /\ proc[p] \in {"starting", "ready"}
  BY DEF DebuggerReady, Dies, Live
<1>2. BrowserTypes'
  BY <1>0, <1>1 DEF BrowserTypes
<1>3. \A o \in Process : proc'[o] = proc[o] \/ (proc[o] \in {"starting", "ready"} /\ proc'[o] \in {"ready", "gone"})
  BY <1>0, <1>1 DEF BrowserTypes
<1>4. \A r \in Call : Calls(r)'
  BY <1>0, <1>1 DEF Calls
<1>5. ASSUME NEW r \in Call PROVE Follows(r)' /\ (Holds(r) => Holds(r)')
  <2>1. Follows(r)
    BY <1>0
  <2>2. \A n \in {1, 2} :
          proc'[<<r, n>>] = proc[<<r, n>>]
            \/ (proc[<<r, n>>] \in {"starting", "ready"} /\ proc'[<<r, n>>] \in {"ready", "gone"})
    BY <1>3, ProcessesAre
  <2>3. stage[r] # "none" => attempt[r] \in {1, 2}
    BY <2>1 DEF Follows
  <2>4. client = r => stage[r] = "ready"
    BY <1>0, CallAssumption
  <2>5. Follows(r)'
    BY <1>1, <2>1, <2>2, <2>3 DEF Follows
  <2>6. Holds(r) => Holds(r)'
    BY <1>1, <2>2, <2>3, <2>4 DEF Holds, Launching, Live
  <2> QED
    BY <2>5, <2>6
<1>6. OneAtATime => OneAtATime'
  <2>1. \A o \in Process : Live(o)' => Live(o)
    BY <1>3 DEF Live
  <2> QED
    BY <1>1, <2>1 DEF OneAtATime, Launching
<1> QED
  BY <1>0, <1>1, <1>2, <1>4, <1>5, <1>6 DEF BrowserInv

LEMMA SocketDropsKeeps == ASSUME BrowserInv, NEW q \in Call, SocketDrops(q) PROVE BrowserInv'
<1>0. BrowserTypes /\ \A r \in Call : Calls(r)
  BY DEF BrowserInv
<1>1. ChromeRests /\ UNCHANGED <<canFallback, phase, on, commands>> /\ ws' = [ws EXCEPT ![q] = "closed"]
  BY DEF SocketDrops, ChromeRests
<1>2. BrowserTypes'
  BY <1>0, <1>1 DEF BrowserTypes, ChromeRests
<1>3. \A r \in Call : Calls(r)'
  BY <1>0, <1>1 DEF Calls, ChromeRests
<1> QED
  BY <1>1, <1>2, <1>3, ChromeRestsKeeps

(* The exit of a Chrome reaches its client. *)
LEMMA ExitEventKeeps == ASSUME BrowserInv, NEW q \in Call, NEW n \in {1, 2}, ExitEvent(q, n) PROVE BrowserInv'
<1>0. /\ BrowserTypes /\ Calls(q) /\ Follows(q) /\ (\A r \in Call : Calls(r)) /\ <<q, n>> \in Process
      /\ client # None => stage[client] = "ready"
  BY ProcessesAre DEF BrowserInv
<1>1. /\ proc[<<q, n>>] = "gone" /\ proc' = [proc EXCEPT ![<<q, n>>] = "reaped"]
      /\ exited' = [exited EXCEPT ![q] = TRUE] /\ child' = [child EXCEPT ![q] = 0]
      /\ ws' = [ws EXCEPT ![q] = IF ws[q] = "open" THEN "closed" ELSE ws[q]]
      /\ phase' = Settled(q, "done")
      /\ UNCHANGED <<canFallback, on, commands, client, stage, attempt, signalled, down, cause>>
  BY DEF ExitEvent
<1>2. \A r \in Call : phase'[r] = phase[r] \/ (phase[r] = "wait" /\ phase'[r] = "done")
  BY <1>1 DEF Settled
<1>3. phase' \in [Call -> {"idle", "launch", "run", "wait", "done", "stranded"}]
  BY <1>0, <1>1 DEF Settled, BrowserTypes
<1>4. ws' \in [Call -> {"null", "open", "closed"}] /\ child' \in [Call -> 0..2]
  BY <1>0, <1>1 DEF BrowserTypes
<1>5. BrowserTypes'
  BY <1>0, <1>1, <1>3, <1>4 DEF BrowserTypes
<1>6. /\ exited'[q] = TRUE /\ child'[q] = 0 /\ proc'[<<q, n>>] = "reaped"
      /\ \A m \in {1, 2} : m # n => proc'[<<q, m>>] = proc[<<q, m>>]
      /\ \A p \in Process : p # <<q, n>> => proc'[p] = proc[p]
  BY <1>0, <1>1, ProcessesAre DEF BrowserTypes
<1>7. Alone(q)
  <2>1. \A r \in Call \ {q} : child'[r] = child[r] /\ exited'[r] = exited[r]
    BY <1>0, <1>1 DEF BrowserTypes
  <2>2. \A r \in Call \ {q}, m \in {1, 2} : proc'[<<r, m>>] = proc[<<r, m>>]
    BY <1>6, ProcessesAre
  <2> QED
    BY <1>1, <1>6, <2>1, <2>2 DEF Alone
<1>8. \A r \in Call : Calls(r)'
  BY <1>0, <1>1, <1>2 DEF Calls
<1>9. /\ stage[q] # "none" /\ attempt[q] \in {1, 2} /\ (n = 2 => attempt[q] = 2)
      /\ (stage[q] = "port" => n = 1 /\ attempt[q] = 2)
  <2>1. /\ n = 1 => proc[<<q, 1>>] = "gone"
        /\ n = 2 => proc[<<q, 2>>] = "gone"
        /\ n = 1 \/ n = 2
    BY <1>1
  <2> QED
    BY <1>0, <2>1 DEF Follows
<1>10. Follows(q)'
  <2>1. attempt'[q] # 2 => proc'[<<q, 2>>] = "none"
    BY <1>0, <1>1, <1>6, <1>9 DEF Follows
  <2>2. stage'[q] = "port" => proc'[<<q, attempt'[q]>>] = "none"
    BY <1>0, <1>1, <1>6, <1>9 DEF Follows
  <2> QED
    BY <1>1, <1>6, <1>9, <2>1, <2>2 DEF Follows
<1>11. client' # None => stage'[client'] = "ready"
  BY <1>0, <1>1
<1>12. ASSUME cause' = {} PROVE OneAtATime' /\ \A r \in Call : Holds(r)'
  <2>1. OneAtATime /\ \A r \in Call : Holds(r)
    BY <1>1, <1>12 DEF BrowserInv
  <2>2. \A p \in Process : Live(p)' => Live(p)
    BY <1>1, <1>6 DEF Live
  <2>3. OneAtATime'
    BY <1>1, <2>1, <2>2 DEF OneAtATime, Launching
  <2>4. n = attempt[q] /\ stage[q] # "port"
    <3>1. Holds(q) /\ (n = 1 \/ n = 2) /\ (n = 1 => proc[<<q, 1>>] # "reaped")
      BY <1>1, <2>1
    <3> QED
      BY <1>9, <3>1 DEF Holds
  <2>5. attempt'[q] = 2 => proc'[<<q, 1>>] = "reaped"
    BY <1>1, <1>6, <2>1, <2>4 DEF Holds
  <2>6. Launching(q)' => ~down' /\ (client' = None \/ exited'[client'])
    <3>1. Launching(q) => ~down /\ (client = None \/ exited[client])
      BY <2>1 DEF Holds
    <3>2. client = None \/ client \in Call
      BY <1>0 DEF BrowserTypes
    <3>3. \A r \in Call : exited[r] => exited'[r]
      BY <1>6, <1>7 DEF Alone
    <3> QED
      BY <1>1, <3>1, <3>2, <3>3 DEF Launching
  <2>7. proc'[<<q, attempt'[q]>>] = "reaped" /\ stage'[q] # "port"
    BY <1>1, <1>6, <2>4
  <2>8. Holds(q)'
    BY <2>5, <2>6, <2>7 DEF Holds, Live
  <2> QED
    BY <1>7, <2>1, <2>3, <2>8, OthersKeep
<1> QED
  BY <1>5, <1>7, <1>8, <1>10, <1>11, <1>12, OthersKeep DEF BrowserInv

(* The teardown kills what the plugin's client holds. *)
LEMMA TeardownKeeps == ASSUME BrowserInv, Teardown PROVE BrowserInv'
<1>0. /\ BrowserTypes /\ (\A r \in Call : Calls(r) /\ Follows(r)) /\ (client # None => stage[client] = "ready")
  BY DEF BrowserInv
<1>1. /\ down' = TRUE /\ client' = None
      /\ cause' = IF \E r \in Call : Launching(r) THEN cause \cup {"teardown"} ELSE cause
      /\ UNCHANGED <<canFallback, on, commands, stage, attempt, exited, proc>>
  BY DEF Teardown
<1>2. \/ client = None /\ UNCHANGED <<phase, child, ws, signalled>>
      \/ /\ client \in Call
         /\ signalled' = IF child[client] = 0 THEN signalled ELSE signalled \cup {<<client, child[client]>>}
         /\ child' = [child EXCEPT ![client] = 0] /\ ws' = [ws EXCEPT ![client] = "null"]
         /\ phase' = Settled(client, "stranded")
  BY <1>0 DEF Teardown, Kill, BrowserTypes
<1>3. phase' \in [Call -> {"idle", "launch", "run", "wait", "done", "stranded"}]
  BY <1>0, <1>2 DEF Settled, BrowserTypes
<1>4. /\ child' \in [Call -> 0..2] /\ ws' \in [Call -> {"null", "open", "closed"}]
      /\ cause' \in SUBSET {"overlap", "teardown", "gaveup", "refused"}
  BY <1>0, <1>1, <1>2 DEF BrowserTypes
<1>5. signalled \subseteq signalled' /\ signalled' \in SUBSET Process
  <2>1. client \in Call /\ child[client] # 0 => <<client, child[client]>> \in Process
    BY <1>0, HeldIsProcess
  <2> QED
    BY <1>0, <1>2, <2>1 DEF BrowserTypes
<1>6. BrowserTypes'
  BY <1>0, <1>1, <1>3, <1>4, <1>5 DEF BrowserTypes
<1>7. \A r \in Call : phase'[r] = phase[r] \/ (phase[r] = "wait" /\ phase'[r] = "stranded")
  BY <1>2 DEF Settled
<1>8. \A r \in Call : Calls(r)'
  BY <1>0, <1>1, <1>7 DEF Calls
<1>9. \A r \in Call : child'[r] = child[r] \/ (child'[r] = 0 /\ client = r)
  BY <1>0, <1>2 DEF BrowserTypes
<1>10. \A r \in Call : Follows(r)'
  <2>1. SUFFICES ASSUME NEW r \in Call PROVE Follows(r)'
    OBVIOUS
  <2>2. Follows(r) /\ (child'[r] = child[r] \/ child'[r] = 0)
    BY <1>0, <1>9
  <2> QED
    BY <1>1, <2>2 DEF Follows
<1>11. ASSUME cause' = {} PROVE OneAtATime' /\ \A r \in Call : Holds(r)'
  <2>1. cause = {} /\ \A r \in Call : ~Launching(r)
    BY <1>1, <1>11
  <2>2. OneAtATime /\ \A r \in Call : Holds(r)
    BY <2>1 DEF BrowserInv
  <2>3. \A r \in Call : ~Launching(r)'
    BY <1>1, <2>1 DEF Launching
  <2>4. OneAtATime'
    BY <1>1, <2>2, <2>3 DEF OneAtATime, Live
  <2>5. ASSUME NEW r \in Call PROVE Holds(r)'
    <3>1. Holds(r) /\ Follows(r)
      BY <1>0, <2>2
    <3>2. ASSUME client = r, Live(<<r, attempt[r]>>) PROVE <<r, attempt[r]>> \in signalled'
      <4>1. stage[r] = "ready" /\ attempt[r] \in {1, 2}
        BY <1>0, <3>1, <3>2, CallAssumption DEF Follows
      <4>2. child[r] = attempt[r]
        BY <3>1, <3>2 DEF Holds, Live
      <4> QED
        BY <1>2, <3>2, <4>1, <4>2, CallAssumption
    <3>3. client # r /\ stage[r] = "ready" /\ Live(<<r, attempt[r]>>) => <<r, attempt[r]>> \in signalled'
      BY <1>5, <3>1 DEF Holds
    <3>4. client' # r /\ (Live(<<r, attempt[r]>>)' <=> Live(<<r, attempt[r]>>))
      BY <1>1, CallAssumption DEF Live
    <3> QED
      BY <1>1, <2>3, <3>1, <3>2, <3>3, <3>4 DEF Holds, Launching
  <2> QED
    BY <2>4, <2>5
<1> QED
  BY <1>1, <1>6, <1>8, <1>10, <1>11 DEF BrowserInv

(* Every step of the browser keeps it. *)
LEMMA BrowserKeeps == ASSUME BrowserInv, BNext PROVE BrowserInv'
<1>1. ASSUME NEW q \in Call, Step(q) PROVE BrowserInv'
  BY <1>1, CommandsKeep, LaunchKeeps, SpawnKeeps, SpawnFailsKeeps, DebuggerAnswersKeeps, PollKeeps,
     ConnectedKeeps, ConnectFailsKeeps DEF Step
<1> QED
  BY <1>1, SocketDropsKeeps, ExitEventKeeps, ChromeKeeps, TeardownKeeps DEF BNext

LEMMA BrowserRests == ASSUME BrowserInv, UNCHANGED bvars PROVE BrowserInv'
BY DEF bvars, BrowserInv, BrowserTypes, Calls, Follows, Holds, OneAtATime, Launching, Live

(* A Chrome that lives is one its client holds, or has been signalled. *)
LEMMA WhatLivesIsHeld ==
  ASSUME BrowserInv, cause = {}, NEW q \in Call, NEW n \in {1, 2}, Live(<<q, n>>)
  PROVE  <<q, n>> \in signalled \/ Held(q, n)
<1>0. BrowserTypes /\ Follows(q) /\ Holds(q)
  BY DEF BrowserInv
<1>1. proc[<<q, n>>] \in {"starting", "ready"} /\ (n = 1 \/ n = 2)
  BY DEF Live
<1>2. stage[q] # "none" /\ attempt[q] \in {1, 2}
  <2>1. n = 1 => proc[<<q, 1>>] # "none"
    BY <1>1
  <2>2. n = 2 => proc[<<q, 2>>] # "none"
    BY <1>1
  <2> QED
    BY <1>0, <1>1, <2>1, <2>2 DEF Follows
<1>3. n = attempt[q]
  BY <1>0, <1>1, <1>2 DEF Follows, Holds
<1>4. CASE stage[q] \in {"port", "failed"}
  BY <1>0, <1>1, <1>3, <1>4 DEF Follows, Holds, Live
<1>5. CASE stage[q] \in {"poll", "connect"}
  BY <1>0, <1>1, <1>3, <1>5 DEF Holds, Held, Launching
<1>6. CASE stage[q] = "ready"
  BY <1>0, <1>1, <1>3, <1>6 DEF Holds, Held, Live
<1> QED
  BY <1>0, <1>2, <1>4, <1>5, <1>6 DEF BrowserTypes

(* Which is what the run checks. *)
LEMMA BrowserInvGives == ASSUME BrowserInv PROVE BTypeOK /\ ChromesAreOwned
<1>0. BrowserTypes /\ (\A q \in Call : Follows(q)) /\ (client # None => stage[client] = "ready")
  BY DEF BrowserInv
<1>1. client \in Call => (proc[Current(client)] = "reaped" => exited[client])
  <2>1. client \in Call => Follows(client) /\ stage[client] = "ready"
    BY <1>0, CallAssumption
  <2> QED
    BY <2>1 DEF Follows, Current
<1>2. BTypeOK
  BY <1>0, <1>1 DEF BTypeOK, BrowserTypes
<1>3. NoOrphan
  BY WhatLivesIsHeld DEF NoOrphan
<1>4. OneChrome
  <2>1. SUFFICES ASSUME cause = {} PROVE Cardinality({p \in Process : Live(p)}) <= 1
    BY DEF OneChrome
  <2>2. \A p, o \in Process : Live(p) /\ Live(o) => p = o
    BY <2>1 DEF BrowserInv, OneAtATime
  <2>3. CASE \E p \in Process : Live(p)
    <3>1. PICK p \in Process : Live(p)
      BY <2>3
    <3>2. {o \in Process : Live(o)} = {p}
      BY <2>2, <3>1
    <3> QED
      BY <3>2, FS_Singleton
  <2>4. CASE ~ \E p \in Process : Live(p)
    <3>1. {o \in Process : Live(o)} = {}
      BY <2>4
    <3> QED
      BY <3>1, FS_EmptySet
  <2> QED
    BY <2>3, <2>4
<1> QED
  BY <1>2, <1>3, <1>4 DEF ChromesAreOwned

----------------------------------------------------------------------------
(* A row of searches.  What was tried and what is to be tried make up what  *)
(* the settings allow; no result has been taken as long as one is sought.  *)

Outcome == [ok : BOOLEAN, size : 1..MaxSize]

SearchTypes ==
  /\ settings \in [pinned : BOOLEAN, pool : 0..MaxPool, ddg : BOOLEAN, maxResults : 0..MaxFound,
                   valid : SUBSET Endpoint]
  /\ searches \in 0..MaxSearch
  /\ search \in [at : {"none", "next", "asked", "headers", "found", "failed", "told"},
                 todo : Seq(Endpoint), tried : Seq(Endpoint), found : 0..MaxFound]
  /\ had \in SUBSET Endpoint
  /\ ring \in Seq(Outcome) /\ Len(ring) <= settings.maxResults

Allowed == ResolveEndpoints \o Fallback
Nothing == had = {} \/ settings.maxResults = 0

Sought ==
  /\ search.at = "none" => search.tried = <<>>
  /\ search.at # "none" => search.tried \o search.todo = Allowed
  /\ search.at \in {"asked", "headers", "found"} => search.tried # <<>>
  /\ search.at \in {"next", "asked", "headers"} => Nothing
  /\ search.at = "found" => had = {Last(search.tried)} /\ search.found > 0
  /\ search.at = "failed" =>
       Nothing /\ (search.tried = Allowed \/ \E e \in ToSet(search.tried) : e \notin settings.valid)

SearchInv == SearchTypes /\ Sought

(* What the settings allow is endpoints; an instance that is set is all.   *)
LEMMA AllowedAre ==
  ASSUME SearchTypes
  PROVE  Allowed \in Seq(Endpoint) /\ (settings.pinned => Allowed = <<Instance>>)
<1>1. MaxPool \in Nat /\ settings.pool \in 0..MaxPool
  BY SearchAssumption DEF SearchTypes
<1>2. {Instance, Local, DuckDuckGo} \subseteq Endpoint /\ \A i \in 1..settings.pool : Public(i) \in Endpoint
  BY <1>1 DEF Endpoint, Public, Instance, Local, DuckDuckGo
<1>3. [i \in 1..settings.pool |-> Public(i)] \in Seq(Endpoint)
  BY <1>1, <1>2
<1>4. <<Instance>> \in Seq(Endpoint) /\ <<Local>> \in Seq(Endpoint) /\ <<DuckDuckGo>> \in Seq(Endpoint) /\ <<>> \in Seq(Endpoint)
  BY <1>2
<1>5. ResolveEndpoints \in Seq(Endpoint)
  BY <1>3, <1>4, ConcatProperties DEF ResolveEndpoints
<1>6. Fallback \in Seq(Endpoint)
  BY <1>4 DEF Fallback
<1>7. Allowed \in Seq(Endpoint)
  BY <1>5, <1>6, ConcatProperties DEF Allowed
<1>8. ASSUME settings.pinned PROVE Allowed = <<Instance>>
  <2>1. ResolveEndpoints = <<Instance>> /\ Fallback = <<>>
    BY <1>8 DEF ResolveEndpoints, Fallback
  <2> QED
    BY <1>4, <2>1, ConcatEmptySeq DEF Allowed
<1> QED
  BY <1>7, <1>8

(* The next of what is to be tried has been tried. *)
LEMMA WalksOn ==
  ASSUME NEW S, NEW s \in Seq(S), NEW t \in Seq(S), t # <<>>
  PROVE  /\ Append(s, Head(t)) \in Seq(S) /\ Tail(t) \in Seq(S) /\ Head(t) \in S
         /\ Append(s, Head(t)) # <<>> /\ Last(Append(s, Head(t))) = Head(t)
         /\ Head(t) \in ToSet(Append(s, Head(t)))
         /\ Append(s, Head(t)) \o Tail(t) = s \o t
<1>1. Head(t) \in S /\ Tail(t) \in Seq(S) /\ Len(t) \in Nat \ {0} /\ Len(s) \in Nat
  BY HeadTailProperties, EmptySeq
<1> DEFINE u == Append(s, Head(t))
<1>2. u \in Seq(S) /\ u # <<>> /\ Len(u) = Len(s) + 1 /\ u[Len(s) + 1] = Head(t) /\ u = s \o <<Head(t)>>
  BY <1>1, AppendProperties, AppendIsConcat
<1>3. Last(u) = Head(t)
  BY <1>2 DEF Last
<1>4. Head(t) \in ToSet(u)
  <2>1. DOMAIN u = 1..Len(u) /\ Len(s) + 1 \in 1..Len(u)
    BY <1>1, <1>2
  <2> QED
    BY <1>2, <2>1 DEF ToSet
<1>5. <<Head(t)>> \o Tail(t) = t
  <2>1. 1 \in 1..Len(t) /\ Len(t) \in 1..Len(t)
    BY <1>1
  <2>2. SubSeq(t, 1, Len(t)) = <<t[1]>> \o SubSeq(t, 2, Len(t))
    BY <2>1, SubSeqRecursiveFirst
  <2>3. SubSeq(t, 1, Len(t)) = t /\ SubSeq(t, 2, Len(t)) = Tail(t)
    BY SubSeqFull, TailIsSubSeq
  <2> QED
    BY <2>2, <2>3
<1>6. u \o Tail(t) = s \o t
  <2>1. <<Head(t)>> \in Seq(S)
    BY <1>1
  <2> QED
    BY <1>1, <1>2, <1>5, <2>1, ConcatAssociative
<1> QED
  BY <1>1, <1>2, <1>3, <1>4, <1>6

(* The ring keeps as many as it may. *)
LEMMA PushResultBounds ==
  ASSUME NEW S, NEW s \in Seq(S), NEW e \in S, NEW max \in Nat
  PROVE  PushResult(s, e, max) \in Seq(S) /\ Len(PushResult(s, e, max)) <= max
<1> DEFINE next == Append(s, e)
           over == IF Len(next) > max THEN Len(next) - max ELSE 0
<1>1. next \in Seq(S) /\ Len(next) \in Nat
  BY AppendProperties
<1>2. over \in Int /\ over >= 0 /\ Len(next) - over <= max /\ over + 1 \in Int /\ Len(next) \in Int
  BY <1>1
<1>3. \A i \in (over + 1)..Len(next) : next[i] \in S
  BY <1>1, <1>2, ElementOfSeq
<1>4. PushResult(s, e, max) = SubSeq(next, over + 1, Len(next))
  BY DEF PushResult
<1> HIDE DEF next, over
<1>5. /\ SubSeq(next, over + 1, Len(next)) \in Seq(S)
      /\ Len(SubSeq(next, over + 1, Len(next))) =
           IF over + 1 <= Len(next) THEN Len(next) - (over + 1) + 1 ELSE 0
  BY <1>2, <1>3, SubSeqProperties
<1> QED
  BY <1>2, <1>4, <1>5

LEMMA SearchStarts == ASSUME SearchInit PROVE SearchInv
<1>1. /\ searches = 0 /\ search = NoSearch /\ ring = <<>> /\ had = {}
      /\ settings \in [pinned : BOOLEAN, pool : 0..MaxPool, ddg : BOOLEAN, maxResults : 0..MaxFound,
                       valid : SUBSET Endpoint]
  BY DEF SearchInit
<1>2. 0 \in 0..MaxSearch /\ 0 \in 0..MaxFound
  BY SearchAssumption
<1>3. search \in [at : {"none", "next", "asked", "headers", "found", "failed", "told"},
                  todo : Seq(Endpoint), tried : Seq(Endpoint), found : 0..MaxFound]
  BY <1>1, <1>2 DEF NoSearch
<1>4. ring \in Seq(Outcome) /\ Len(ring) <= settings.maxResults
  <2>1. settings.maxResults \in Nat
    BY <1>1, SearchAssumption
  <2> QED
    BY <1>1, <2>1
<1> QED
  BY <1>1, <1>2, <1>3, <1>4 DEF SearchInv, SearchTypes, Sought, NoSearch

(* What of a search does not matter to its walk. *)
LEMMA AllowedStays == ASSUME settings' = settings PROVE Allowed' = Allowed
BY DEF Allowed, ResolveEndpoints, Fallback

SearchRecords ==
  [at : {"none", "next", "asked", "headers", "found", "failed", "told"},
   todo : Seq(Endpoint), tried : Seq(Endpoint), found : 0..MaxFound]

(* A search is made. *)
LEMMA SearchesKeeps == ASSUME SearchInv, Searches PROVE SearchInv'
<1>0. SearchTypes /\ Sought
  BY DEF SearchInv
<1>1. /\ searches' = searches + 1 /\ searches < MaxSearch /\ had' = {} /\ settings' = settings /\ ring' = ring
      /\ search' = [at |-> "next", todo |-> Allowed, tried |-> <<>>, found |-> 0]
  BY DEF Searches, NoSearch, Allowed
<1>2. Allowed \in Seq(Endpoint) /\ Allowed' = Allowed
  BY <1>0, <1>1, AllowedAre, AllowedStays
<1>3. search' \in SearchRecords
  BY <1>1, <1>2, SearchAssumption DEF SearchRecords
<1>4. searches' \in 0..MaxSearch
  BY <1>0, <1>1, SearchAssumption DEF SearchTypes
<1>5. SearchTypes'
  BY <1>0, <1>1, <1>3, <1>4 DEF SearchTypes, SearchRecords
<1>6. <<>> \o Allowed = Allowed
  BY <1>2, ConcatEmptySeq
<1>7. Sought'
  BY <1>1, <1>2, <1>6 DEF Sought, Nothing
<1> QED
  BY <1>5, <1>7 DEF SearchInv

(* The next endpoint is asked. *)
LEMMA TriesKeeps == ASSUME SearchInv, Tries PROVE SearchInv'
<1>0. SearchTypes /\ Sought /\ search \in SearchRecords
  BY DEF SearchInv, SearchTypes, SearchRecords
<1> DEFINE e == Head(search.todo)
           u == Append(search.tried, e)
<1>1. /\ search.at = "next" /\ search.todo # <<>> /\ UNCHANGED <<settings, searches, ring, had>>
      /\ search' = [search EXCEPT !.tried = u, !.todo = Tail(search.todo),
                                  !.at = IF e \in settings.valid THEN "asked" ELSE "failed"]
  BY DEF Tries
<1>2. search.tried \in Seq(Endpoint) /\ search.todo \in Seq(Endpoint) /\ search.found \in 0..MaxFound
  BY <1>0 DEF SearchRecords
<1>3. /\ u \in Seq(Endpoint) /\ Tail(search.todo) \in Seq(Endpoint) /\ u # <<>> /\ e \in ToSet(u)
      /\ u \o Tail(search.todo) = search.tried \o search.todo
  <2>1. search.todo # <<>>
    BY <1>1
  <2> QED
    BY <1>2, <2>1, WalksOn
<1> HIDE DEF e, u
<1>4. /\ search'.tried = u /\ search'.todo = Tail(search.todo) /\ search'.found = search.found
      /\ search'.at = IF e \in settings.valid THEN "asked" ELSE "failed"
  BY <1>0, <1>1 DEF SearchRecords
<1>5. search' \in SearchRecords
  BY <1>0, <1>1, <1>3 DEF SearchRecords
<1>6. SearchTypes'
  BY <1>0, <1>1, <1>5 DEF SearchTypes, SearchRecords
<1>7. search'.tried \o search'.todo = Allowed'
  BY <1>0, <1>1, <1>3, <1>4, AllowedStays DEF Sought
<1>8. Nothing'
  BY <1>0, <1>1 DEF Sought, Nothing
<1>9. Sought'
  BY <1>1, <1>3, <1>4, <1>7, <1>8 DEF Sought
<1> QED
  BY <1>6, <1>9 DEF SearchInv

(* There is none any more. *)
LEMMA AllFailedKeeps == ASSUME SearchInv, AllFailed PROVE SearchInv'
<1>0. SearchTypes /\ Sought /\ search \in SearchRecords
  BY DEF SearchInv, SearchTypes, SearchRecords
<1>1. /\ search.at = "next" /\ search.todo = <<>> /\ UNCHANGED <<settings, searches, ring, had>>
      /\ search' = [search EXCEPT !.at = "failed"]
  BY DEF AllFailed, NotThere
<1>2. /\ search'.at = "failed" /\ search'.todo = search.todo /\ search'.tried = search.tried
      /\ search' \in SearchRecords /\ search.tried \in Seq(Endpoint)
  BY <1>0, <1>1 DEF SearchRecords
<1>3. SearchTypes'
  BY <1>0, <1>1, <1>2 DEF SearchTypes, SearchRecords
<1>4. Allowed' = Allowed /\ search.tried \o search.todo = Allowed /\ Nothing'
  BY <1>0, <1>1, AllowedStays DEF Sought, Nothing
<1>5. search.tried = Allowed
  BY <1>1, <1>2, <1>4, ConcatEmptySeq
<1>6. Sought'
  BY <1>2, <1>4, <1>5 DEF Sought
<1> QED
  BY <1>3, <1>6 DEF SearchInv

(* An endpoint refuses, its headers come, or its body fails. *)
LEMMA AskingKeeps == ASSUME SearchInv, Refuses \/ Headers \/ BodyFails PROVE SearchInv'
<1>0. SearchTypes /\ Sought /\ search \in SearchRecords
  BY DEF SearchInv, SearchTypes, SearchRecords
<1>1. /\ search.at \in {"asked", "headers"} /\ UNCHANGED <<settings, searches, ring, had>>
      /\ search' = [search EXCEPT !.at = "next"] \/ search' = [search EXCEPT !.at = "headers"]
  BY DEF Refuses, Headers, BodyFails
<1>2. /\ search'.at \in {"next", "headers"} /\ search'.todo = search.todo /\ search'.tried = search.tried
      /\ search' \in SearchRecords
  BY <1>0, <1>1 DEF SearchRecords
<1>3. SearchTypes'
  BY <1>0, <1>1, <1>2 DEF SearchTypes, SearchRecords
<1>4. Allowed' = Allowed /\ Nothing' /\ search.tried # <<>> /\ search.tried \o search.todo = Allowed
  BY <1>0, <1>1, AllowedStays DEF Sought, Nothing
<1>5. Sought'
  BY <1>2, <1>4 DEF Sought
<1> QED
  BY <1>3, <1>5 DEF SearchInv

(* The body comes. *)
LEMMA BodyKeeps == ASSUME SearchInv, NEW n \in 0..MaxFound, Body(n) PROVE SearchInv'
<1>0. SearchTypes /\ Sought /\ search \in SearchRecords
  BY DEF SearchInv, SearchTypes, SearchRecords
<1> DEFINE taken == IF n > settings.maxResults THEN settings.maxResults ELSE n
<1>1. /\ search.at = "headers" /\ UNCHANGED <<settings, searches, ring>>
      /\ search' = [search EXCEPT !.at = Kept(taken), !.found = taken]
      /\ had' = IF n > 0 THEN had \cup {Last(search.tried)} ELSE had
  BY DEF Body
<1>2. settings.maxResults \in 0..MaxFound /\ MaxFound \in Nat
  BY <1>0, SearchAssumption DEF SearchTypes
<1>3. taken \in 0..MaxFound /\ (taken > 0 => n > 0 /\ settings.maxResults # 0) /\ (taken = 0 => n = 0 \/ settings.maxResults = 0)
  BY <1>2
<1>4. Kept(taken) = IF taken = 0 THEN "next" ELSE "found"
  BY DEF Kept
<1> HIDE DEF taken
<1>5. /\ search'.at = Kept(taken) /\ search'.found = taken /\ search'.todo = search.todo /\ search'.tried = search.tried
      /\ search' \in SearchRecords
  BY <1>0, <1>1, <1>3, <1>4 DEF SearchRecords
<1>6. search.tried \in Seq(Endpoint) /\ search.tried # <<>>
  BY <1>0, <1>1 DEF Sought, SearchRecords
<1>7. Last(search.tried) \in Endpoint
  BY <1>6, ElementOfSeq, EmptySeq DEF Last
<1>8. had' \in SUBSET Endpoint
  BY <1>0, <1>1, <1>7 DEF SearchTypes
<1>9. SearchTypes'
  BY <1>0, <1>1, <1>5, <1>8 DEF SearchTypes, SearchRecords
<1>10. Allowed' = Allowed /\ Nothing /\ search.tried \o search.todo = Allowed
  BY <1>0, <1>1, AllowedStays DEF Sought
<1>11. CASE taken = 0
  <2>1. search'.at = "next"
    BY <1>4, <1>5, <1>11
  <2>2. Nothing'
    <3>1. n = 0 => ~(n > 0)
      OBVIOUS
    <3> QED
      BY <1>1, <1>3, <1>10, <1>11, <3>1 DEF Nothing
  <2>3. Sought'
    BY <1>5, <1>6, <1>10, <2>1, <2>2 DEF Sought
  <2> QED
    BY <1>9, <2>3 DEF SearchInv
<1>12. CASE taken # 0
  <2>1. taken > 0
    BY <1>3, <1>12
  <2>2. search'.at = "found" /\ n > 0 /\ settings.maxResults # 0
    BY <1>3, <1>4, <1>5, <1>12, <2>1
  <2>3. had' = {Last(search.tried)}
    BY <1>1, <1>10, <2>2 DEF Nothing
  <2>4. Sought'
    BY <1>5, <1>6, <1>10, <2>1, <2>2, <2>3 DEF Sought
  <2> QED
    BY <1>9, <2>4 DEF SearchInv
<1> QED
  BY <1>11, <1>12

(* The outcome is told. *)
LEMMA TellsKeeps == ASSUME SearchInv, NEW size \in 1..MaxSize, Tells(size) PROVE SearchInv'
<1>0. SearchTypes /\ Sought /\ search \in SearchRecords
  BY DEF SearchInv, SearchTypes, SearchRecords
<1> DEFINE e == [ok |-> search.at = "found", size |-> size]
<1>1. /\ search.at \in {"found", "failed"} /\ UNCHANGED <<settings, searches, had>>
      /\ ring' = PushResult(ring, e, settings.maxResults) /\ search' = [search EXCEPT !.at = "told"]
  BY DEF Tells
<1>2. e \in Outcome
  BY DEF Outcome
<1>3. ring \in Seq(Outcome) /\ settings.maxResults \in Nat
  BY <1>0, SearchAssumption DEF SearchTypes
<1> HIDE DEF e
<1>4. ring' \in Seq(Outcome) /\ Len(ring') <= settings.maxResults
  BY <1>1, <1>2, <1>3, PushResultBounds
<1>5. /\ search'.at = "told" /\ search'.todo = search.todo /\ search'.tried = search.tried
      /\ search' \in SearchRecords
  BY <1>0, <1>1 DEF SearchRecords
<1>6. SearchTypes'
  BY <1>0, <1>1, <1>4, <1>5 DEF SearchTypes, SearchRecords
<1>7. Allowed' = Allowed /\ search.tried \o search.todo = Allowed
  BY <1>0, <1>1, AllowedStays DEF Sought
<1>8. Sought'
  BY <1>5, <1>7 DEF Sought
<1> QED
  BY <1>6, <1>8 DEF SearchInv

LEMMA SearchKeeps == ASSUME SearchInv, SearchNext PROVE SearchInv'
BY SearchesKeeps, TriesKeeps, AllFailedKeeps, AskingKeeps, BodyKeeps, TellsKeeps DEF SearchNext

LEMMA SearchRests == ASSUME SearchInv, UNCHANGED shvars PROVE SearchInv'
BY AllowedStays DEF shvars, SearchInv, SearchTypes, Sought, Nothing

(* The beginning of what two lists make up is the first of them. *)
LEMMA BeginsWith ==
  ASSUME NEW S, NEW s \in Seq(S), NEW t \in Seq(S), NEW i \in 1..Len(s)
  PROVE  i \in 1..Len(s \o t) /\ (s \o t)[i] = s[i]
<1>1. Len(s) \in Nat /\ Len(t) \in Nat
  OBVIOUS
<1>2. i \in 1..(Len(s) + Len(t)) /\ i <= Len(s)
  BY <1>1
<1> QED
  BY <1>2, ConcatProperties

(* Which is what the run checks. *)
LEMMA SearchInvGives == ASSUME SearchInv PROVE SearchTypeOK /\ SearchFinds
<1>0. SearchTypes /\ Sought /\ search.tried \in Seq(Endpoint) /\ search.todo \in Seq(Endpoint)
  BY DEF SearchInv, SearchTypes
<1>1. SearchTypeOK
  BY <1>0 DEF SearchTypeOK, SearchTypes, Outcome
<1>2. ASSUME settings.pinned PROVE ToSet(search.tried) \subseteq {Instance}
  <2>1. CASE search.at = "none"
    BY <1>0, <2>1 DEF Sought, ToSet
  <2>2. CASE search.at # "none"
    <3>1. search.tried \o search.todo = <<Instance>>
      BY <1>0, <1>2, <2>2, AllowedAre DEF Sought
    <3>2. DOMAIN search.tried = 1..Len(search.tried)
      BY <1>0, LenProperties
    <3>3. ASSUME NEW i \in 1..Len(search.tried) PROVE search.tried[i] = Instance
      <4> DEFINE w == search.tried \o search.todo
      <4>1. i \in 1..Len(w) /\ w[i] = search.tried[i]
        BY <1>0, BeginsWith
      <4>2. w = <<Instance>>
        BY <3>1
      <4> HIDE DEF w
      <4> QED
        BY <4>1, <4>2
    <3> QED
      BY <3>2, <3>3 DEF ToSet
  <2> QED
    BY <2>1, <2>2
<1>3. ASSUME search.at = "failed", NEW e \in ToSet(search.tried), e \notin settings.valid
      PROVE  ~ToSet(Allowed) \subseteq settings.valid
  <2>1. PICK i \in DOMAIN search.tried : e = search.tried[i]
    BY <1>3 DEF ToSet
  <2>2. i \in 1..Len(search.tried)
    BY <1>0, <2>1, LenProperties
  <2>3. Allowed = search.tried \o search.todo /\ Allowed \in Seq(Endpoint)
    BY <1>0, <1>3, AllowedAre DEF Sought
  <2>4. i \in 1..Len(Allowed) /\ Allowed[i] = e
    BY <1>0, <2>1, <2>2, <2>3, BeginsWith
  <2>5. i \in DOMAIN Allowed
    BY <2>3, <2>4, LenProperties
  <2>6. e \in ToSet(Allowed)
    BY <2>4, <2>5 DEF ToSet
  <2> QED
    BY <1>3, <2>6
<1>4. SearchFinds
  BY <1>0, <1>2, <1>3 DEF SearchFinds, Sought, Nothing, Allowed
<1> QED
  BY <1>1, <1>4

----------------------------------------------------------------------------
(* A command in a shell.  What is kept is what was written, as far as it    *)
(* fits; once it has been killed nothing of its group lives; and once it   *)
(* has been answered, nobody who holds the pipes does.                     *)

AsFarAsItFits(n) == IF n < MaxOutput THEN n ELSE MaxOutput

ShellTypes ==
  /\ command \in {"none", "running", "settled"}
  /\ live \in SUBSET Proc /\ group \in SUBSET Proc /\ holds \in SUBSET Proc
  /\ code \in {"none", "zero", "failed", "signal"} /\ armed \in BOOLEAN /\ killed \in BOOLEAN
  /\ written \in 0..MaxWritten /\ captured \in 0..MaxOutput

BeforeIt ==
  command = "none" => live = {} /\ code = "none" /\ ~armed /\ ~killed /\ written = 0 /\ captured = 0

WhileItRuns ==
  command = "running" =>
    /\ captured = AsFarAsItFits(written)
    /\ killed => ~armed /\ live \cap group = {}
    /\ code = "signal" => killed

AfterIt ==
  command = "settled" => ~armed /\ Leader \notin live /\ live \cap holds = {}

ShellInv == ShellTypes /\ BeforeIt /\ WhileItRuns /\ AfterIt /\ AnswersWhole

LEMMA ShellConstants == MaxOutput \in Nat /\ MaxWritten \in Nat /\ Leader \notin Child /\ 0 \in 0..MaxOutput /\ 0 \in 0..MaxWritten
BY ShellAssumption DEF Leader

LEMMA ShellStarts == ASSUME ShellInit PROVE ShellInv
<1>1. ShellTypes
  BY ShellConstants DEF ShellInit, ShellTypes
<1> QED
  BY <1>1 DEF ShellInit, ShellInv, BeforeIt, WhileItRuns, AfterIt, AnswersWhole

LEMMA RunShellKeeps == ASSUME ShellInv, RunShell PROVE ShellInv'
<1>1. /\ command = "none" /\ command' = "running" /\ armed' = TRUE
      /\ live' = {Leader} /\ group' = {Leader} /\ holds' = {Leader}
      /\ UNCHANGED <<code, killed, written, captured, answer, edit>>
  BY DEF RunShell
<1>2. ShellTypes'
  BY <1>1 DEF ShellInv, ShellTypes, Proc
<1>3. captured' = AsFarAsItFits(written')
  BY <1>1, ShellConstants DEF ShellInv, BeforeIt, AsFarAsItFits
<1>4. WhileItRuns'
  BY <1>1, <1>3 DEF ShellInv, BeforeIt, WhileItRuns, AsFarAsItFits
<1> QED
  BY <1>1, <1>2, <1>4 DEF ShellInv, BeforeIt, AfterIt, AnswersWhole

LEMMA SpawnErrorKeeps == ASSUME ShellInv, SpawnError PROVE ShellInv'
<1>1. /\ command = "none" /\ command' = "settled" /\ armed' = FALSE
      /\ UNCHANGED <<live, group, holds, code, killed, written, captured, edit>>
  BY DEF SpawnError, Done
<1> QED
  BY <1>1 DEF ShellInv, ShellTypes, BeforeIt, WhileItRuns, AfterIt, AnswersWhole

LEMMA CloseKeeps == ASSUME ShellInv, Close PROVE ShellInv'
<1>1. /\ command = "running" /\ Leader \notin live /\ live \cap holds = {} /\ command' = "settled" /\ armed' = FALSE
      /\ answer' = [exitCode |-> code, timedOut |-> killed, kept |-> captured]
      /\ UNCHANGED <<live, group, holds, code, killed, written, captured, edit>>
  BY DEF Close, Ready, Done
<1>2. answer'.kept = captured /\ answer'.timedOut = killed /\ answer'.exitCode = code
  BY <1>1
<1>3. AnswersWhole'
  BY <1>1, <1>2 DEF ShellInv, WhileItRuns, AnswersWhole, AsFarAsItFits
<1> QED
  BY <1>1, <1>3 DEF ShellInv, ShellTypes, BeforeIt, WhileItRuns, AfterIt

LEMMA HardKillKeeps == ASSUME ShellInv, HardKill PROVE ShellInv'
<1>1. /\ armed /\ armed' = FALSE /\ killed' = TRUE /\ live' = live \ group
      /\ code' = IF Leader \in live THEN "signal" ELSE code
      /\ UNCHANGED <<command, group, holds, written, captured, answer, edit>>
  BY DEF HardKill, KillTree
<1>2. command = "running"
  BY <1>1 DEF ShellInv, ShellTypes, BeforeIt, AfterIt
<1>3. ShellTypes'
  BY <1>1 DEF ShellInv, ShellTypes
<1>4. WhileItRuns'
  BY <1>1, <1>2 DEF ShellInv, WhileItRuns, AsFarAsItFits
<1> QED
  BY <1>1, <1>2, <1>3, <1>4 DEF ShellInv, BeforeIt, AfterIt, AnswersWhole

LEMMA WritesKeeps == ASSUME ShellInv, NEW p \in Proc, Writes(p) PROVE ShellInv'
<1>0. ShellTypes /\ BeforeIt /\ WhileItRuns /\ AfterIt
  BY DEF ShellInv
<1>1. /\ p \in live \cap holds /\ written < MaxWritten /\ written' = written + 1
      /\ captured' = IF command = "running" THEN Capture(1) ELSE captured
      /\ UNCHANGED <<command, live, group, holds, code, armed, killed, answer, edit>>
  BY DEF Writes
<1>2. command = "running"
  BY <1>0, <1>1 DEF ShellTypes, BeforeIt, AfterIt
<1>3. /\ captured' = IF captured + 1 <= MaxOutput THEN captured + 1 ELSE MaxOutput
      /\ captured = AsFarAsItFits(written) /\ written \in 0..MaxWritten
  BY <1>0, <1>1, <1>2 DEF Capture, WhileItRuns, ShellTypes
<1>4. captured' = AsFarAsItFits(written') /\ captured' \in 0..MaxOutput /\ written' \in 0..MaxWritten
  BY <1>1, <1>3, ShellConstants DEF AsFarAsItFits
<1>5. ShellTypes'
  BY <1>0, <1>1, <1>4 DEF ShellTypes
<1>6. WhileItRuns'
  BY <1>0, <1>1, <1>2, <1>4 DEF WhileItRuns
<1> QED
  BY <1>1, <1>2, <1>5, <1>6 DEF ShellInv, BeforeIt, AfterIt, AnswersWhole

LEMMA EndsKeeps == ASSUME ShellInv, NEW p \in Proc, Ends(p) PROVE ShellInv'
<1>0. ShellTypes /\ BeforeIt /\ WhileItRuns /\ AfterIt /\ AnswersWhole
  BY DEF ShellInv
<1>1. /\ p \in live /\ live' = live \ {p}
      /\ code' \in (IF p = Leader THEN {"zero", "failed"} ELSE {code})
      /\ UNCHANGED <<command, group, holds, armed, killed, written, captured, answer, edit>>
  BY DEF Ends
<1>2. command # "none"
  BY <1>0, <1>1 DEF BeforeIt
<1>3. ShellTypes'
  BY <1>0, <1>1 DEF ShellTypes
<1>4. CASE command = "running"
  <2>1. WhileItRuns'
    BY <1>0, <1>1, <1>4 DEF WhileItRuns, AsFarAsItFits
  <2> QED
    BY <1>1, <1>3, <1>4, <2>1 DEF ShellInv, BeforeIt, AfterIt, AnswersWhole
<1>5. CASE command = "settled"
  <2>1. code' = code
    BY <1>0, <1>1, <1>5 DEF AfterIt
  <2>2. AnswersWhole'
    BY <1>0, <1>1, <1>5, <2>1 DEF AnswersWhole
  <2>3. AfterIt'
    BY <1>0, <1>1, <1>5 DEF AfterIt
  <2> QED
    BY <1>1, <1>3, <1>5, <2>2, <2>3 DEF ShellInv, BeforeIt, WhileItRuns
<1> QED
  BY <1>0, <1>2, <1>4, <1>5 DEF ShellTypes

LEMMA ForksKeeps == ASSUME ShellInv, NEW p \in Proc, NEW c \in Child, Forks(p, c) PROVE ShellInv'
<1>0. ShellTypes /\ BeforeIt /\ WhileItRuns /\ AfterIt /\ AnswersWhole
  BY DEF ShellInv
<1>1. /\ p \in live /\ c \notin live \cup group \cup holds /\ live' = live \cup {c}
      /\ (group' = group \cup {c} /\ p \in group) \/ group' = group
      /\ (holds' = holds \cup {c} /\ p \in holds) \/ holds' = holds
      /\ UNCHANGED <<command, code, armed, killed, written, captured, answer, edit>>
  BY DEF Forks
<1>2. command # "none" /\ c # Leader
  BY <1>0, <1>1, ShellConstants DEF BeforeIt
<1>3. live \cap group = {} => live' \cap group' = {}
  BY <1>1
<1>4. live \cap holds = {} => live' \cap holds' = {}
  BY <1>1
<1>5. ShellTypes'
  BY <1>0, <1>1 DEF ShellTypes, Proc
<1>6. WhileItRuns'
  BY <1>0, <1>1, <1>3 DEF WhileItRuns, AsFarAsItFits
<1>7. AfterIt'
  BY <1>0, <1>1, <1>2, <1>4 DEF AfterIt
<1>8. AnswersWhole'
  BY <1>0, <1>1, <1>3 DEF AnswersWhole
<1> QED
  BY <1>1, <1>2, <1>5, <1>6, <1>7, <1>8 DEF ShellInv, BeforeIt

LEMMA ShellKeeps == ASSUME ShellInv, ShellNext PROVE ShellInv'
BY RunShellKeeps, SpawnErrorKeeps, HardKillKeeps, CloseKeeps, WritesKeeps, EndsKeeps, ForksKeeps DEF ShellNext

LEMMA ShellRests == ASSUME ShellInv, UNCHANGED shellvars PROVE ShellInv'
BY DEF shellvars, ShellInv, ShellTypes, BeforeIt, WhileItRuns, AfterIt, AnswersWhole, AsFarAsItFits

LEMMA ShellInvGives == ASSUME ShellInv PROVE ShellTypeOK /\ AnswersWhole
BY DEF ShellInv, ShellTypes, ShellTypeOK

----------------------------------------------------------------------------
(* The three side by side.                                                 *)

(* What holds of the tools at every moment: of the browser's clients, what  *)
(* they hold; of the search, what was tried; of the command, what is kept  *)
(* and who lives.                                                          *)
ToolsInv == BrowserInv /\ SearchInv /\ ShellInv

LEMMA ToolsStep == ASSUME ToolsInv, [ToolsNext]_toolVars PROVE ToolsInv'
<1>1. CASE ToolsNext
  BY <1>1, BrowserKeeps, BrowserRests, SearchKeeps, SearchRests, ShellKeeps, ShellRests DEF ToolsInv, ToolsNext
<1>2. CASE UNCHANGED toolVars
  BY <1>2, BrowserRests, SearchRests, ShellRests DEF ToolsInv, toolVars
<1> QED
  BY <1>1, <1>2

LEMMA ToolsGive == ASSUME ToolsInv PROVE ToolsTypeOK /\ ToolsAreSound
BY BrowserInvGives, SearchInvGives, ShellInvGives DEF ToolsInv, ToolsTypeOK, ToolsAreSound

(* However launches, exits, answers, forks and deadlines fall: a client of  *)
(* the browser holds its Chrome or knows that it has exited, what was tried *)
(* of a search and what is to be tried are what the settings allow, and of  *)
(* a command that was killed nothing in its group lives.                   *)
THEOREM ToolsInvariant == ToolsSpec => []ToolsInv
<1>1. ToolsInit => ToolsInv
  BY BrowserStarts, SearchStarts, ShellStarts DEF ToolsInit, ToolsInv
<1> QED
  BY <1>1, ToolsStep, PTL DEF ToolsSpec

(* The browser, the search and the shell are well-typed, and a client whose *)
(* Chrome has exited knows it, so that the next call replaces it.          *)
THEOREM ToolsTypeCorrect == ToolsSpec => []ToolsTypeOK
BY ToolsInvariant, ToolsGive, PTL

(* No Chrome is left running that nobody could kill, nor two of them, but   *)
(* for the four ways that `cause' names; a search finds what the first      *)
(* endpoint with results had, and fails only when all it may ask have       *)
(* failed; a command's answer has all that was written to its pipes, and    *)
(* one that timed out leaves nothing of its group.                         *)
THEOREM ToolsStaySound == ToolsSpec => []ToolsAreSound
BY ToolsInvariant, ToolsGive, PTL
=============================================================================
