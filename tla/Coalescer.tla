----------------------------- MODULE Coalescer -----------------------------
(***************************************************************************)
(* What the send lock of llm-core promises the rest of the agent, without  *)
(* saying how: for each agent id at most one worker is busy, a request     *)
(* that finds the id idle is served at once, a request that finds it busy  *)
(* becomes demand, any number of them one demand, and demand is served by  *)
(* one more attempt that begins after the last request.  Once the plugin   *)
(* is closed no request is accepted and a worker may give up.              *)
(***************************************************************************)
CONSTANT Key

VARIABLES
  working,   \* the agent ids with a worker
  demand,    \* the agent ids with a request no attempt has begun after
  open       \* the plugin still listens

cvars == <<working, demand, open>>

CTypeOK ==
  /\ working \in SUBSET Key
  /\ demand \in SUBSET Key
  /\ open \in BOOLEAN

CInit ==
  /\ working = {}
  /\ demand = {}
  /\ open = TRUE

(* A request for an idle id starts its worker and is thereby served. *)
Serve(k) ==
  /\ open
  /\ k \notin working
  /\ working' = working \cup {k}
  /\ UNCHANGED <<demand, open>>

(* A request for a busy id is remembered, once. *)
Remember(k) ==
  /\ open
  /\ k \in working
  /\ demand' = demand \cup {k}
  /\ UNCHANGED <<working, open>>

(* The worker begins the attempt that serves every remembered request. *)
Again(k) ==
  /\ k \in working
  /\ k \in demand
  /\ demand' = demand \ {k}
  /\ UNCHANGED <<working, open>>

(* A worker rests only when nothing is left to serve. *)
Rest(k) ==
  /\ k \in working
  /\ k \notin demand
  /\ working' = working \ {k}
  /\ UNCHANGED <<demand, open>>

Close ==
  /\ open
  /\ open' = FALSE
  /\ UNCHANGED <<working, demand>>

(* After the plugin is closed a worker may stop with demand unserved. *)
Abandon(k) ==
  /\ ~open
  /\ k \in working
  /\ working' = working \ {k}
  /\ UNCHANGED <<demand, open>>

CNext ==
  \/ Close
  \/ \E k \in Key : Serve(k) \/ Remember(k) \/ Again(k) \/ Rest(k) \/ Abandon(k)

(* While the plugin is open, remembered requests are eventually served. *)
CSpec ==
  /\ CInit
  /\ [][CNext]_cvars
  /\ \A k \in Key : WF_cvars(Again(k) \/ (~open /\ Rest(k)) \/ Abandon(k))
=============================================================================
