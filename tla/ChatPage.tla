------------------------------ MODULE ChatPage ------------------------------
(***************************************************************************)
(* The chat page in a browser tab and the hub it talks to.  The page shows *)
(* one agent at a time: it opens a stream, on which the hub replays the    *)
(* agent's transcript, greets, and sends what happens from then on, in      *)
(* order.  What the user says goes by requests of their own, whose answers *)
(* come whenever they come; the list of agents is asked for every five     *)
(* seconds (and is answered as it is asked for).  A stream that is lost is *)
(* opened again by the browser, which tells the page nothing about it.     *)
(***************************************************************************)
EXTENDS Naturals, Sequences, FiniteSets

CONSTANTS
  Chatter,     \* agents with a web channel
  Nobody,      \* no agent
  MaxSaid,     \* bound: messages and replies ever said
  MaxStreams,  \* bound: streams ever opened
  MaxReboots   \* bound: restarts of the process that serves

ASSUME ChatPageAssumption == Nobody \notin Chatter /\ {MaxSaid, MaxStreams, MaxReboots} \subseteq Nat

VARIABLES
  listed,      \* the agents registered with the hub
  trusted,     \* the tab's cookie is the token of this process
  said,        \* what was said so far, by anyone (the ids come from here)
  chat,        \* per agent: its transcript
  stream,      \* the page's stream: the agent it is of, and how it is
  wire,        \* what the hub wrote to it that the page has not got
  posts,       \* the requests that carry what the user says
  current,     \* the agent the page shows
  known,       \* the agents it lists
  log,         \* the rows it shows
  greeted,     \* it had an output on this stream
  connected,   \* it says "connected"
  locked,      \* it says "not authorized"
  opens,       \* how many streams were opened, which also numbers them
  reboots,
  broken,      \* the stream was lost since the agent was selected (history)
  crossed,     \* what was said before its stream was served, and so is replayed too, or
               \* was answered to a page that shows another agent (history)
  unheard,     \* what was posted without an answer (history)
  overtaken,   \* what was read before its row was there (history)
  news         \* the outputs the user was notified of (history)

hubside == <<listed, trusted, said, chat>>
pageside == <<current, known, log, greeted, connected, locked>>
notes4 == <<broken, crossed, unheard, overtaken, news>>
hvars == <<listed, trusted, said, chat, stream, wire, posts, current, known, log, greeted,
           connected, locked, opens, reboots, broken, crossed, unheard, overtaken, news>>

(* A row, of the transcript or on the page; the greeting is numbered 0. *)
Row == [by : {"me", "agent"}, n : 0..MaxSaid, read : BOOLEAN]
Greeting == [by |-> "agent", n |-> 0, read |-> FALSE]

Event == [type : {"open", "history", "output", "read"}, rows : Seq(Row), n : 0..MaxSaid]
Streamed(type, rows, n) == [type |-> type, rows |-> rows, n |-> n]

NoStream == [of |-> Nobody, state |-> "none"]

HTypeOK ==
  /\ listed \subseteq Chatter /\ known \subseteq Chatter /\ current \in Chatter \cup {Nobody}
  /\ chat \in [Chatter -> Seq(Row)] /\ log \in Seq(Row) /\ wire \in Seq(Event)
  /\ stream \in [of : Chatter \cup {Nobody}, state : {"none", "opening", "open", "ended", "dead"}]
  /\ posts \subseteq [of : Chatter, at : {"sent", "answered"}, n : 0..MaxSaid, k : 0..MaxSaid]
  /\ {trusted, greeted, connected, locked, broken} \subseteq BOOLEAN
  /\ said \in 0..MaxSaid /\ opens \in 0..MaxStreams /\ reboots \in 0..MaxReboots
  /\ crossed \cup unheard \cup overtaken \cup news \subseteq 0..MaxSaid
  /\ (current = Nobody) = (stream = NoStream)

HInit ==
  /\ listed = Chatter /\ trusted = TRUE /\ said = 0 /\ chat = [a \in Chatter |-> <<>>]
  /\ stream = NoStream /\ wire = <<>> /\ posts = {}
  /\ current = Nobody /\ known = {} /\ log = <<>> /\ greeted = FALSE /\ connected = FALSE /\ locked = FALSE
  /\ opens = 0 /\ reboots = 0
  /\ broken = FALSE /\ crossed = {} /\ unheard = {} /\ overtaken = {} /\ news = {}

Numbers(rows) == {rows[i].n : i \in {j \in DOMAIN rows : rows[j].by = "me"}}

----------------------------------------------------------------------------
(* The hub.                                                                *)

(* What is written to every open stream of an agent. *)
Broadcast(a, event) ==
  wire' = IF stream = [of |-> a, state |-> "open"] THEN Append(wire, event) ELSE wire

(* An agent speaks: its transcript first, then its streams. *)
Speaks(a) ==
  /\ a \in listed /\ said < MaxSaid
  /\ said' = said + 1
  /\ LET reply == [by |-> "agent", n |-> said + 1, read |-> FALSE]
     IN chat' = [chat EXCEPT ![a] = Append(@, reply)] /\ Broadcast(a, Streamed("output", <<reply>>, reply.n))
  /\ UNCHANGED <<listed, trusted, stream, posts, pageside, opens, reboots, notes4>>

(* A receipt: the return of the request that carried a message. *)
Receipt(a) ==
  /\ a \in listed
  /\ \E i \in DOMAIN chat[a] :
       /\ chat[a][i].by = "me" /\ ~chat[a][i].read
       /\ chat' = [chat EXCEPT ![a][i].read = TRUE]
       /\ Broadcast(a, Streamed("read", <<>>, chat[a][i].n))
  /\ UNCHANGED <<listed, trusted, said, stream, posts, pageside, opens, reboots, notes4>>

(* Mutant of ServeStream: only what is said from now on is streamed. *)
ServeStreamLive ==
  /\ stream.state = "opening" /\ trusted /\ stream.of \in listed
  /\ stream' = [stream EXCEPT !.state = "open"]
  /\ wire' = <<Streamed("open", <<>>, 0), Streamed("output", <<Greeting>>, 0)>>
  /\ UNCHANGED <<hubside, posts, pageside, opens, reboots, notes4>>

(* A stream is asked for.  What it begins with and its joining the others    *)
(* are one synchronous stretch: nothing is said in between.                *)
ServeStream ==
  /\ stream.state = "opening" /\ trusted /\ stream.of \in listed
  /\ stream' = [stream EXCEPT !.state = "open"]
  /\ wire' = <<Streamed("open", <<>>, 0), Streamed("history", chat[stream.of], 0),
               Streamed("output", <<Greeting>>, 0)>>
  /\ crossed' = crossed \cup {n \in Numbers(chat[stream.of]) :
                              n \in Numbers(log) \/ \E p \in posts : p.n = n}
  /\ UNCHANGED <<hubside, posts, pageside, opens, reboots, broken, unheard, overtaken, news>>

(* 401 or 404: a browser never asks again for a stream that was refused. *)
RefuseStream ==
  /\ stream.state = "opening" /\ ~(trusted /\ stream.of \in listed)
  /\ stream' = [stream EXCEPT !.state = "dead"]
  /\ connected' = FALSE
  /\ UNCHANGED <<hubside, wire, posts, current, known, log, greeted, locked, opens, reboots, notes4>>

(* A message is numbered, recorded, delivered and answered with its number; *)
(* the page makes nothing of the status the streams are sent.              *)
TakeMessage(p) ==
  /\ p.at = "sent" /\ trusted /\ p.of \in listed
  /\ said < MaxSaid
  /\ said' = said + 1
  /\ chat' = [chat EXCEPT ![p.of] = Append(@, [by |-> "me", n |-> said + 1, read |-> FALSE])]
  /\ posts' = (posts \ {p}) \cup {[p EXCEPT !.at = "answered", !.n = said + 1]}
  /\ UNCHANGED <<listed, trusted, stream, wire, pageside, opens, reboots, notes4>>

(* An agent is torn down, with its streams; agents register one by one.     *)
Leaves(a) ==
  /\ a \in listed /\ reboots < MaxReboots
  /\ reboots' = reboots + 1
  /\ listed' = listed \ {a}
  /\ stream' = IF stream = [of |-> a, state |-> "open"] THEN [stream EXCEPT !.state = "ended"] ELSE stream
  /\ UNCHANGED <<trusted, said, chat, wire, posts, pageside, opens, notes4>>

Joins(a) ==
  /\ a \notin listed
  /\ listed' = listed \cup {a}
  /\ UNCHANGED <<trusted, said, chat, stream, wire, posts, pageside, opens, reboots, notes4>>

(* The process ends, and with it its streams and its token; the next one    *)
(* has the transcripts, and another token unless one is configured.        *)
Reboots ==
  /\ reboots < MaxReboots
  /\ reboots' = reboots + 1
  /\ listed' = {}
  /\ trusted' \in BOOLEAN
  /\ stream' = IF stream.state = "open" THEN [stream EXCEPT !.state = "ended"] ELSE stream
  /\ UNCHANGED <<said, chat, wire, posts, pageside, opens, notes4>>

(* The user opens the new link, in whatever tab. *)
Trusts ==
  /\ ~trusted
  /\ trusted' = TRUE
  /\ UNCHANGED <<listed, said, chat, stream, wire, posts, pageside, opens, reboots, notes4>>

----------------------------------------------------------------------------
(* The page.                                                               *)

(* Mutant of Select: another agent's rows are kept. *)
SelectKeeping(a) ==
  /\ opens < MaxStreams
  /\ opens' = opens + 1
  /\ stream' = [of |-> a, state |-> "opening"] /\ wire' = <<>>
  /\ current' = a /\ log' = log /\ greeted' = FALSE /\ connected' = FALSE
  /\ broken' = FALSE /\ news' = {}

(* The old stream is closed, with all that was on its way, and nothing is   *)
(* kept of what was shown.                                                 *)
Select(a) ==
  /\ opens < MaxStreams
  /\ opens' = opens + 1
  /\ stream' = [of |-> a, state |-> "opening"] /\ wire' = <<>>
  /\ current' = a /\ log' = <<>> /\ greeted' = FALSE /\ connected' = FALSE
  /\ broken' = FALSE /\ news' = {}

Picks(a) ==
  /\ a \in known
  /\ Select(a)
  /\ UNCHANGED <<hubside, posts, known, locked, reboots, crossed, unheard, overtaken>>

(* The row that a number stands for is the last that was made for it.      *)
MarkRead(n) ==
  LET is == {i \in DOMAIN log : log[i].n = n /\ log[i].by = "me"}
  IN IF is = {}
     THEN log' = log /\ overtaken' = overtaken \cup {n}
     ELSE /\ log' = [log EXCEPT ![CHOOSE i \in is : \A j \in is : j <= i].read = TRUE]
          /\ UNCHANGED overtaken

(* Any message confirms that the channel is live. *)
OnMessage ==
  /\ wire # <<>>
  /\ wire' = Tail(wire)
  /\ connected' = TRUE
  /\ LET e == Head(wire)
     IN /\ IF e.type = "read" THEN MarkRead(e.n) ELSE log' = log \o e.rows /\ UNCHANGED overtaken
        /\ greeted' = (greeted \/ e.type = "output")
        /\ news' = IF e.type = "output" /\ greeted THEN news \cup {e.n} ELSE news
  /\ UNCHANGED <<hubside, stream, posts, current, known, locked, opens, reboots, broken, crossed, unheard>>

(* The connection is lost, or ends: the browser asks again, and the page     *)
(* waits.                                                                  *)
OnError ==
  /\ \/ stream.state = "open" /\ reboots < MaxReboots /\ reboots' = reboots + 1 /\ wire' = <<>>
     \/ stream.state = "ended" /\ UNCHANGED reboots /\ wire = <<>> /\ UNCHANGED wire
  /\ opens < MaxStreams
  /\ opens' = opens + 1
  /\ stream' = [stream EXCEPT !.state = "opening"]
  /\ connected' = FALSE
  /\ broken' = TRUE
  /\ UNCHANGED <<hubside, posts, current, known, log, greeted, locked, crossed, unheard, overtaken, news>>

(* The box is emptied before the answer. *)
SubmitComposer ==
  /\ current # Nobody
  /\ Cardinality(posts) + said < MaxSaid
  /\ \E k \in 0..MaxSaid :
       /\ \A p \in posts : p.k # k
       /\ \A j \in 0..MaxSaid : j < k => \E p \in posts : p.k = j
       /\ posts' = posts \cup {[of |-> current, at |-> "sent", n |-> 0, k |-> k]}
  /\ UNCHANGED <<hubside, stream, wire, pageside, opens, reboots, notes4>>

(* The answer adds a row to the log that is shown, whosever it is.          *)
SubmitAnswered(p) ==
  /\ p.at = "answered"
  /\ posts' = posts \ {p}
  /\ log' = Append(log, [by |-> "me", n |-> p.n, read |-> FALSE])
  /\ crossed' = IF p.of # current THEN crossed \cup {p.n} ELSE crossed
  /\ UNCHANGED <<hubside, stream, wire, current, known, greeted, connected, locked, opens, reboots,
                 broken, unheard, overtaken, news>>

(* No connection, 401 or 404, or no answer: nothing is shown of it. *)
SubmitFails(p) ==
  /\ posts' = posts \ {p}
  /\ unheard' = unheard \cup ({p.n} \ {0})
  /\ UNCHANGED <<hubside, stream, wire, pageside, opens, reboots, broken, crossed, overtaken, news>>

(* The list is asked for every five seconds.  Who is not authorized loses    *)
(* all it had, and the stream with it.                                     *)
ShowLocked ==
  /\ ~trusted
  /\ locked' = TRUE /\ current' = Nobody /\ log' = <<>>
  /\ stream' = NoStream /\ wire' = <<>>
  /\ UNCHANGED <<hubside, posts, known, greeted, connected, opens, reboots, notes4>>

RosterLoaded ==
  /\ trusted
  /\ locked' = FALSE
  /\ known' = listed
  /\ IF current = Nobody /\ listed # {}
     THEN \E a \in listed : Select(a)
     ELSE UNCHANGED <<stream, wire, current, log, greeted, connected, opens, broken, news>>
  /\ UNCHANGED <<hubside, posts, reboots, crossed, unheard, overtaken>>

HubStep ==
  \/ ServeStream \/ RefuseStream \/ Reboots \/ Trusts
  \/ \E a \in Chatter : Speaks(a) \/ Receipt(a) \/ Leaves(a) \/ Joins(a)
  \/ \E p \in posts : TakeMessage(p)

PageStep ==
  \/ OnMessage \/ OnError \/ SubmitComposer \/ ShowLocked \/ RosterLoaded
  \/ \E a \in Chatter : Picks(a)
  \/ \E p \in posts : SubmitAnswered(p) \/ SubmitFails(p)

HNext == HubStep \/ PageStep

HSpec == HInit /\ [][HNext]_hvars

----------------------------------------------------------------------------
(* Properties.                                                             *)

(* What the page shows, and will once it has what is on the wire: the places *)
(* of the rows, those of the log and then those that each event adds.       *)
RowsOf(k) == IF k = 0 THEN log ELSE wire[k].rows
Coming == UNION {{<<k, i>> : i \in DOMAIN RowsOf(k)} : k \in 0..Len(wire)}
RowAt(c) == RowsOf(c[1])[c[2]]
Above(c, d) == c[1] < d[1] \/ (c[1] = d[1] /\ c[2] < d[2])

IsReply(row) == row.by = "agent" /\ row.n # 0
IsMine(row, n) == row.by = "me" /\ row.n = n
Mine(rows, n) == {i \in DOMAIN rows : IsMine(rows[i], n)}

(* Exactly one place of those that come. *)
OnceThere(places) == \E c \in places : places = {c}

(* A stream that was not lost since the agent was selected. *)
Unbroken == stream.state = "open" /\ ~broken

(* On an unbroken stream every reply of the agent is shown once and in the   *)
(* order in which it was said (numbers ascend), and no other agent's; the   *)
(* greeting is there once and is not news.                                 *)
RepliesShown ==
  Unbroken =>
    /\ {RowAt(c).n : c \in {d \in Coming : IsReply(RowAt(d))}}
         = {chat[current][i].n : i \in {j \in DOMAIN chat[current] : IsReply(chat[current][j])}}
    /\ \A c, d \in Coming :
         IsReply(RowAt(c)) /\ IsReply(RowAt(d)) /\ Above(c, d) => RowAt(c).n < RowAt(d).n
    /\ OnceThere({c \in Coming : RowAt(c).n = 0})
    /\ 0 \notin news

(* So is every message of the user, but for those sent before the stream was  *)
(* served, those whose answer came to another agent's page, and those whose  *)
(* answer did not come.                                                    *)
MessagesShown ==
  Unbroken =>
    /\ \A n \in Numbers(chat[current]) \ (crossed \cup unheard) :
         (\A p \in posts : p.n # n) => OnceThere({c \in Coming : IsMine(RowAt(c), n)})
    /\ Numbers(log) \subseteq Numbers(chat[current]) \cup crossed

(* A double tick tells the truth; a single one too, once the page has what   *)
(* is on the wire, unless the receipt came before the message was shown.    *)
TicksAreTrue ==
  \A i \in DOMAIN log : log[i].by = "me" =>
    /\ log[i].read => \E a \in Chatter : \E j \in Mine(chat[a], log[i].n) : chat[a][j].read
    /\ Unbroken /\ ~log[i].read /\ log[i].n \notin crossed \cup overtaken =>
         \A j \in Mine(chat[current], log[i].n) :
           chat[current][j].read => \E k \in DOMAIN wire : wire[k].type = "read" /\ wire[k].n = log[i].n
=============================================================================
