--------------------------- MODULE Operator_proofs ---------------------------
(***************************************************************************)
(* What the operator can rely on, for any number of processes, commands,   *)
(* agents, tokens, tabs, pages, services, contents and calls: first the    *)
(* processes and their supervisor; then what the operator's windows show,  *)
(* the surfaces that the dashboard frames (Surfaces) and the tabs that the *)
(* tools of the browser work in (Tabs); then the two editors, of the       *)
(* settings and of the catalogue of services; and last all of it together. *)
(***************************************************************************)
EXTENDS MCOperator, SequenceTheorems, FiniteSetTheorems, WellFoundedInduction, TLAPS

----------------------------------------------------------------------------
(* The processes (Processes): what the steps of a command may look like     *)
(* while it runs.  A reading is followed by the truncation of what was     *)
(* read, a start in the background by the record of it; nothing is started *)
(* twice.                                                                  *)

Rd(f) == [act |-> "read", file |-> f]
Tr(f) == [act |-> "truncate", file |-> f]
Sp(w) == [act |-> "spawn", what |-> w]
Ap(w) == [act |-> "append", what |-> w]
InBackground == {"runtime", "config", "console"}
InDashboard == {"config", "console"}

Sound(s) ==
  /\ s \in Seq(Step)
  /\ \A i \in 1..Len(s) :
       \/ \E f \in File : s[i] = Rd(f) /\ i + 1 <= Len(s) /\ s[i + 1] = Tr(f)
       \/ \E f \in File : s[i] = Tr(f) /\ (i > 1 => s[i - 1] = Rd(f))
       \/ \E w \in InBackground : s[i] = Sp(w) /\ i + 1 <= Len(s) /\ s[i + 1] = Ap(w)
       \/ \E w \in InBackground : s[i] = Ap(w) /\ (i > 1 => s[i - 1] = Sp(w))
       \/ s[i] = Sp("foreground")
  /\ \A i, j \in 1..Len(s) : s[i] = s[j] /\ s[i].act = "spawn" => i = j

Scripts ==
  /\ todo \in [Command -> Seq(Step)]
  /\ \A c \in Command : Sound(todo[c])
  /\ \A c \in Command : c > given => todo[c] = <<>>

(* What is in a pid file was started, and what a command is about to record *)
(* it started.                                                             *)
Records ==
  /\ \A f \in File : \A p \in pidFile[f] : daemon[p].what # "unborn"
  /\ \A f \in File : f \notin present => pidFile[f] = {}
  /\ \A p \in Pid : daemon[p].what = "unborn" => ~Live(p)
  /\ \A c \in Command : Doing(c, "append") =>
       child[c] \in Pid /\ daemon[child[c]].what = Head(todo[c]).what
  /\ DaemonsRecorded

(* Of two commands about a file it is known that they crossed; of one that  *)
(* is about to truncate, that it kills whatever lives of the record.       *)
Apart ==
  /\ \A c, d \in Command : \A f \in About(todo[c]) \cap About(todo[d]) : c = d \/ f \in crossed
  /\ \A c \in Command : Doing(c, "truncate") =>
       LET f == Head(todo[c]).file IN
       f \notin crossed => \A p \in pidFile[f] : Live(p) => p \in targets[c]

(* No runtime beside another, and of the dashboard's two no second either:  *)
(* none lives when one is to be started and the dashboard not first stopped. *)
Imminent(s, w) ==
  \E i \in 1..Len(s) : s[i] = Sp(w) /\ \A j \in 1..(i - 1) : s[j] # Tr("dashboard")

Single ==
  /\ ~doubled => \A p, q \in Pid :
       Live(p) /\ Live(q) /\ {daemon[p].what, daemon[q].what} \subseteq {"runtime", "foreground"} => p = q
  /\ "dashboard" \notin crossed =>
       /\ \A p, q \in Pid :
            Live(p) /\ Live(q) /\ daemon[p].what = daemon[q].what /\ daemon[p].what \in InDashboard => p = q
       /\ \A c \in Command, w \in InDashboard :
            Imminent(todo[c], w) => \A p \in Pid : ~(Live(p) /\ daemon[p].what = w)

PRInv == PRTypeOK /\ KilledStaysDown /\ Scripts /\ Records /\ Apart /\ Single

(* The scripts are sound: each is a row of at most three such pairs.        *)
LEMMA PairType ==
  /\ \A f \in File : Rd(f) \in Step /\ Tr(f) \in Step
  /\ \A w \in Daemon : Sp(w) \in Step /\ Ap(w) \in Step
  /\ InBackground \subseteq Daemon
BY DEF Rd, Tr, Sp, Ap, Step, InBackground, Daemon

LEMMA TwoPairs ==
  ASSUME NEW a \in Step, NEW b \in Step, NEW c \in Step, NEW d \in Step
  PROVE LET s == <<a, b>> \o <<c, d>> IN
        s \in Seq(Step) /\ Len(s) = 4 /\ s[1] = a /\ s[2] = b /\ s[3] = c /\ s[4] = d
<1>1. /\ <<a, b>> \in Seq(Step) /\ Len(<<a, b>>) = 2 /\ <<a, b>>[1] = a /\ <<a, b>>[2] = b
      /\ <<c, d>> \in Seq(Step) /\ Len(<<c, d>>) = 2 /\ <<c, d>>[1] = c /\ <<c, d>>[2] = d
  OBVIOUS
<1> QED
  BY <1>1, ConcatProperties

LEMMA ThreePairs ==
  ASSUME NEW s \in Seq(Step), Len(s) = 4, NEW e \in Step, NEW f \in Step
  PROVE LET t == s \o <<e, f>> IN
        /\ t \in Seq(Step) /\ Len(t) = 6 /\ t[1] = s[1] /\ t[2] = s[2] /\ t[3] = s[3] /\ t[4] = s[4]
        /\ t[5] = e /\ t[6] = f
<1> DEFINE u == <<e, f>>
           t == s \o u
<1>1. u \in Seq(Step) /\ Len(u) = 2 /\ u[1] = e /\ u[2] = f
  OBVIOUS
<1> HIDE DEF u
<1>2. /\ t \in Seq(Step) /\ Len(t) = Len(s) + Len(u)
      /\ \A i \in 1..Len(s) + Len(u) : t[i] = IF i <= Len(s) THEN s[i] ELSE u[i - Len(s)]
  BY <1>1, ConcatProperties
<1> HIDE DEF t
<1>3. Len(t) = 6 /\ \A i \in 1..6 : t[i] = IF i <= 4 THEN s[i] ELSE u[i - 4]
  BY <1>1, <1>2
<1>4. t[1] = s[1] /\ t[2] = s[2] /\ t[3] = s[3] /\ t[4] = s[4] /\ t[5] = u[1] /\ t[6] = u[2]
  BY <1>3
<1> QED
  BY <1>1, <1>2, <1>3, <1>4 DEF t, u

LEMMA FirstOf ==
  ASSUME NEW s \in Seq(Step), Len(s) > 0
  PROVE s # <<>> /\ Head(s) = s[1]
BY EmptySeq, HeadTailProperties

Stopped(s) == \A w \in InDashboard : ~Imminent(s, w)

LEMMA ScriptsAreSound ==
  ASSUME NEW does \in {"run", "start", "stop", "restart", "dashboard"}
  PROVE /\ Sound(Script(does)) /\ Script(does) # <<>> /\ Stopped(Script(does))
        /\ Head(Script(does)).act \in {"read", "spawn"}
<1> DEFINE s == Script(does)
<1>0. /\ \A f \in File : Rd(f) \in Step /\ Tr(f) \in Step /\ Halt(f) = <<Rd(f), Tr(f)>>
      /\ \A w \in Daemon : Sp(w) \in Step /\ Ap(w) \in Step /\ Launch(w) = <<Sp(w), Ap(w)>>
      /\ {"runtime", "config", "console", "foreground"} \subseteq Daemon
      /\ {"runtime", "dashboard"} = File
  BY PairType DEF Halt, Launch, Rd, Tr, Sp, Ap, Daemon, File
<1> SUFFICES Sound(s) /\ s # <<>> /\ Stopped(s) /\ Head(s).act \in {"read", "spawn"}
  OBVIOUS
<1>1. CASE does = "run"
  <2>1. s = <<Sp("foreground")>>
    BY <1>0, <1>1 DEF Script, Sp
  <2>2. /\ s \in Seq(Step) /\ Len(s) = 1
        /\ s[1] = Sp("foreground")
    BY <1>0, <2>1
  <2> HIDE DEF s
  <2>3. s # <<>> /\ Head(s) = s[1]
    <3>1. s \in Seq(Step) /\ Len(s) > 0
      BY <2>2
    <3> QED
      BY <3>1, FirstOf
  <2>4. Sound(s)
    BY <1>0, <2>2 DEF Sound, Rd, Tr, Sp, Ap, InDashboard, InBackground
  <2>5. Stopped(s)
    BY <2>2 DEF Stopped, Imminent, Rd, Tr, Sp, Ap, InDashboard
  <2> QED
    BY <2>2, <2>3, <2>4, <2>5 DEF Rd, Sp
<1>2. CASE does = "start"
  <2>1. s = <<Sp("runtime"), Ap("runtime")>>
    BY <1>0, <1>2 DEF Script, Sp
  <2>2. /\ s \in Seq(Step) /\ Len(s) = 2
        /\ s[1] = Sp("runtime") /\ s[2] = Ap("runtime")
    BY <1>0, <2>1
  <2> HIDE DEF s
  <2>3. s # <<>> /\ Head(s) = s[1]
    <3>1. s \in Seq(Step) /\ Len(s) > 0
      BY <2>2
    <3> QED
      BY <3>1, FirstOf
  <2>4. Sound(s)
    BY <1>0, <2>2 DEF Sound, Rd, Tr, Sp, Ap, InDashboard, InBackground
  <2>5. Stopped(s)
    BY <2>2 DEF Stopped, Imminent, Rd, Tr, Sp, Ap, InDashboard
  <2> QED
    BY <2>2, <2>3, <2>4, <2>5 DEF Rd, Sp
<1>3. CASE does = "stop"
  <2>1. s = <<Rd("runtime"), Tr("runtime")>> \o <<Rd("dashboard"), Tr("dashboard")>>
    BY <1>0, <1>3 DEF Script, Sp
  <2>2. /\ s \in Seq(Step) /\ Len(s) = 4
        /\ s[1] = Rd("runtime") /\ s[2] = Tr("runtime") /\ s[3] = Rd("dashboard")
        /\ s[4] = Tr("dashboard")
    BY <1>0, <2>1, TwoPairs
  <2> HIDE DEF s
  <2>3. s # <<>> /\ Head(s) = s[1]
    <3>1. s \in Seq(Step) /\ Len(s) > 0
      BY <2>2
    <3> QED
      BY <3>1, FirstOf
  <2>4. Sound(s)
    BY <1>0, <2>2 DEF Sound, Rd, Tr, Sp, Ap, InDashboard, InBackground
  <2>5. Stopped(s)
    BY <2>2 DEF Stopped, Imminent, Rd, Tr, Sp, Ap, InDashboard
  <2> QED
    BY <2>2, <2>3, <2>4, <2>5 DEF Rd, Sp
<1>4. CASE does = "restart"
  <2>1. s = <<Rd("runtime"), Tr("runtime")>> \o <<Sp("runtime"), Ap("runtime")>>
    BY <1>0, <1>4 DEF Script, Sp
  <2>2. /\ s \in Seq(Step) /\ Len(s) = 4
        /\ s[1] = Rd("runtime") /\ s[2] = Tr("runtime") /\ s[3] = Sp("runtime")
        /\ s[4] = Ap("runtime")
    BY <1>0, <2>1, TwoPairs
  <2> HIDE DEF s
  <2>3. s # <<>> /\ Head(s) = s[1]
    <3>1. s \in Seq(Step) /\ Len(s) > 0
      BY <2>2
    <3> QED
      BY <3>1, FirstOf
  <2>4. Sound(s)
    BY <1>0, <2>2 DEF Sound, Rd, Tr, Sp, Ap, InDashboard, InBackground
  <2>5. Stopped(s)
    BY <2>2 DEF Stopped, Imminent, Rd, Tr, Sp, Ap, InDashboard
  <2> QED
    BY <2>2, <2>3, <2>4, <2>5 DEF Rd, Sp
<1>5. CASE does = "dashboard"
  <2> DEFINE t == <<Rd("dashboard"), Tr("dashboard")>> \o <<Sp("config"), Ap("config")>>
  <2>0. /\ t \in Seq(Step) /\ Len(t) = 4
        /\ t[1] = Rd("dashboard") /\ t[2] = Tr("dashboard") /\ t[3] = Sp("config") /\ t[4] = Ap("config")
    BY <1>0, TwoPairs
  <2>1. s = t \o <<Sp("console"), Ap("console")>>
    BY <1>0, <1>5 DEF Script, Sp
  <2> HIDE DEF t
  <2>2. /\ s \in Seq(Step) /\ Len(s) = 6
        /\ s[1] = Rd("dashboard") /\ s[2] = Tr("dashboard") /\ s[3] = Sp("config")
        /\ s[4] = Ap("config") /\ s[5] = Sp("console") /\ s[6] = Ap("console")
    BY <1>0, <2>1, <2>0, ThreePairs
  <2> HIDE DEF s
  <2>3. s # <<>> /\ Head(s) = s[1]
    <3>1. s \in Seq(Step) /\ Len(s) > 0
      BY <2>2
    <3> QED
      BY <3>1, FirstOf
  <2>4. Sound(s)
    BY <1>0, <2>2 DEF Sound, Rd, Tr, Sp, Ap, InDashboard, InBackground
  <2>5. Stopped(s)
    <3> SUFFICES ASSUME NEW w \in InDashboard, NEW i \in 1..Len(s), s[i] = Sp(w) PROVE 2 \in 1..(i - 1)
      BY <2>2 DEF Stopped, Imminent
    <3> QED
      BY <2>2 DEF Rd, Tr, Sp
  <2> QED
    BY <2>2, <2>3, <2>4, <2>5 DEF Rd, Sp
<1> QED
  BY <1>1, <1>2, <1>3, <1>4, <1>5

(* What is left of a sound row is sound. *)
LEMMA SoundTail ==
  ASSUME NEW s, Sound(s), s # <<>>
  PROVE /\ Sound(Tail(s)) /\ Len(Tail(s)) = Len(s) - 1 /\ Len(s) \in Nat \ {0}
        /\ \A i \in 1..(Len(s) - 1) : Tail(s)[i] = s[i + 1]
        /\ Head(s) = s[1] /\ Head(s) \in Step
<1>1. /\ s \in Seq(Step) /\ Len(s) \in Nat \ {0}
      /\ Tail(s) \in Seq(Step) /\ Len(Tail(s)) = Len(s) - 1
      /\ \A i \in 1..(Len(s) - 1) : Tail(s)[i] = s[i + 1]
      /\ Head(s) = s[1] /\ Head(s) \in Step
  BY HeadTailProperties, LenProperties, EmptySeq DEF Sound
<1> DEFINE t == Tail(s)
<1>2. /\ t \in Seq(Step) /\ Len(t) = Len(s) - 1
      /\ \A i \in 1..Len(t) : t[i] = s[i + 1] /\ i + 1 \in 1..Len(s)
  BY <1>1
<1> HIDE DEF t
<1>3. ASSUME NEW i \in 1..Len(t)
      PROVE \/ \E f \in File : t[i] = Rd(f) /\ i + 1 <= Len(t) /\ t[i + 1] = Tr(f)
            \/ \E f \in File : t[i] = Tr(f) /\ (i > 1 => t[i - 1] = Rd(f))
            \/ \E w \in InBackground : t[i] = Sp(w) /\ i + 1 <= Len(t) /\ t[i + 1] = Ap(w)
            \/ \E w \in InBackground : t[i] = Ap(w) /\ (i > 1 => t[i - 1] = Sp(w))
            \/ t[i] = Sp("foreground")
  <2>1. t[i] = s[i + 1] /\ i + 1 \in 1..Len(s) /\ i + 1 > 1 /\ (i + 1) - 1 = i
    BY <1>2
  <2>2. i + 1 <= Len(t) => t[i + 1] = s[(i + 1) + 1]
    BY <1>1, <1>2
  <2>3. i > 1 => t[i - 1] = s[i]
    BY <1>1, <1>2
  <2>4. (i + 1) + 1 <= Len(s) => i + 1 <= Len(t)
    BY <1>1, <1>2
  <2> QED
    BY <2>1, <2>2, <2>3, <2>4, ZenonT(60) DEF Sound
<1>4. ASSUME NEW i \in 1..Len(t), NEW j \in 1..Len(t), t[i] = t[j], t[i].act = "spawn" PROVE i = j
  <2>1. i + 1 = j + 1
    BY <1>2, <1>4 DEF Sound
  <2> QED
    BY <2>1
<1> QED
  BY <1>1, <1>2, <1>3, <1>4 DEF Sound, t

(* What the first step of a sound row says of the next, and of the files    *)
(* that the row is about.                                                  *)
LEMMA FirstStep ==
  ASSUME NEW s, Sound(s), s # <<>>
  PROVE /\ \/ \E f \in File : Head(s) = Rd(f) /\ Tail(s) # <<>> /\ Head(Tail(s)) = Tr(f)
           \/ \E f \in File : Head(s) = Tr(f)
           \/ \E w \in InBackground : Head(s) = Sp(w) /\ Tail(s) # <<>> /\ Head(Tail(s)) = Ap(w)
           \/ \E w \in InBackground : Head(s) = Ap(w)
           \/ Head(s) = Sp("foreground")
        /\ Head(s).act \notin {"read", "spawn"} \/ Head(s) = Sp("foreground") =>
             Tail(s) = <<>> \/ Head(Tail(s)).act \in {"read", "spawn"}
<1>1. /\ Sound(Tail(s)) /\ Len(Tail(s)) = Len(s) - 1 /\ Len(s) \in Nat \ {0}
      /\ \A i \in 1..(Len(s) - 1) : Tail(s)[i] = s[i + 1]
      /\ Head(s) = s[1] /\ s \in Seq(Step) /\ Tail(s) \in Seq(Step)
  BY SoundTail DEF Sound
<1>2. 2 <= Len(s) => Tail(s) # <<>> /\ Head(Tail(s)) = s[2]
  <2>1. 2 <= Len(s) => Len(Tail(s)) > 0
    BY <1>1
  <2>2. 2 <= Len(s) => Tail(s)[1] = s[2]
    BY <1>1
  <2> QED
    BY <1>1, <2>1, <2>2, FirstOf
<1>3. ~(2 <= Len(s)) => Tail(s) = <<>>
  BY <1>1, EmptySeq
<1>4. \/ \E f \in File : s[1] = Rd(f) /\ 2 <= Len(s) /\ s[2] = Tr(f)
      \/ \E f \in File : s[1] = Tr(f)
      \/ \E w \in InBackground : s[1] = Sp(w) /\ 2 <= Len(s) /\ s[2] = Ap(w)
      \/ \E w \in InBackground : s[1] = Ap(w)
      \/ s[1] = Sp("foreground")
  BY <1>1 DEF Sound
<1>5. 2 <= Len(s) =>
      \/ \E f \in File : s[2] = Rd(f)
      \/ \E f \in File : s[2] = Tr(f) /\ s[1] = Rd(f)
      \/ \E w \in InBackground : s[2] = Sp(w)
      \/ \E w \in InBackground : s[2] = Ap(w) /\ s[1] = Sp(w)
      \/ s[2] = Sp("foreground")
  BY <1>1 DEF Sound
<1>6. 2 <= Len(s) /\ (s[1].act \notin {"read", "spawn"} \/ s[1] = Sp("foreground"))
      => s[2].act \in {"read", "spawn"}
  <2>1. /\ \A f \in File : Rd(f).act = "read"
        /\ \A w \in Daemon : Sp(w).act = "spawn" /\ Sp(w).what = w
        /\ InBackground \subseteq Daemon \ {"foreground"} /\ "foreground" \in Daemon
    BY DEF Rd, Sp, Daemon, InBackground
  <2> QED
    BY <1>5, <2>1
<1> QED
  BY <1>1, <1>2, <1>3, <1>4, <1>6

LEMMA AboutTail ==
  ASSUME NEW s, Sound(s), s # <<>>
  PROVE /\ About(Tail(s)) \subseteq About(s)
        /\ \A f \in File : Head(s) \in {Rd(f), Tr(f)} => f \in About(s)
        /\ \A w \in InBackground : Head(s) \in {Sp(w), Ap(w)} => FileOf(w) \in About(s)
<1>1. /\ Tail(s) \in Seq(Step) /\ Len(Tail(s)) = Len(s) - 1 /\ Len(s) \in Nat \ {0}
      /\ \A i \in 1..(Len(s) - 1) : Tail(s)[i] = s[i + 1]
      /\ Head(s) = s[1] /\ s \in Seq(Step) /\ DOMAIN s = 1..Len(s) /\ DOMAIN Tail(s) = 1..Len(Tail(s))
  BY SoundTail, LenProperties DEF Sound
<1>2. \A i \in DOMAIN Tail(s) : i + 1 \in DOMAIN s /\ Tail(s)[i] = s[i + 1]
  BY <1>1
<1>3. 1 \in DOMAIN s
  BY <1>1
<1> QED
  BY <1>1, <1>2, <1>3 DEF About, Rd, Tr, Sp, Ap, InBackground, FileOf, File

LEMMA ImminentTail ==
  ASSUME NEW s, Sound(s), s # <<>>, NEW w \in InDashboard
  PROVE /\ Head(s) = Sp(w) => Imminent(s, w) /\ ~Imminent(Tail(s), w)
        /\ Imminent(Tail(s), w) /\ Head(s) # Tr("dashboard") => Imminent(s, w)
        /\ Imminent(s, w) => "dashboard" \in About(s)
<1>1. /\ Tail(s) \in Seq(Step) /\ Len(Tail(s)) = Len(s) - 1 /\ Len(s) \in Nat \ {0}
      /\ \A i \in 1..(Len(s) - 1) : Tail(s)[i] = s[i + 1]
      /\ Head(s) = s[1] /\ s \in Seq(Step) /\ DOMAIN s = 1..Len(s)
  BY SoundTail, LenProperties DEF Sound
<1>2. Head(s) = Sp(w) => Imminent(s, w)
  BY <1>1 DEF Imminent
<1>3. ASSUME Imminent(Tail(s), w) PROVE Head(s) # Sp(w) /\ (Head(s) # Tr("dashboard") => Imminent(s, w))
  <2>1. PICK i \in 1..(Len(s) - 1) : Tail(s)[i] = Sp(w) /\ \A j \in 1..(i - 1) : Tail(s)[j] # Tr("dashboard")
    BY <1>1, <1>3 DEF Imminent
  <2>2. i + 1 \in 1..Len(s) /\ s[i + 1] = Sp(w) /\ i + 1 # 1
    BY <1>1, <2>1
  <2>3. Head(s) # Sp(w)
    <3>1. \A k, m \in 1..Len(s) : s[k] = s[m] /\ s[k].act = "spawn" => k = m
      BY DEF Sound
    <3>2. Sp(w).act = "spawn" /\ 1 \in 1..Len(s)
      BY <1>1 DEF Sp
    <3> QED
      BY <1>1, <2>2, <3>1, <3>2
  <2>4. ASSUME Head(s) # Tr("dashboard"), NEW j \in 1..((i + 1) - 1) PROVE s[j] # Tr("dashboard")
    <3>1. CASE j = 1
      BY <1>1, <2>4, <3>1
    <3>2. CASE j # 1
      <4>1. j - 1 \in 1..(i - 1) /\ j - 1 \in 1..(Len(s) - 1) /\ (j - 1) + 1 = j
        BY <1>1, <2>1, <3>2
      <4>2. Tail(s)[j - 1] = s[j]
        BY <1>1, <4>1
      <4> QED
        BY <2>1, <4>1, <4>2
    <3> QED
      BY <3>1, <3>2
  <2> QED
    BY <2>2, <2>3, <2>4 DEF Imminent
<1>4. Imminent(s, w) => "dashboard" \in About(s)
  BY <1>1 DEF Imminent, About, Sp, InDashboard, FileOf, File
<1> QED
  BY <1>2, <1>3, <1>4

(* At first nobody lives, whether or not a run in the foreground is over.   *)
LEMMA ProcessesInit == PRInit \/ ProcessesAtFirst => PRInv
<1> SUFFICES ASSUME PRInit \/ ProcessesAtFirst PROVE PRInv
  OBVIOUS
<1>1. PICK over \in BOOLEAN :
        /\ daemon = [p \in Pid |-> [what |-> IF over /\ p = 1 THEN "foreground" ELSE "unborn",
                                    leads |-> FALSE, boot |-> "none"]]
        /\ given \in {0, 1}
        /\ pidFile = [f \in File |-> {}] /\ present = {}
        /\ todo = [c \in Command |-> <<>>] /\ targets = [c \in Command |-> {}]
        /\ child = [c \in Command |-> Nothing] /\ host = [c \in Command |-> Nothing]
        /\ crossed = {} /\ doubled = FALSE /\ orphans = {}
  <2>1. CASE PRInit
    BY <2>1 DEF PRInit
  <2>2. CASE ProcessesAtFirst
    BY <2>2 DEF ProcessesAtFirst
  <2> QED
    BY <2>1, <2>2
<1>2. \A c \in Command : todo[c] = <<>> /\ Len(todo[c]) = 0 /\ DOMAIN todo[c] = {}
  BY <1>1
<1>3. PRTypeOK
  <2>1. daemon \in [Pid -> [what : Daemon, leads : BOOLEAN, boot : {"none", "up", "leaving", "dying"}]]
    BY <1>1 DEF Daemon
  <2>2. /\ pidFile \in [File -> SUBSET Pid] /\ present \subseteq File
        /\ targets \in [Command -> SUBSET Pid]
        /\ child \in [Command -> Pid \cup {Nothing}] /\ host \in [Command -> Pid \cup {Nothing}]
        /\ crossed \subseteq File /\ doubled \in BOOLEAN /\ orphans \subseteq Pid
    BY <1>1
  <2>3. given \in 0..MaxCommand
    BY <1>1, ProcessesAssumption
  <2> QED
    BY <1>2, <2>1, <2>2, <2>3 DEF PRTypeOK
<1>4. Sound(<<>>) /\ \A w : ~Imminent(<<>>, w)
  BY DEF Sound, Imminent
<1>5. Scripts
  BY <1>1, <1>4 DEF Scripts
<1>6. \A p \in Pid : ~Live(p) /\ daemon[p].boot = "none"
  BY <1>1 DEF Live
<1>7. Records /\ KilledStaysDown
  BY <1>1, <1>2, <1>6 DEF Records, Doing, DaemonsRecorded, KilledStaysDown
<1>8. Apart
  BY <1>1, <1>2 DEF Apart, Doing, About
<1>9. Single
  BY <1>6 DEF Single
<1> QED
  BY <1>3, <1>5, <1>7, <1>8, <1>9 DEF PRInv

(* A command is given: its script meets those that run. *)
LEMMA BeginKeeps ==
  ASSUME PRInv, NEW c \in Command, NEW at \in Pid \cup {Nothing},
         NEW does \in {"run", "start", "stop", "restart", "dashboard"}, Begin(c, does, at)
  PROVE PRInv'
<1> DEFINE s == Script(does)
<1>1. /\ c = given + 1 /\ given' = c
      /\ todo' = [todo EXCEPT ![c] = s] /\ host' = [host EXCEPT ![c] = at]
      /\ crossed' = crossed \cup (About(s) \cap UNION {About(todo[d]) : d \in Command})
      /\ UNCHANGED <<daemon, pidFile, present, targets, child, doubled, orphans>>
  BY DEF Begin, files
<1>2. /\ Sound(s) /\ s # <<>> /\ Head(s).act \in {"read", "spawn"}
      /\ \A w \in InDashboard : ~Imminent(s, w)
  BY ScriptsAreSound DEF Stopped
<1>3. s \in Seq(Step) /\ \A i \in DOMAIN s : s[i] \in Step
  BY <1>2, ElementOfSeq, LenProperties DEF Sound
<1> HIDE DEF s
<1>4. /\ todo \in [Command -> Seq(Step)] /\ given \in Nat /\ given' \in 0..MaxCommand
      /\ todo'[c] = s /\ \A d \in Command \ {c} : todo'[d] = todo[d]
  BY <1>1, ProcessesAssumption DEF PRInv, Scripts, PRTypeOK, Command
<1>5. About(s) \subseteq File
  BY DEF About
<1>6. PRTypeOK'
  <2>1. \A d \in Command : \A i \in DOMAIN todo'[d] : todo'[d][i] \in Step
    BY <1>3, <1>4 DEF PRInv, PRTypeOK
  <2>2. crossed' \subseteq File /\ host' \in [Command -> Pid \cup {Nothing}]
    BY <1>1, <1>5 DEF PRInv, PRTypeOK
  <2> QED
    BY <1>1, <1>4, <2>1, <2>2 DEF PRInv, PRTypeOK
<1>7. Scripts'
  <2>1. todo' \in [Command -> Seq(Step)]
    BY <1>1, <1>3, <1>4
  <2>2. \A d \in Command : Sound(todo'[d])
    BY <1>2, <1>4 DEF PRInv, Scripts
  <2>3. \A d \in Command : d > given' => todo'[d] = <<>>
    BY <1>1, <1>4 DEF PRInv, Scripts, Command
  <2> QED
    BY <2>1, <2>2, <2>3 DEF Scripts
<1>8. \A d \in Command, act \in {"append", "truncate"} :
        Doing(d, act)' => d # c /\ Doing(d, act) /\ Head(todo'[d]) = Head(todo[d])
  BY <1>2, <1>4 DEF Doing
<1>9. \A d \in Command, act \in {"append", "truncate"} : Doing(d, act) => Doing(d, act)' /\ d # c
  <2>1. todo[c] = <<>>
    BY <1>1, <1>4 DEF PRInv, Scripts
  <2> QED
    BY <1>4, <2>1 DEF Doing
<1>10. \A p \in Pid : Live(p)' <=> Live(p)
  BY <1>1 DEF Live
<1>11. DaemonsRecorded'
  <2> SUFFICES ASSUME NEW p \in Pid, Live(p)', FileOf(daemon'[p].what) \in File \ crossed'
               PROVE \/ p \in pidFile'[FileOf(daemon'[p].what)]
                     \/ \E d \in Command : child'[d] = p /\ Doing(d, "append")'
    BY DEF DaemonsRecorded
  <2>1. Live(p) /\ FileOf(daemon[p].what) \in File \ crossed
    BY <1>1, <1>10
  <2> QED
    BY <1>1, <1>9, <2>1 DEF PRInv, Records, DaemonsRecorded
<1>12. Records'
  <2>1. \A d \in Command : Doing(d, "append")' =>
          child'[d] \in Pid /\ daemon'[child'[d]].what = Head(todo'[d]).what
    BY <1>1, <1>8 DEF PRInv, Records
  <2>2. \A p \in Pid : daemon'[p].what = "unborn" => ~Live(p)'
    BY <1>1, <1>10 DEF PRInv, Records
  <2>3. /\ \A f \in File : \A p \in pidFile'[f] : daemon'[p].what # "unborn"
        /\ \A f \in File : f \notin present' => pidFile'[f] = {}
    BY <1>1 DEF PRInv, Records
  <2> QED
    BY <1>11, <2>1, <2>2, <2>3 DEF Records
<1>13. Apart'
  <2>1. ASSUME NEW d \in Command, NEW e \in Command,
               NEW f \in About(todo'[d]) \cap About(todo'[e])
        PROVE  d = e \/ f \in crossed'
    <3>1. CASE d # c /\ e # c
      BY <1>1, <1>4, <2>1, <3>1 DEF PRInv, Apart
    <3>2. CASE d = c /\ e # c
      BY <1>1, <1>4, <2>1, <3>2
    <3>3. CASE d # c /\ e = c
      BY <1>1, <1>4, <2>1, <3>3
    <3> QED
      BY <3>1, <3>2, <3>3
  <2>2. ASSUME NEW d \in Command, Doing(d, "truncate")', Head(todo'[d]).file \notin crossed',
               NEW p \in pidFile'[Head(todo'[d]).file], Live(p)'
        PROVE  p \in targets'[d]
    <3>1. p \in Pid
      <4>1. Head(todo[d]).file \in File
        BY <1>8, <2>2, FirstStep DEF PRInv, Scripts, Doing, Rd, Tr, Sp, Ap
      <4> QED
        BY <1>1, <1>8, <2>2, <4>1 DEF PRInv, PRTypeOK
    <3> QED
      BY <1>1, <1>8, <1>10, <2>2, <3>1 DEF PRInv, Apart
  <2> QED
    BY <2>1, <2>2 DEF Apart
<1>14. Single'
  <2>1. \A d \in Command, w \in InDashboard : Imminent(todo'[d], w) => d # c /\ Imminent(todo[d], w)
    BY <1>2, <1>4
  <2>2. "dashboard" \notin crossed' => "dashboard" \notin crossed
    BY <1>1
  <2> QED
    BY <1>1, <1>10, <2>1, <2>2 DEF PRInv, Single
<1>15. KilledStaysDown'
  BY <1>1, <1>10 DEF PRInv, KilledStaysDown
<1> QED
  BY <1>6, <1>7, <1>12, <1>13, <1>14, <1>15 DEF PRInv

(* A command goes on to what is left of its row. *)
LEMMA Advance ==
  ASSUME PRInv, NEW c \in Command, todo[c] # <<>>, NEW t, Sound(t), About(t) \subseteq About(todo[c]),
         todo' = [todo EXCEPT ![c] = t], UNCHANGED <<given, crossed>>
  PROVE /\ Scripts'
        /\ todo'[c] = t /\ \A d \in Command \ {c} : todo'[d] = todo[d]
        /\ \A d \in Command : \A i \in DOMAIN todo'[d] : todo'[d][i] \in Step
        /\ \A d, e \in Command : \A f \in About(todo'[d]) \cap About(todo'[e]) : d = e \/ f \in crossed'
<1>1. todo \in [Command -> Seq(Step)] /\ t \in Seq(Step)
  BY DEF PRInv, Scripts, Sound
<1>2. todo'[c] = t /\ \A d \in Command \ {c} : todo'[d] = todo[d]
  BY <1>1
<1>3. Scripts'
  BY <1>1, <1>2 DEF PRInv, Scripts
<1>4. \A d \in Command : todo'[d] \in Seq(Step)
  BY <1>3 DEF Scripts
<1>5. \A d \in Command : \A i \in DOMAIN todo'[d] : todo'[d][i] \in Step
  BY <1>4, ElementOfSeq, LenProperties
<1>6. \A d \in Command : About(todo'[d]) \subseteq About(todo[d])
  BY <1>2
<1> QED
  BY <1>2, <1>3, <1>5, <1>6 DEF PRInv, Apart

(* What a command is about, no other records or forgets unseen. *)
LEMMA LiveIsRecorded ==
  ASSUME PRInv, NEW c \in Command, NEW f \in About(todo[c]) \ crossed, ~Doing(c, "append"),
         NEW p \in Pid, Live(p), FileOf(daemon[p].what) = f
  PROVE p \in pidFile[f]
<1>1. f \in File
  BY DEF About
<1>2. CASE \E d \in Command : child[d] = p /\ Doing(d, "append")
  <2>1. PICK d \in Command : child[d] = p /\ Doing(d, "append")
    BY <1>2
  <2>2. Head(todo[d]).what = daemon[p].what /\ todo[d] # <<>> /\ Sound(todo[d])
    BY <2>1 DEF PRInv, Records, Doing, Scripts
  <2>3. PICK w \in InBackground : Head(todo[d]) = Ap(w)
    BY <2>1, <2>2, FirstStep DEF Doing, Rd, Tr, Sp, Ap
  <2>4. FileOf(w) = f
    BY <2>2, <2>3 DEF Ap
  <2>5. f \in About(todo[d])
    BY <2>2, <2>3, <2>4, AboutTail
  <2> QED
    BY <2>1, <2>5 DEF PRInv, Apart
<1> QED
  BY <1>1, <1>2 DEF PRInv, Records, DaemonsRecorded

LEMMA ReadKeeps ==
  ASSUME PRInv, NEW c \in Command, ReadPids(c)
  PROVE PRInv'
<1> DEFINE s == todo[c]
<1>1. s # <<>> /\ Sound(s) /\ Head(s).act = "read"
  BY DEF ReadPids, Doing, PRInv, Scripts
<1>2. PICK f \in File : Head(s) = Rd(f) /\ Tail(s) # <<>> /\ Head(Tail(s)) = Tr(f)
  BY <1>1, FirstStep DEF Rd, Tr, Sp, Ap
<1>3. /\ Sound(Tail(s)) /\ Sound(Tail(Tail(s)))
      /\ About(Tail(s)) \subseteq About(s) /\ About(Tail(Tail(s))) \subseteq About(s)
      /\ f \in About(s)
  BY <1>1, <1>2, SoundTail, AboutTail
<1>4. Tail(Tail(s)) = <<>> \/ Head(Tail(Tail(s))).act \in {"read", "spawn"}
  <2>1. Head(Tail(s)).act \notin {"read", "spawn"}
    BY <1>2 DEF Tr
  <2> QED
    BY <1>2, <1>3, <2>1, FirstStep
<1> DEFINE t == IF f \in present THEN Tail(s) ELSE Tail(Tail(s))
<1>5. /\ todo' = [todo EXCEPT ![c] = t]
      /\ targets' = IF f \in present THEN [targets EXCEPT ![c] = pidFile[f]] ELSE targets
      /\ UNCHANGED <<daemon, pidFile, present, child, host, given, crossed, doubled, orphans>>
  BY <1>2 DEF ReadPids, Did, Rd, files, marksOfOverlap
<1>6. /\ Sound(t) /\ About(t) \subseteq About(s)
      /\ t # <<>> => (Head(t) = Tr(f) /\ f \in present) \/ Head(t).act \in {"read", "spawn"}
  BY <1>2, <1>3, <1>4
<1> HIDE DEF t
<1>7. /\ Scripts'
      /\ todo'[c] = t /\ \A d \in Command \ {c} : todo'[d] = todo[d]
      /\ \A d \in Command : \A i \in DOMAIN todo'[d] : todo'[d][i] \in Step
      /\ \A d, e \in Command : \A g \in About(todo'[d]) \cap About(todo'[e]) : d = e \/ g \in crossed'
  BY <1>1, <1>5, <1>6, Advance
<1>8. \A p \in Pid : Live(p)' <=> Live(p)
  BY <1>5 DEF Live
<1>9. \A d \in Command : Doing(d, "append")' => d # c /\ Doing(d, "append") /\ todo'[d] = todo[d]
  BY <1>6, <1>7 DEF Doing, Tr
<1>10. \A d \in Command : Doing(d, "append") => d # c /\ Doing(d, "append")'
  BY <1>1, <1>7 DEF Doing
<1>11. PRTypeOK'
  <2>1. targets' \in [Command -> SUBSET Pid]
    BY <1>5 DEF PRInv, PRTypeOK
  <2> QED
    BY <1>5, <1>7, <2>1 DEF PRInv, PRTypeOK
<1>12. DaemonsRecorded'
  <2> SUFFICES ASSUME NEW p \in Pid, Live(p)', FileOf(daemon'[p].what) \in File \ crossed'
               PROVE \/ p \in pidFile'[FileOf(daemon'[p].what)]
                     \/ \E d \in Command : child'[d] = p /\ Doing(d, "append")'
    BY DEF DaemonsRecorded
  <2>1. Live(p) /\ FileOf(daemon[p].what) \in File \ crossed
    BY <1>5, <1>8
  <2> QED
    BY <1>5, <1>10, <2>1 DEF PRInv, Records, DaemonsRecorded
<1>13. Records'
  <2>1. \A d \in Command : Doing(d, "append")' =>
          child'[d] \in Pid /\ daemon'[child'[d]].what = Head(todo'[d]).what
    BY <1>5, <1>9 DEF PRInv, Records
  <2>2. \A p \in Pid : daemon'[p].what = "unborn" => ~Live(p)'
    BY <1>5, <1>8 DEF PRInv, Records
  <2>3. /\ \A g \in File : \A p \in pidFile'[g] : daemon'[p].what # "unborn"
        /\ \A g \in File : g \notin present' => pidFile'[g] = {}
    BY <1>5 DEF PRInv, Records
  <2> QED
    BY <1>12, <2>1, <2>2, <2>3 DEF Records
<1>14. Apart'
  <2> SUFFICES ASSUME NEW d \in Command, Doing(d, "truncate")', Head(todo'[d]).file \notin crossed',
                      NEW p \in pidFile'[Head(todo'[d]).file], Live(p)'
               PROVE  p \in targets'[d]
    BY <1>7 DEF Apart
  <2>1. CASE d = c
    <3>1. Head(todo'[c]) = Tr(f) /\ f \in present
      BY <1>6, <1>7, <2>1 DEF Doing
    <3>2. targets'[c] = pidFile[f]
      BY <1>5, <3>1 DEF PRInv, PRTypeOK
    <3> QED
      BY <1>5, <2>1, <3>1, <3>2 DEF Tr
  <2>2. CASE d # c
    <3>1. Doing(d, "truncate") /\ todo'[d] = todo[d] /\ targets'[d] = targets[d]
      BY <1>5, <1>7, <2>2 DEF Doing, PRInv, PRTypeOK
    <3>2. Head(todo[d]).file \in File
      BY <3>1, FirstStep DEF PRInv, Scripts, Doing, Rd, Tr, Sp, Ap
    <3>3. p \in Pid
      BY <1>5, <3>1, <3>2 DEF PRInv, PRTypeOK
    <3> QED
      BY <1>5, <1>8, <3>1, <3>3 DEF PRInv, Apart
  <2> QED
    BY <2>1, <2>2
<1>15. Single'
  <2>1. ASSUME "dashboard" \notin crossed', NEW d \in Command, NEW w \in InDashboard, Imminent(todo'[d], w),
               NEW p \in Pid, Live(p)', daemon'[p].what = w
        PROVE  FALSE
    <3>0. Live(p) /\ daemon[p].what = w /\ "dashboard" \notin crossed
      BY <1>5, <1>8, <2>1
    <3>1. ~Imminent(todo[d], w)
      BY <3>0 DEF PRInv, Single
    <3>2. d = c /\ Imminent(t, w)
      BY <1>7, <2>1, <3>1
    <3>3. Head(s) # Tr("dashboard") /\ ~Imminent(Tail(s), w)
      BY <1>1, <1>2, <3>1, <3>2, ImminentTail DEF Rd, Tr
    <3>4. f \notin present /\ Imminent(Tail(Tail(s)), w)
      BY <3>2, <3>3 DEF t
    <3>5. f = "dashboard"
      <4>1. Head(Tail(s)) = Tr("dashboard")
        BY <1>2, <1>3, <3>3, <3>4, ImminentTail
      <4> QED
        BY <1>2, <4>1 DEF Tr
    <3>6. p \in pidFile[f]
      <4>1. ~Doing(c, "append")
        BY <1>1 DEF Doing
      <4>2. FileOf(daemon[p].what) = f
        BY <3>0, <3>5 DEF InDashboard, FileOf
      <4> QED
        BY <1>3, <3>0, <3>5, <4>1, <4>2, LiveIsRecorded
    <3> QED
      BY <3>4, <3>6 DEF PRInv, Records
  <2> QED
    BY <1>5, <1>8, <2>1 DEF PRInv, Single
<1>16. KilledStaysDown'
  BY <1>5, <1>8 DEF PRInv, KilledStaysDown
<1> QED
  BY <1>7, <1>11, <1>13, <1>14, <1>15, <1>16 DEF PRInv

LEMMA TruncateKeeps ==
  ASSUME PRInv, NEW c \in Command, Truncate(c)
  PROVE PRInv'
<1> DEFINE s == todo[c]
<1>1. s # <<>> /\ Sound(s) /\ Head(s).act = "truncate" /\ targets[c] = {}
  BY DEF Truncate, Doing, PRInv, Scripts
<1>2. PICK f \in File : Head(s) = Tr(f)
  BY <1>1, FirstStep DEF Rd, Tr, Sp, Ap
<1>3. /\ Sound(Tail(s)) /\ About(Tail(s)) \subseteq About(s) /\ f \in About(s)
      /\ Tail(s) = <<>> \/ Head(Tail(s)).act \in {"read", "spawn"}
  BY <1>1, <1>2, SoundTail, AboutTail, FirstStep
<1>4. /\ todo' = [todo EXCEPT ![c] = Tail(s)]
      /\ pidFile' = [pidFile EXCEPT ![f] = {}]
      /\ UNCHANGED <<daemon, present, targets, child, host, given, crossed, doubled, orphans>>
  <2>1. Head(todo[c]).file = f
    BY <1>2 DEF Tr
  <2> QED
    BY <2>1 DEF Truncate, Did, marksOfOverlap
<1>5. /\ Scripts'
      /\ todo'[c] = Tail(s) /\ \A d \in Command \ {c} : todo'[d] = todo[d]
      /\ \A d \in Command : \A i \in DOMAIN todo'[d] : todo'[d][i] \in Step
      /\ \A d, e \in Command : \A g \in About(todo'[d]) \cap About(todo'[e]) : d = e \/ g \in crossed'
  BY <1>1, <1>3, <1>4, Advance
<1>6. \A p \in Pid : Live(p)' <=> Live(p)
  BY <1>4 DEF Live
<1>7. \A d \in Command, act \in {"append", "truncate"} :
        Doing(d, act)' => d # c /\ Doing(d, act) /\ todo'[d] = todo[d]
  BY <1>3, <1>5 DEF Doing
<1>8. \A d \in Command : Doing(d, "append") => d # c /\ Doing(d, "append")'
  BY <1>1, <1>5 DEF Doing
<1>9. /\ pidFile' \in [File -> SUBSET Pid] /\ pidFile'[f] = {}
      /\ \A g \in File : pidFile'[g] \subseteq pidFile[g] /\ (g # f => pidFile'[g] = pidFile[g])
  BY <1>4 DEF PRInv, PRTypeOK
<1>10. PRTypeOK'
  BY <1>4, <1>5, <1>9 DEF PRInv, PRTypeOK
<1>11. ASSUME NEW p \in Pid, Live(p), FileOf(daemon[p].what) = f, f \notin crossed PROVE FALSE
  <2>1. ~Doing(c, "append") /\ Doing(c, "truncate") /\ Head(s).file = f
    BY <1>1, <1>2 DEF Doing, Tr
  <2>2. p \in pidFile[f]
    BY <1>3, <1>11, <2>1, LiveIsRecorded
  <2> QED
    BY <1>1, <1>11, <2>1, <2>2 DEF PRInv, Apart
<1>12. DaemonsRecorded'
  <2> SUFFICES ASSUME NEW p \in Pid, Live(p)', FileOf(daemon'[p].what) \in File \ crossed'
               PROVE \/ p \in pidFile'[FileOf(daemon'[p].what)]
                     \/ \E d \in Command : child'[d] = p /\ Doing(d, "append")'
    BY DEF DaemonsRecorded
  <2>1. Live(p) /\ FileOf(daemon[p].what) \in File \ crossed
    BY <1>4, <1>6
  <2>2. FileOf(daemon[p].what) # f
    BY <1>11, <2>1
  <2> QED
    BY <1>4, <1>8, <1>9, <2>1, <2>2 DEF PRInv, Records, DaemonsRecorded
<1>13. Records'
  <2>1. \A d \in Command : Doing(d, "append")' =>
          child'[d] \in Pid /\ daemon'[child'[d]].what = Head(todo'[d]).what
    BY <1>4, <1>7 DEF PRInv, Records
  <2>2. \A p \in Pid : daemon'[p].what = "unborn" => ~Live(p)'
    BY <1>4, <1>6 DEF PRInv, Records
  <2>3. /\ \A g \in File : \A p \in pidFile'[g] : daemon'[p].what # "unborn"
        /\ \A g \in File : g \notin present' => pidFile'[g] = {}
    BY <1>4, <1>9 DEF PRInv, Records
  <2> QED
    BY <1>12, <2>1, <2>2, <2>3 DEF Records
<1>14. Apart'
  <2> SUFFICES ASSUME NEW d \in Command, Doing(d, "truncate")', Head(todo'[d]).file \notin crossed',
                      NEW p \in pidFile'[Head(todo'[d]).file], Live(p)'
               PROVE  p \in targets'[d]
    BY <1>5 DEF Apart
  <2>1. Doing(d, "truncate") /\ todo'[d] = todo[d]
    BY <1>7
  <2>2. Head(todo[d]).file \in File
    BY <2>1, FirstStep DEF PRInv, Scripts, Doing, Rd, Tr, Sp, Ap
  <2>3. p \in Pid /\ p \in pidFile[Head(todo[d]).file]
    BY <1>9, <2>1, <2>2 DEF PRInv, PRTypeOK
  <2>4. Head(todo[d]).file \notin crossed
    <3>1. crossed' = crossed
      BY <1>4
    <3> QED
      BY <2>1, <3>1
  <2>5. Live(p)
    BY <1>6, <2>3
  <2> QED
    BY <1>4, <2>1, <2>3, <2>4, <2>5 DEF PRInv, Apart
<1>15. Single'
  <2>1. ASSUME "dashboard" \notin crossed', NEW d \in Command, NEW w \in InDashboard, Imminent(todo'[d], w),
               NEW p \in Pid, Live(p)', daemon'[p].what = w
        PROVE  FALSE
    <3>0. Live(p) /\ daemon[p].what = w /\ "dashboard" \notin crossed
      BY <1>4, <1>6, <2>1
    <3>1. ~Imminent(todo[d], w)
      BY <3>0 DEF PRInv, Single
    <3>2. d = c /\ Imminent(Tail(s), w)
      BY <1>5, <2>1, <3>1
    <3>3. Head(s) = Tr("dashboard")
      BY <1>1, <3>1, <3>2, ImminentTail
    <3>4. f = "dashboard" /\ FileOf(daemon[p].what) = f
      BY <1>2, <3>0, <3>3 DEF Tr, InDashboard, FileOf
    <3> QED
      BY <1>11, <3>0, <3>4
  <2> QED
    BY <1>4, <1>6, <2>1 DEF PRInv, Single
<1>16. KilledStaysDown'
  BY <1>4, <1>6 DEF PRInv, KilledStaysDown
<1> QED
  BY <1>5, <1>10, <1>13, <1>14, <1>15, <1>16 DEF PRInv

LEMMA AppendKeeps ==
  ASSUME PRInv, NEW c \in Command, Append1(c)
  PROVE PRInv'
<1> DEFINE s == todo[c]
           p0 == child[c]
<1>1. s # <<>> /\ Sound(s) /\ Head(s).act = "append" /\ Doing(c, "append")
  BY DEF Append1, Doing, PRInv, Scripts
<1>2. PICK w \in InBackground : Head(s) = Ap(w)
  BY <1>1, FirstStep DEF Rd, Tr, Sp, Ap
<1> DEFINE f == FileOf(w)
<1>3. /\ Sound(Tail(s)) /\ About(Tail(s)) \subseteq About(s) /\ f \in About(s) /\ f \in File
      /\ Tail(s) = <<>> \/ Head(Tail(s)).act \in {"read", "spawn"}
  <2>1. f \in File
    BY DEF InBackground, FileOf, File
  <2>2. Head(s).act \notin {"read", "spawn"}
    BY <1>1
  <2> QED
    BY <1>1, <1>2, <2>1, <2>2, SoundTail, AboutTail, FirstStep
<1>4. /\ todo' = [todo EXCEPT ![c] = Tail(s)]
      /\ pidFile' = [pidFile EXCEPT ![f] = @ \cup {p0}] /\ present' = present \cup {f}
      /\ UNCHANGED <<daemon, targets, child, host, given, crossed, doubled, orphans>>
  <2>1. Head(todo[c]).what = w
    BY <1>2 DEF Ap
  <2> QED
    BY <2>1 DEF Append1, Did, marksOfOverlap
<1>5. p0 \in Pid /\ daemon[p0].what = w
  BY <1>1, <1>2 DEF PRInv, Records, Ap
<1> HIDE DEF p0, f
<1>6. /\ Scripts'
      /\ todo'[c] = Tail(s) /\ \A d \in Command \ {c} : todo'[d] = todo[d]
      /\ \A d \in Command : \A i \in DOMAIN todo'[d] : todo'[d][i] \in Step
      /\ \A d, e \in Command : \A g \in About(todo'[d]) \cap About(todo'[e]) : d = e \/ g \in crossed'
  BY <1>1, <1>3, <1>4, Advance
<1>7. \A p \in Pid : Live(p)' <=> Live(p)
  BY <1>4 DEF Live
<1>8. \A d \in Command, act \in {"append", "truncate"} :
        Doing(d, act)' => d # c /\ Doing(d, act) /\ todo'[d] = todo[d]
  BY <1>3, <1>6 DEF Doing
<1>9. \A d \in Command : Doing(d, "append") /\ d # c => Doing(d, "append")'
  BY <1>6 DEF Doing
<1>10. /\ pidFile' \in [File -> SUBSET Pid] /\ pidFile'[f] = pidFile[f] \cup {p0}
       /\ \A g \in File : pidFile[g] \subseteq pidFile'[g] /\ (g # f => pidFile'[g] = pidFile[g])
  BY <1>3, <1>4, <1>5 DEF PRInv, PRTypeOK
<1>11. PRTypeOK'
  BY <1>3, <1>4, <1>6, <1>10 DEF PRInv, PRTypeOK
<1>12. DaemonsRecorded'
  <2> SUFFICES ASSUME NEW p \in Pid, Live(p)', FileOf(daemon'[p].what) \in File \ crossed'
               PROVE \/ p \in pidFile'[FileOf(daemon'[p].what)]
                     \/ \E d \in Command : child'[d] = p /\ Doing(d, "append")'
    BY DEF DaemonsRecorded
  <2>1. Live(p) /\ FileOf(daemon[p].what) \in File \ crossed
    BY <1>4, <1>7
  <2>2. CASE p = p0
    BY <1>4, <1>5, <1>10, <2>2 DEF f
  <2>3. CASE p # p0
    BY <1>4, <1>9, <1>10, <2>1, <2>3 DEF PRInv, Records, DaemonsRecorded, p0
  <2> QED
    BY <2>2, <2>3
<1>13. Records'
  <2>1. \A d \in Command : Doing(d, "append")' =>
          child'[d] \in Pid /\ daemon'[child'[d]].what = Head(todo'[d]).what
    BY <1>4, <1>8 DEF PRInv, Records
  <2>2. \A p \in Pid : daemon'[p].what = "unborn" => ~Live(p)'
    BY <1>4, <1>7 DEF PRInv, Records
  <2>3. \A g \in File : \A p \in pidFile'[g] : daemon'[p].what # "unborn"
    <3>1. daemon[p0].what # "unborn"
      BY <1>5 DEF InBackground
    <3> QED
      BY <1>4, <1>10, <3>1 DEF PRInv, Records
  <2>4. \A g \in File : g \notin present' => pidFile'[g] = {}
    BY <1>4, <1>10 DEF PRInv, Records
  <2> QED
    BY <1>12, <2>1, <2>2, <2>3, <2>4 DEF Records
<1>14. Apart'
  <2> SUFFICES ASSUME NEW d \in Command, Doing(d, "truncate")', Head(todo'[d]).file \notin crossed',
                      NEW p \in pidFile'[Head(todo'[d]).file], Live(p)'
               PROVE  p \in targets'[d]
    BY <1>6 DEF Apart
  <2>1. Doing(d, "truncate") /\ todo'[d] = todo[d] /\ d # c
    BY <1>8
  <2>2. PICK g \in File : Head(todo[d]) = Tr(g)
    BY <2>1, FirstStep, SMTT(60) DEF PRInv, Scripts, Doing, Rd, Tr, Sp, Ap
  <2>3. g \in About(todo[d]) /\ Head(todo[d]).file = g
    BY <2>1, <2>2, AboutTail DEF PRInv, Scripts, Doing, Tr
  <2>4. g # f
    BY <1>3, <1>4, <2>1, <2>3 DEF PRInv, Apart
  <2>5. p \in Pid /\ p \in pidFile[g]
    BY <1>10, <2>1, <2>2, <2>3, <2>4 DEF PRInv, PRTypeOK
  <2> QED
    BY <1>4, <1>7, <2>1, <2>3, <2>5 DEF PRInv, Apart
<1>15. Single'
  <2>1. \A d \in Command, w1 \in InDashboard : Imminent(todo'[d], w1) => Imminent(todo[d], w1)
    <3>1. Head(s) # Tr("dashboard")
      BY <1>1 DEF Tr
    <3> QED
      BY <1>1, <1>6, <3>1, ImminentTail
  <2> QED
    BY <1>4, <1>7, <2>1 DEF PRInv, Single
<1>16. KilledStaysDown'
  BY <1>4, <1>7 DEF PRInv, KilledStaysDown
<1> QED
  BY <1>6, <1>11, <1>13, <1>14, <1>15, <1>16 DEF PRInv

(* What a command is about to record is a daemon of the background, of a    *)
(* file that the command is about.                                         *)
LEMMA AppendIsAbout ==
  ASSUME PRInv, NEW c \in Command, Doing(c, "append")
  PROVE /\ child[c] \in Pid /\ daemon[child[c]].what \in InBackground
        /\ FileOf(daemon[child[c]].what) \in About(todo[c])
<1>1. Head(todo[c]).what = daemon[child[c]].what /\ todo[c] # <<>> /\ Sound(todo[c]) /\ child[c] \in Pid
  BY DEF PRInv, Records, Doing, Scripts
<1>2. PICK w \in InBackground : Head(todo[c]) = Ap(w)
  BY <1>1, FirstStep DEF Doing, Rd, Tr, Sp, Ap
<1>3. daemon[child[c]].what = w
  BY <1>1, <1>2 DEF Ap
<1> QED
  BY <1>1, <1>2, <1>3, AboutTail

LEMMA SpawnKeeps ==
  ASSUME PRInv, NEW c \in Command, NEW p \in Pid, SpawnDaemon(c, p)
  PROVE PRInv'
<1> DEFINE s == todo[c]
           w == Head(s).what
<1>1. s # <<>> /\ Sound(s) /\ Head(s).act = "spawn" /\ Doing(c, "spawn")
  BY DEF SpawnDaemon, Doing, PRInv, Scripts
<1>2. \/ w \in InBackground /\ Head(s) = Sp(w) /\ Tail(s) # <<>> /\ Head(Tail(s)) = Ap(w)
      \/ w = "foreground" /\ Head(s) = Sp(w) /\ (Tail(s) = <<>> \/ Head(Tail(s)).act \in {"read", "spawn"})
  BY <1>1, FirstStep DEF Rd, Tr, Sp, Ap
<1>3. Sound(Tail(s)) /\ About(Tail(s)) \subseteq About(s)
  BY <1>1, SoundTail, AboutTail
<1>4. /\ todo' = [todo EXCEPT ![c] = Tail(s)] /\ child' = [child EXCEPT ![c] = p]
      /\ UNCHANGED <<pidFile, present, targets, host, given, crossed, orphans>>
  BY DEF SpawnDaemon, Did, files
<1>5. daemon[p].what = "unborn"
  BY DEF SpawnDaemon
<1>6. PICK b \in {"none", "up"} : daemon' = [daemon EXCEPT ![p] = [what |-> w, leads |-> TRUE, boot |-> b]]
  BY DEF SpawnDaemon
<1>7. doubled' = (doubled \/ (FileOf(w) # "dashboard"
                    /\ \E q \in Pid : Live(q) /\ daemon[q].what \in {"runtime", "foreground"}))
  BY DEF SpawnDaemon
<1>8. w \in Daemon /\ w # "unborn"
  BY <1>2 DEF InBackground, Daemon
<1> HIDE DEF w
<1>9. daemon \in [Pid -> [what : Daemon, leads : BOOLEAN, boot : {"none", "up", "leaving", "dying"}]]
  BY DEF PRInv, PRTypeOK
<1>10. /\ daemon'[p].what = w /\ Live(p)'
       /\ \A q \in Pid \ {p} : daemon'[q] = daemon[q] /\ (Live(q)' <=> Live(q))
  BY <1>6, <1>9 DEF Live
<1>11. /\ Scripts'
       /\ todo'[c] = Tail(s) /\ \A d \in Command \ {c} : todo'[d] = todo[d]
       /\ \A d \in Command : \A i \in DOMAIN todo'[d] : todo'[d][i] \in Step
       /\ \A d, e \in Command : \A g \in About(todo'[d]) \cap About(todo'[e]) : d = e \/ g \in crossed'
  BY <1>1, <1>3, <1>4, Advance
<1>12. /\ ~Live(p)
       /\ \A g \in File : p \notin pidFile[g]
       /\ \A d \in Command : Doing(d, "append") => child[d] # p
  BY <1>5, AppendIsAbout DEF PRInv, Records, InBackground
<1>13. /\ child'[c] = p /\ \A d \in Command \ {c} : child'[d] = child[d]
       /\ child' \in [Command -> Pid \cup {Nothing}]
  BY <1>4 DEF PRInv, PRTypeOK
<1>14. \A d \in Command \ {c}, act \in {"append", "truncate"} : Doing(d, act)' <=> Doing(d, act)
  BY <1>11 DEF Doing
<1>15. PRTypeOK'
  <2>1. daemon' \in [Pid -> [what : Daemon, leads : BOOLEAN, boot : {"none", "up", "leaving", "dying"}]]
    BY <1>6, <1>8, <1>9
  <2>2. doubled' \in BOOLEAN
    BY <1>7
  <2> QED
    BY <1>4, <1>11, <1>13, <2>1, <2>2 DEF PRInv, PRTypeOK
<1>16. DaemonsRecorded'
  <2> SUFFICES ASSUME NEW q \in Pid, Live(q)', FileOf(daemon'[q].what) \in File \ crossed'
               PROVE \/ q \in pidFile'[FileOf(daemon'[q].what)]
                     \/ \E d \in Command : child'[d] = q /\ Doing(d, "append")'
    BY DEF DaemonsRecorded
  <2>1. CASE q = p
    <3>1. w \in InBackground
      BY <1>2, <1>10, <2>1 DEF FileOf, File
    <3>2. todo'[c] # <<>> /\ Head(todo'[c]) = Ap(w)
      BY <1>2, <1>11, <3>1 DEF InBackground
    <3>3. Doing(c, "append")'
      BY <3>2 DEF Doing, Ap
    <3> QED
      BY <1>13, <2>1, <3>3
  <2>2. CASE q # p
    <3>1. Live(q) /\ daemon'[q].what = daemon[q].what /\ FileOf(daemon[q].what) \in File \ crossed
      BY <1>4, <1>10, <2>2
    <3>2. \A d \in Command : Doing(d, "append") => d # c
      BY <1>1 DEF Doing
    <3> QED
      BY <1>4, <1>13, <1>14, <3>1, <3>2 DEF PRInv, Records, DaemonsRecorded
  <2> QED
    BY <2>1, <2>2
<1>17. Records'
  <2>1. ASSUME NEW d \in Command, Doing(d, "append")'
        PROVE child'[d] \in Pid /\ daemon'[child'[d]].what = Head(todo'[d]).what
    <3>1. CASE d = c
      <4>1. Head(todo'[c]) = Ap(w)
        BY <1>2, <1>11, <2>1, <3>1 DEF Doing
      <4> QED
        BY <1>10, <1>13, <3>1, <4>1 DEF Ap
    <3>2. CASE d # c
      <4>1. Doing(d, "append") /\ child'[d] = child[d] /\ todo'[d] = todo[d]
        BY <1>11, <1>13, <1>14, <2>1, <3>2
      <4>2. child[d] \in Pid \ {p} /\ daemon[child[d]].what = Head(todo[d]).what
        BY <1>12, <4>1 DEF PRInv, Records
      <4> QED
        BY <1>10, <4>1, <4>2
    <3> QED
      BY <3>1, <3>2
  <2>2. \A q \in Pid : daemon'[q].what = "unborn" => ~Live(q)'
    BY <1>8, <1>10 DEF PRInv, Records
  <2>3. \A g \in File : \A q \in pidFile'[g] : daemon'[q].what # "unborn"
    BY <1>4, <1>10, <1>12 DEF PRInv, Records, PRTypeOK
  <2>4. \A g \in File : g \notin present' => pidFile'[g] = {}
    BY <1>4 DEF PRInv, Records
  <2> QED
    BY <1>16, <2>1, <2>2, <2>3, <2>4 DEF Records
<1>18. Apart'
  <2> SUFFICES ASSUME NEW d \in Command, Doing(d, "truncate")', Head(todo'[d]).file \notin crossed',
                      NEW q \in pidFile'[Head(todo'[d]).file], Live(q)'
               PROVE  q \in targets'[d]
    BY <1>11 DEF Apart
  <2>1. ASSUME d = c PROVE FALSE
    <3>1. Tail(s) # <<>> /\ Head(Tail(s)).act = "truncate"
      BY <1>11, <2>1 DEF Doing
    <3> QED
      BY <1>2, <3>1 DEF Ap
  <2>2. Doing(d, "truncate") /\ todo'[d] = todo[d]
    BY <1>11, <1>14, <2>1
  <2>3. Head(todo[d]).file \in File
    BY <2>2, FirstStep DEF PRInv, Scripts, Doing, Rd, Tr, Sp, Ap
  <2>4. pidFile' = pidFile /\ targets' = targets /\ crossed' = crossed
    BY <1>4
  <2>5. q \in Pid \ {p} /\ q \in pidFile[Head(todo[d]).file]
    BY <1>12, <2>2, <2>3, <2>4 DEF PRInv, PRTypeOK
  <2>6. Live(q)
    BY <1>10, <2>5
  <2> QED
    BY <2>2, <2>4, <2>5, <2>6 DEF PRInv, Apart
<1>19. ASSUME ~doubled', NEW q \in Pid, NEW r \in Pid, Live(q)', Live(r)',
              {daemon'[q].what, daemon'[r].what} \subseteq {"runtime", "foreground"}
       PROVE  q = r
  <2>1. ~doubled
    BY <1>7, <1>19
  <2>2. ASSUME NEW x \in Pid \ {p}, Live(x)', daemon'[x].what \in {"runtime", "foreground"}, w \in {"runtime", "foreground"}
        PROVE  FALSE
    <3>1. Live(x) /\ daemon[x].what \in {"runtime", "foreground"}
      BY <1>10, <2>2
    <3>2. FileOf(w) # "dashboard"
      BY <2>2 DEF FileOf
    <3> QED
      BY <1>7, <1>19, <3>1, <3>2
  <2>3. CASE q = p \/ r = p
    BY <1>10, <1>19, <2>2, <2>3
  <2>4. CASE q # p /\ r # p
    BY <1>10, <1>19, <2>1, <2>4 DEF PRInv, Single
  <2> QED
    BY <2>3, <2>4
<1>20. ASSUME "dashboard" \notin crossed, NEW x \in Pid, Live(x), daemon[x].what = w, w \in InDashboard
       PROVE  FALSE
  <2>1. Head(s) = Sp(w)
    BY <1>2
  <2>2. Imminent(s, w)
    BY <1>1, <1>20, <2>1, ImminentTail
  <2> QED
    BY <1>20, <2>2 DEF PRInv, Single
<1>21. ASSUME "dashboard" \notin crossed, NEW q \in Pid, NEW r \in Pid, Live(q)', Live(r)',
              daemon'[q].what = daemon'[r].what, daemon'[q].what \in InDashboard
       PROVE  q = r
  <2>1. CASE q # p /\ r # p
    <3>1. Live(q) /\ Live(r) /\ daemon[q].what = daemon[r].what /\ daemon[q].what \in InDashboard
      BY <1>10, <1>21, <2>1
    <3> QED
      BY <1>21, <3>1 DEF PRInv, Single
  <2>2. CASE q = p /\ r # p
    BY <1>10, <1>20, <1>21, <2>2
  <2>3. CASE q # p /\ r = p
    BY <1>10, <1>20, <1>21, <2>3
  <2> QED
    BY <2>1, <2>2, <2>3
<1>22. ASSUME "dashboard" \notin crossed, NEW d \in Command, NEW v \in InDashboard, Imminent(todo'[d], v),
              NEW q \in Pid, Live(q)', daemon'[q].what = v
       PROVE  FALSE
  <2>1. CASE d = c
    <3>1. Head(s) # Tr("dashboard") /\ (Head(s) = Sp(v) => ~Imminent(Tail(s), v))
      BY <1>1, ImminentTail DEF Tr
    <3>2. Imminent(s, v) /\ w # v
      BY <1>1, <1>2, <1>11, <1>22, <2>1, <3>1, ImminentTail
    <3>3. q # p
      BY <1>10, <1>22, <3>2
    <3>4. Live(q) /\ daemon[q].what = v
      BY <1>10, <1>22, <3>3
    <3> QED
      BY <1>22, <3>2, <3>4 DEF PRInv, Single
  <2>2. CASE d # c
    <3>1. Imminent(todo[d], v) /\ Sound(todo[d])
      BY <1>11, <1>22, <2>2 DEF PRInv, Scripts
    <3>2. CASE q # p
      <4>1. Live(q) /\ daemon[q].what = v
        BY <1>10, <1>22, <3>2
      <4> QED
        BY <1>22, <3>1, <4>1 DEF PRInv, Single
    <3>3. CASE q = p
      <4>1. w = v /\ w \in InBackground /\ FileOf(w) = "dashboard"
        BY <1>10, <1>22, <3>3 DEF InDashboard, InBackground, FileOf
      <4>2. "dashboard" \in About(s)
        BY <1>1, <1>2, <4>1, AboutTail
      <4>3. todo[d] # <<>>
        BY <3>1 DEF Imminent
      <4>4. "dashboard" \in About(todo[d])
        BY <3>1, <4>3, ImminentTail
      <4> QED
        BY <1>22, <2>2, <4>2, <4>4 DEF PRInv, Apart
    <3> QED
      BY <3>2, <3>3
  <2> QED
    BY <2>1, <2>2
<1>23. Single'
  <2>1. crossed' = crossed
    BY <1>4
  <2> QED
    BY <1>19, <1>21, <1>22, <2>1 DEF Single
<1>24. KilledStaysDown'
  BY <1>4, <1>10 DEF PRInv, KilledStaysDown
<1> QED
  BY <1>11, <1>15, <1>17, <1>18, <1>23, <1>24 DEF PRInv

LEMMA KillKeeps ==
  ASSUME PRInv, NEW c \in Command, NEW p \in Pid, Kill(c, p)
  PROVE PRInv'
<1> DEFINE cut == {d \in Command : Live(p) /\ host[d] = p}
<1>1. /\ daemon' = IF Live(p) THEN Signalled(p) ELSE daemon
      /\ todo' = [d \in Command |-> IF d \in cut THEN <<>> ELSE todo[d]]
      /\ targets' = [d \in Command |->
                       IF d \in cut THEN {} ELSE IF d = c THEN targets[c] \ {p} ELSE targets[d]]
      /\ crossed' = crossed \cup UNION {About(todo[d]) : d \in cut}
      /\ UNCHANGED <<pidFile, present, child, host, given, doubled, orphans>>
  BY DEF Kill, files
<1>2. cut \subseteq Command
  OBVIOUS
<1> HIDE DEF cut
<1>3. /\ todo \in [Command -> Seq(Step)] /\ \A d \in Command : Sound(todo[d])
      /\ targets \in [Command -> SUBSET Pid]
      /\ daemon \in [Pid -> [what : Daemon, leads : BOOLEAN, boot : {"none", "up", "leaving", "dying"}]]
  BY DEF PRInv, Scripts, PRTypeOK
<1>4. /\ \A d \in cut : todo'[d] = <<>> /\ About(todo[d]) \subseteq crossed'
      /\ \A d \in Command \ cut : todo'[d] = todo[d]
      /\ crossed \subseteq crossed' /\ crossed' \subseteq File
  BY <1>1, <1>2 DEF PRInv, PRTypeOK, About
<1>5. /\ daemon' \in [Pid -> [what : Daemon, leads : BOOLEAN, boot : {"none", "up", "leaving", "dying"}]]
      /\ \A q \in Pid : daemon'[q].what = daemon[q].what
      /\ \A q \in Pid \ {p} : daemon'[q] = daemon[q]
      /\ ~daemon'[p].leads
      /\ (daemon'[p].boot = daemon[p].boot /\ ~daemon[p].leads) \/ daemon'[p].boot \in {"none", "dying"}
  <2>1. CASE Live(p)
    <3>1. daemon' = [daemon EXCEPT ![p].leads = FALSE, ![p].boot = IF @ = "none" THEN @ ELSE "dying"]
      BY <1>1, <2>1 DEF Signalled
    <3> QED
      BY <1>3, <3>1
  <2>2. CASE ~Live(p)
    BY <1>1, <1>3, <2>2 DEF Live
  <2> QED
    BY <2>1, <2>2
<1>6. \A q \in Pid : Live(q)' => Live(q) /\ q # p
  BY <1>5 DEF Live
<1>7. Scripts'
  <2>1. Sound(<<>>)
    BY DEF Sound
  <2>2. todo' \in [Command -> Seq(Step)]
    BY <1>1, <1>3
  <2>3. \A d \in Command : Sound(todo'[d])
    BY <1>3, <1>4, <2>1
  <2>4. \A d \in Command : d > given' => todo'[d] = <<>>
    BY <1>1, <1>4 DEF PRInv, Scripts
  <2> QED
    BY <2>2, <2>3, <2>4 DEF Scripts
<1>8. \A d \in Command, act \in {"append", "truncate"} :
        Doing(d, act)' => d \notin cut /\ Doing(d, act) /\ todo'[d] = todo[d]
  BY <1>4 DEF Doing
<1>9. PRTypeOK'
  <2>1. targets' \in [Command -> SUBSET Pid]
    BY <1>1, <1>3
  <2>2. \A d \in Command : \A i \in DOMAIN todo'[d] : todo'[d][i] \in Step
    BY <1>7, ElementOfSeq, LenProperties DEF Scripts
  <2> QED
    BY <1>1, <1>4, <1>5, <2>1, <2>2 DEF PRInv, PRTypeOK
<1>10. DaemonsRecorded'
  <2> SUFFICES ASSUME NEW q \in Pid, Live(q)', FileOf(daemon'[q].what) \in File \ crossed'
               PROVE \/ q \in pidFile'[FileOf(daemon'[q].what)]
                     \/ \E d \in Command : child'[d] = q /\ Doing(d, "append")'
    BY DEF DaemonsRecorded
  <2>1. Live(q) /\ daemon'[q].what = daemon[q].what /\ FileOf(daemon[q].what) \in File \ crossed
    BY <1>4, <1>5, <1>6
  <2>2. ASSUME NEW d \in Command, child[d] = q, Doing(d, "append")
        PROVE  child'[d] = q /\ Doing(d, "append")'
    <3>1. d \notin cut
      BY <1>4, <1>5, <2>2, AppendIsAbout
    <3> QED
      BY <1>1, <1>4, <2>2, <3>1 DEF Doing
  <2> QED
    BY <1>1, <2>1, <2>2 DEF PRInv, Records, DaemonsRecorded
<1>11. Records'
  <2>1. ASSUME NEW d \in Command, Doing(d, "append")'
        PROVE child'[d] \in Pid /\ daemon'[child'[d]].what = Head(todo'[d]).what
    <3>1. Doing(d, "append") /\ todo'[d] = todo[d] /\ child'[d] = child[d]
      BY <1>1, <1>8, <2>1
    <3>2. child[d] \in Pid /\ daemon[child[d]].what = Head(todo[d]).what
      BY <3>1 DEF PRInv, Records
    <3> QED
      BY <1>5, <3>1, <3>2
  <2>2. \A q \in Pid : daemon'[q].what = "unborn" => ~Live(q)'
    BY <1>5, <1>6 DEF PRInv, Records
  <2>3. \A g \in File : \A q \in pidFile'[g] : daemon'[q].what # "unborn"
    <3>1. pidFile' = pidFile /\ \A g \in File : pidFile[g] \subseteq Pid
      BY <1>1 DEF PRInv, PRTypeOK
    <3> QED
      BY <1>5, <3>1 DEF PRInv, Records
  <2>4. \A g \in File : g \notin present' => pidFile'[g] = {}
    BY <1>1 DEF PRInv, Records
  <2> QED
    BY <1>10, <2>1, <2>2, <2>3, <2>4 DEF Records
<1>12. Apart'
  <2>1. ASSUME NEW d \in Command, NEW e \in Command,
               NEW f \in About(todo'[d]) \cap About(todo'[e])
        PROVE  d = e \/ f \in crossed'
    <3>1. About(<<>>) = {}
      BY DEF About
    <3>2. d \notin cut /\ e \notin cut
      BY <1>4, <2>1, <3>1
    <3> QED
      BY <1>4, <2>1, <3>2 DEF PRInv, Apart
  <2>2. ASSUME NEW d \in Command, Doing(d, "truncate")', Head(todo'[d]).file \notin crossed',
               NEW q \in pidFile'[Head(todo'[d]).file], Live(q)'
        PROVE  q \in targets'[d]
    <3>1. Doing(d, "truncate") /\ todo'[d] = todo[d] /\ d \notin cut
      BY <1>8, <2>2
    <3>2. Head(todo[d]).file \in File
      BY <3>1, FirstStep DEF PRInv, Scripts, Doing, Rd, Tr, Sp, Ap
    <3>3. pidFile' = pidFile /\ pidFile[Head(todo[d]).file] \subseteq Pid
      BY <1>1, <3>2 DEF PRInv, PRTypeOK
    <3>4. q \in pidFile[Head(todo[d]).file] /\ q \in Pid /\ Live(q) /\ q # p
      BY <1>6, <2>2, <3>1, <3>3
    <3>5. Head(todo[d]).file \notin crossed
      BY <1>4, <2>2, <3>1
    <3>6. q \in targets[d]
      BY <3>1, <3>4, <3>5 DEF PRInv, Apart
    <3> QED
      BY <1>1, <3>1, <3>4, <3>6
  <2> QED
    BY <2>1, <2>2 DEF Apart
<1>13. Single'
  <2>1. \A d \in Command, v \in InDashboard : Imminent(todo'[d], v) => Imminent(todo[d], v)
    BY <1>4 DEF Imminent
  <2>2. "dashboard" \notin crossed' => "dashboard" \notin crossed
    BY <1>4
  <2>3. doubled' = doubled
    BY <1>1
  <2> QED
    BY <1>5, <1>6, <2>1, <2>2, <2>3 DEF PRInv, Single
<1>14. KilledStaysDown'
  <2>1. orphans' = orphans
    BY <1>1
  <2> QED
    BY <1>5, <2>1 DEF PRInv, KilledStaysDown, Live
<1> QED
  BY <1>7, <1>9, <1>11, <1>12, <1>13, <1>14 DEF PRInv

(* What a daemon does leaves the commands and the files alone.             *)
LEMMA DaemonKeeps ==
  ASSUME PRInv, UNCHANGED <<commands, files, crossed, doubled>>, orphans \subseteq orphans', orphans' \subseteq Pid,
         daemon' \in [Pid -> [what : Daemon, leads : BOOLEAN, boot : {"none", "up", "leaving", "dying"}]],
         \A q \in Pid : daemon'[q].what = daemon[q].what /\ (Live(q)' => Live(q)),
         KilledStaysDown'
  PROVE PRInv'
<1>1. UNCHANGED <<pidFile, present, todo, targets, child, host, given, crossed, doubled>>
  BY DEF commands, files
<1>2. PRTypeOK'
  BY <1>1 DEF PRInv, PRTypeOK
<1>3. Scripts'
  BY <1>1 DEF PRInv, Scripts
<1>4. \A d \in Command, act \in {"append", "truncate"} : Doing(d, act)' <=> Doing(d, act)
  BY <1>1 DEF Doing
<1>5. DaemonsRecorded'
  <2> SUFFICES ASSUME NEW q \in Pid, Live(q)', FileOf(daemon'[q].what) \in File \ crossed'
               PROVE \/ q \in pidFile'[FileOf(daemon'[q].what)]
                     \/ \E d \in Command : child'[d] = q /\ Doing(d, "append")'
    BY DEF DaemonsRecorded
  <2>1. Live(q) /\ daemon'[q].what = daemon[q].what /\ FileOf(daemon[q].what) \in File \ crossed
    BY <1>1
  <2> QED
    BY <1>1, <1>4, <2>1 DEF PRInv, Records, DaemonsRecorded
<1>6. Records'
  <2>1. ASSUME NEW d \in Command, Doing(d, "append")'
        PROVE child'[d] \in Pid /\ daemon'[child'[d]].what = Head(todo'[d]).what
    <3>1. child[d] \in Pid /\ daemon[child[d]].what = Head(todo[d]).what
      BY <1>4, <2>1 DEF PRInv, Records
    <3> QED
      BY <1>1, <3>1
  <2>2. \A q \in Pid : daemon'[q].what = "unborn" => ~Live(q)'
    BY DEF PRInv, Records
  <2>3. \A g \in File : \A q \in pidFile'[g] : daemon'[q].what # "unborn"
    <3>1. \A g \in File : pidFile[g] \subseteq Pid
      BY DEF PRInv, PRTypeOK
    <3> QED
      BY <1>1, <3>1 DEF PRInv, Records
  <2>4. \A g \in File : g \notin present' => pidFile'[g] = {}
    BY <1>1 DEF PRInv, Records
  <2> QED
    BY <1>5, <2>1, <2>2, <2>3, <2>4 DEF Records
<1>7. Apart'
  <2>1. \A d, e \in Command : \A f \in About(todo'[d]) \cap About(todo'[e]) : d = e \/ f \in crossed'
    BY <1>1 DEF PRInv, Apart
  <2>2. ASSUME NEW d \in Command, Doing(d, "truncate")', Head(todo'[d]).file \notin crossed',
               NEW q \in pidFile'[Head(todo'[d]).file], Live(q)'
        PROVE  q \in targets'[d]
    <3>1. Doing(d, "truncate")
      BY <1>4, <2>2
    <3>2. Head(todo[d]).file \in File
      BY <3>1, FirstStep DEF PRInv, Scripts, Doing, Rd, Tr, Sp, Ap
    <3>3. q \in Pid /\ q \in pidFile[Head(todo[d]).file]
      BY <1>1, <2>2, <3>2 DEF PRInv, PRTypeOK
    <3>4. Live(q)
      BY <2>2, <3>3
    <3> QED
      BY <1>1, <2>2, <3>1, <3>3, <3>4 DEF PRInv, Apart
  <2> QED
    BY <2>1, <2>2 DEF Apart
<1>8. Single'
  BY <1>1 DEF PRInv, Single
<1> QED
  BY <1>2, <1>3, <1>6, <1>7, <1>8 DEF PRInv

LEMMA ProcessesStep == PRInv /\ [PRNext]_prvars => PRInv'
<1> SUFFICES ASSUME PRInv, [PRNext]_prvars PROVE PRInv'
  OBVIOUS
<1> DEFINE DaemonType == [Pid -> [what : Daemon, leads : BOOLEAN, boot : {"none", "up", "leaving", "dying"}]]
<1>1. daemon \in DaemonType /\ orphans \subseteq Pid /\ KilledStaysDown
  BY DEF PRInv, PRTypeOK
<1>2. ASSUME NEW c \in Command, Typed(c) PROVE PRInv'
  <2>1. PICK does \in {"run", "start", "stop", "restart", "dashboard"} : Begin(c, does, Nothing)
    BY <1>2 DEF Typed
  <2>2. Nothing \in Pid \cup {Nothing}
    OBVIOUS
  <2> QED
    BY <2>1, <2>2, BeginKeeps
<1>3. ASSUME NEW c \in Command, RestartPressed(c) PROVE PRInv'
  <2>1. PICK p \in Pid : Begin(c, "restart", p)
    BY <1>3 DEF RestartPressed
  <2>2. p \in Pid \cup {Nothing}
    OBVIOUS
  <2> QED
    BY <2>1, <2>2, BeginKeeps
<1>4. ASSUME NEW c \in Command, CommandStep(c) PROVE PRInv'
  BY <1>4, ReadKeeps, TruncateKeeps, AppendKeeps, KillKeeps, SpawnKeeps DEF CommandStep
<1>5. ASSUME NEW p \in Pid, BootRestarts(p) PROVE PRInv'
  <2>1. daemon' \in DaemonType
    BY <1>1, <1>5 DEF BootRestarts
  <2>2. \A q \in Pid : daemon'[q].what = daemon[q].what /\ (Live(q)' => Live(q))
    BY <1>1, <1>5 DEF BootRestarts, Live
  <2>3. KilledStaysDown'
    BY <1>1, <1>5 DEF BootRestarts, KilledStaysDown, Live, marksOfOverlap
  <2> QED
    BY <1>1, <1>5, <2>1, <2>2, <2>3, DaemonKeeps DEF BootRestarts, marksOfOverlap
<1>6. ASSUME NEW p \in Pid, Interrupted(p) PROVE PRInv'
  <2>1. daemon' \in DaemonType
    BY <1>1, <1>6 DEF Interrupted
  <2>2. \A q \in Pid : daemon'[q].what = daemon[q].what /\ (Live(q)' => Live(q))
    BY <1>1, <1>6 DEF Interrupted, Live
  <2>3. KilledStaysDown'
    BY <1>1, <1>6 DEF Interrupted, KilledStaysDown, Live, marksOfOverlap
  <2> QED
    BY <1>1, <1>6, <2>1, <2>2, <2>3, DaemonKeeps DEF Interrupted, marksOfOverlap
<1>7. ASSUME NEW p \in Pid, BootExits(p) PROVE PRInv'
  <2>0. daemon' = [daemon EXCEPT ![p].boot = "none", ![p].leads = @ /\ daemon[p].boot = "leaving"]
    BY <1>7 DEF BootExits
  <2>1. /\ daemon' \in DaemonType
        /\ \A q \in Pid \ {p} : daemon'[q] = daemon[q]
        /\ daemon'[p].what = daemon[p].what /\ daemon'[p].boot = "none"
        /\ daemon'[p].leads => daemon[p].leads
    BY <1>1, <2>0
  <2>2. \A q \in Pid : daemon'[q].what = daemon[q].what /\ (Live(q)' => Live(q))
    BY <2>1 DEF Live
  <2>3. KilledStaysDown'
    BY <1>1, <1>7, <2>1 DEF BootExits, KilledStaysDown, Live, marksOfOverlap
  <2> QED
    BY <1>1, <1>7, <2>1, <2>2, <2>3, DaemonKeeps DEF BootExits, marksOfOverlap
<1>8. ASSUME NEW p \in Pid, BootFails(p) PROVE PRInv'
  <2>1. daemon' \in DaemonType
    BY <1>1, <1>8 DEF BootFails
  <2>2. \A q \in Pid : daemon'[q].what = daemon[q].what /\ (Live(q)' => Live(q))
    BY <1>1, <1>8 DEF BootFails, Live
  <2>3. KilledStaysDown'
    BY <1>1, <1>8 DEF BootFails, KilledStaysDown, Live, marksOfOverlap
  <2> QED
    BY <1>1, <1>8, <2>1, <2>2, <2>3, DaemonKeeps DEF BootFails, marksOfOverlap
<1>9. ASSUME NEW p \in Pid, Relaunch(p) PROVE PRInv'
  <2>1. daemon' \in DaemonType
    BY <1>1, <1>9 DEF Relaunch
  <2>2. \A q \in Pid : daemon'[q].what = daemon[q].what /\ (Live(q)' => Live(q))
    BY <1>1, <1>9 DEF Relaunch, Live
  <2>3. KilledStaysDown'
    BY <1>1, <1>9 DEF Relaunch, KilledStaysDown, Live, marksOfOverlap
  <2> QED
    BY <1>1, <1>9, <2>1, <2>2, <2>3, DaemonKeeps DEF Relaunch, marksOfOverlap
<1>10. ASSUME NEW p \in Pid, SupervisorDies(p) PROVE PRInv'
  <2>1. daemon' \in DaemonType /\ orphans' = orphans \cup {p} /\ orphans' \subseteq Pid
    BY <1>1, <1>10 DEF SupervisorDies
  <2>2. \A q \in Pid : daemon'[q].what = daemon[q].what /\ (Live(q)' => Live(q))
    BY <1>1, <1>10 DEF SupervisorDies, Live
  <2>3. KilledStaysDown'
    BY <1>1, <1>10 DEF SupervisorDies, KilledStaysDown, Live
  <2> QED
    BY <1>1, <1>10, <2>1, <2>2, <2>3, DaemonKeeps DEF SupervisorDies
<1>11. CASE UNCHANGED prvars
  <2>1. /\ UNCHANGED <<commands, files, crossed, doubled>>
        /\ daemon' = daemon /\ orphans' = orphans
    BY <1>11 DEF prvars, commands, files
  <2>2. \A q \in Pid : daemon'[q].what = daemon[q].what /\ (Live(q)' => Live(q))
    BY <2>1 DEF Live
  <2>3. KilledStaysDown'
    BY <1>1, <2>1 DEF KilledStaysDown, Live
  <2> QED
    BY <1>1, <2>1, <2>2, <2>3, DaemonKeeps
<1> QED
  BY <1>2, <1>3, <1>4, <1>5, <1>6, <1>7, <1>8, <1>9, <1>10, <1>11 DEF PRNext

(* The inductive invariant of the processes.                               *)
THEOREM ProcessesInvariant == PRSpec => []PRInv
<1>1. PRInit => PRInv
  BY ProcessesInit
<1>2. PRInv /\ [PRNext]_prvars => PRInv'
  BY ProcessesStep
<1> QED
  BY <1>1, <1>2, PTL DEF PRSpec

(* The processes, files and scripts stay of their types.                   *)
THEOREM ProcessesTypes == PRSpec => []PRTypeOK
<1>1. PRInv => PRTypeOK
  BY DEF PRInv
<1> QED
  BY <1>1, ProcessesInvariant, PTL

(* What was told to stop is on its way out and no restart brings it back,   *)
(* whichever boots, kills and relaunches race.                             *)
THEOREM StoppedStaysStopped == PRSpec => []KilledStaysDown
<1>1. PRInv => KilledStaysDown
  BY DEF PRInv
<1> QED
  BY <1>1, ProcessesInvariant, PTL

LEMMA InvariantKeeps == PRInv => DaemonsKept
<1>1. ASSUME PRInv, NEW what \in {"runtime", "config", "console"}, FileOf(what) \notin crossed, ~doubled
      PROVE  LET running == {p \in Pid : daemon[p].what = what /\ (Live(p) \/ daemon[p].boot \in {"up", "leaving"})} IN
             running \cap orphans = {} => Cardinality(running) <= 1
  <2> DEFINE running == {p \in Pid : daemon[p].what = what /\ (Live(p) \/ daemon[p].boot \in {"up", "leaving"})}
  <2> SUFFICES ASSUME running \cap orphans = {} PROVE Cardinality(running) <= 1
    OBVIOUS
  <2>1. \A p \in running : p \in Pid /\ Live(p) /\ daemon[p].what = what
    BY <1>1 DEF PRInv, KilledStaysDown
  <2>2. \A p, q \in running : p = q
    <3>1. CASE what = "runtime"
      BY <1>1, <2>1, <3>1 DEF PRInv, Single
    <3>2. CASE what \in InDashboard
      <4>1. "dashboard" \notin crossed
        BY <1>1, <3>2 DEF FileOf, InDashboard
      <4> QED
        BY <2>1, <3>2, <4>1, <1>1 DEF PRInv, Single
    <3> QED
      BY <3>1, <3>2 DEF InDashboard
  <2> HIDE DEF running
  <2>3. CASE running = {}
    BY <2>3, FS_EmptySet
  <2>4. CASE running # {}
    <3>1. PICK p \in running : running = {p}
      BY <2>2, <2>4
    <3> QED
      BY <3>1, FS_Singleton
  <2> QED
    BY <2>3, <2>4
<1> QED
  BY <1>1 DEF PRInv, Records, DaemonsKept, Replaced

(* Every daemon that lives is where a stop looks for it, and of each there  *)
(* is one only, unless two commands crossed, a second runtime was asked     *)
(* for, or a supervisor died by itself.                                    *)
THEOREM DaemonsAreKept == PRSpec => []DaemonsKept
BY InvariantKeeps, ProcessesInvariant, PTL

----------------------------------------------------------------------------
(* The surfaces: who holds the server, and who is listed.                  *)

Held ==
  /\ copy.folder # NoFolder => saves < MaxSaves
  /\ refs = Cardinality(holders)
  /\ boot.at = "starting" => holders \subseteq 1..(boot.next - 1)
  /\ boot.at = "joining" => boot.next \in holders /\ holders \subseteq 1..boot.next /\ server.is = "binding"
  /\ boot.at = "down" => holders = {} /\ listed = {} /\ server = NoServer
  /\ ~twins => holders \subseteq listed
  /\ "left" \notin upset => listed \subseteq {Ident(f) : f \in holders}
  /\ server.is = "failed" => "unbound" \in upset
  /\ ServedWhileNeeded

(* Nothing came between: the agent that is to make the server is the same   *)
(* for all who ask, its token is pinned before the runtime comes up, but    *)
(* for one that comes up bare, and both ends have taken it from there.      *)
Maker == Winner(file)
Pinned == Maker = NoFolder \/ file[Maker].token # NoToken
Bare == boot.by = "bare"

Agreed ==
  /\ asks["runtime"].at = "done" \/ (boot.at # "down" /\ ~Bare) \/ boot.again => Pinned
  /\ framed # NoToken => Maker # NoFolder /\ framed = file[Maker].token
  /\ \A c \in Commander : asks[c].at = "looked" =>
       asks[c].folder = Maker /\ Maker # NoFolder /\ asks[c].seen.has /\ asks[c].seen.token = NoToken
  /\ boot.at \in {"starting", "joining"} =>
       /\ \A f \in Folder : boot.read[f].has = file[f].has
       /\ Maker # NoFolder /\ ~Bare => boot.read[Maker].token = file[Maker].token
  /\ boot.at = "starting" /\ server.is = "none" /\ Maker # NoFolder => boot.next <= Maker
  /\ server.is # "none" => Maker # NoFolder /\ (Bare \/ server.token = file[Maker].token)

OneToken == upset = {} => Agreed

SFInv == SFTypeOK /\ Held /\ OneToken

----------------------------------------------------------------------------
(* The tabs: what a call knows of the tab that it works in.                *)

UseType ==
  [tool : Tool \cup {"none"},
   at : {"idle", "listing", "listed", "making", "attach", "command", "poll", "asking", "done", "failed"},
   tab : 0..MaxTab, targets : SUBSET Tab, own : 0..MaxPage, got : Seq(0..MaxPage),
   moved : BOOLEAN, late : BOOLEAN, told : 0..MaxTab]

TabsTyped ==
  /\ tabs \in [made : 0..MaxTab, open : SUBSET Tab] /\ tabs.open \subseteq 1..tabs.made
  /\ shows \in [Tab -> [is : 0..MaxPage, complete : BOOLEAN]] /\ pages \in 0..MaxPage
  /\ active \in 0..MaxTab /\ attached \subseteq Tab
  /\ use \in [Use -> UseType]
  /\ meant \in 0..tabs.made /\ overruled \in BOOLEAN
  /\ \A u \in Use : use[u].targets \subseteq 1..tabs.made /\ use[u].own <= pages

Working == {"attach", "command", "poll", "asking", "done"}

(* The tab last activated is the active one; a call that was made since     *)
(* works in it.                                                            *)
HoldsTo(c) == c.at \in Working /\ c.tool # "activate" /\ c.told # NoTab => c.tab = c.told

ActiveIsMeant == ~overruled => (meant \in tabs.open => active = meant) /\ \A u \in Use : HoldsTo(use[u])

(* A page that nobody else moved is the one all answers are of.            *)
OfOnePage(c, s) ==
  /\ c.at \in {"making", "attach", "command", "poll", "asking"} => c.tool # "activate"
  /\ c.at \in Working /\ c.tool # "activate" => c.tab \in Tab
  /\ c.at \notin {"asking", "done", "failed"} => c.got = <<>>
  /\ ~c.moved =>
       /\ c.at \in {"poll", "asking"} =>
            /\ \A i \in 1..Len(c.got) : c.got[i] = s[c.tab].is
            /\ c.tool = "navigate" => s[c.tab].is = c.own
       /\ c.at = "asking" /\ c.tool = "navigate" => c.late \/ s[c.tab].complete
       /\ c.at = "done" /\ c.tool # "activate" =>
            /\ Len(c.got) > 0 /\ \A i \in 1..Len(c.got) : c.got[i] = c.got[1]
            /\ c.tool = "navigate" =>
                 c.got[1] = c.own /\ (s[c.tab].is = c.own => c.late \/ s[c.tab].complete)

OnePageEach == \A u \in Use : OfOnePage(use[u], shows)

TInv == TabsTyped /\ ActiveIsMeant /\ OnePageEach

----------------------------------------------------------------------------
(* Lemmas about the least of a set, the agent that makes the server and the *)
(* count of those who hold it.                                             *)

LEMMA LeastOf ==
  ASSUME NEW S \in SUBSET Nat, S # {}
  PROVE  Min(S) \in S /\ \A y \in S : Min(S) <= y
<1> DEFINE R == OpToRel(<, Nat)
<1>1. IsWellFoundedOn(R, Nat)
  BY NatLessThanWellFounded
<1>2. R = {ss \in Nat \X Nat : ss[1] < ss[2]}
  BY DEF OpToRel
<1> HIDE DEF R
<1>3. PICK m \in S : \A y \in S : ~(<<y, m>> \in R)
  BY <1>1, WFMin
<1>4. \A y \in S : ~(y < m)
  BY <1>2, <1>3
<1>5. \A y \in S : m <= y
  BY <1>4
<1> QED
  BY <1>3, <1>5 DEF Min

LEMMA MakerIs ==
  /\ Maker \in 0..MaxFolder
  /\ Maker = NoFolder => \A f \in Folder : ~file[f].has
  /\ Maker # NoFolder => /\ Maker \in Folder /\ file[Maker].has
                         /\ \A f \in Folder : file[f].has => Maker <= f
<1> DEFINE S == {f \in Folder : file[f].has}
<1>0. MaxFolder \in Nat
  BY SurfacesAssumption
<1>1. CASE S = {}
  <2>1. ~\E f \in Folder : file[f].has
    BY <1>1
  <2>2. Maker = NoFolder
    BY <2>1 DEF Maker, Winner
  <2> QED
    BY <1>0, <2>1, <2>2 DEF NoFolder
<1>2. CASE S # {}
  <2>1. S \in SUBSET Nat
    BY <1>0 DEF Folder
  <2>2. Maker = Min(S)
    BY <1>2 DEF Maker, Winner
  <2>3. Maker \in S /\ \A f \in S : Maker <= f
    <3> HIDE DEF S
    <3> QED
      BY <1>2, <2>1, <2>2, LeastOf
  <2>4. Maker \in 1..MaxFolder
    BY <2>3 DEF Folder
  <2> QED
    BY <1>0, <2>3, <2>4 DEF NoFolder, Folder
<1> QED
  BY <1>1, <1>2

LEMMA MakerStays ==
  ASSUME \A f \in Folder : file'[f].has = file[f].has
  PROVE  Maker' = Maker
<1>1. {f \in Folder : file'[f].has} = {f \in Folder : file[f].has}
  OBVIOUS
<1>2. (\E f \in Folder : file'[f].has) <=> (\E f \in Folder : file[f].has)
  OBVIOUS
<1> QED
  BY <1>1, <1>2 DEF Maker, Winner

LEMMA CountOf ==
  ASSUME NEW S \in SUBSET Folder
  PROVE  /\ Cardinality(S) \in Nat /\ (Cardinality(S) = 0 <=> S = {})
         /\ \A f \in S : Cardinality(S \ {f}) = Cardinality(S) - 1
         /\ \A f \in Folder \ S : Cardinality(S \cup {f}) = Cardinality(S) + 1
<1>1. IsFiniteSet(Folder)
  <2>1. 1 \in Int /\ MaxFolder \in Int
    BY SurfacesAssumption
  <2> QED
    BY <2>1, FS_Interval DEF Folder
<1>2. IsFiniteSet(S)
  BY <1>1, FS_Subset
<1>3. Cardinality(S) \in Nat /\ (Cardinality(S) = 0 <=> S = {})
  BY <1>2, FS_CardinalityType, FS_EmptySet
<1> QED
  BY <1>2, <1>3, FS_RemoveElement, FS_AddElement

----------------------------------------------------------------------------
(* The surfaces keep their types.                                          *)

LEMMA SurfaceTypes ==
  ASSUME SFTypeOK, Held, SFStep
  PROVE  SFTypeOK'
<1>0. /\ {MaxFolder, MaxToken, MaxBoots, MaxSaves} \subseteq Nat
      /\ NoToken \in 0..MaxToken /\ NoFolder \in 0..MaxFolder /\ NoSlice \in Slice
      /\ NotAsking \in [at : {"idle", "looked", "done"}, folder : 0..MaxFolder, seen : Slice]
      /\ [NotAsking EXCEPT !.at = "done"] \in [at : {"idle", "looked", "done"}, folder : 0..MaxFolder, seen : Slice]
      /\ NoCopy \in [folder : 0..MaxFolder, slice : Slice]
      /\ Unread \in [Folder -> Slice]
      /\ NoServer \in [is : {"none", "binding", "bound", "failed"}, token : 0..MaxToken]
      /\ Folder \subseteq 0..MaxFolder
  <2>1. /\ {MaxFolder, MaxToken, MaxBoots, MaxSaves} \subseteq Nat
        /\ NoToken \in 0..MaxToken /\ NoFolder \in 0..MaxFolder /\ Folder \subseteq 0..MaxFolder
    BY SurfacesAssumption DEF NoToken, NoFolder, Folder
  <2>2. NoSlice \in Slice
    BY <2>1 DEF NoSlice, Slice
  <2> QED
    BY <2>1, <2>2 DEF NotAsking, NoCopy, Unread, NoServer
<1>1. ASSUME NEW c \in Commander, Looks(c) PROVE SFTypeOK'
  <2>1. Winner(file) \in 0..MaxFolder /\ (Winner(file) # NoFolder => Winner(file) \in Folder)
    BY MakerIs DEF Maker
  <2>2. /\ asks' \in [Commander -> [at : {"idle", "looked", "done"}, folder : 0..MaxFolder, seen : Slice]]
        /\ framed' \in 0..MaxToken
    BY <1>0, <1>1, <2>1 DEF Looks, Serves, SFTypeOK, Slice
  <2>3. upset' \subseteq {"raced", "unwritten", "edited", "skipped", "unbound", "left"}
    BY <1>1 DEF Looks, SFTypeOK
  <2> QED
    BY <1>1, <2>2, <2>3 DEF Looks, onDisk, inHub, SFTypeOK
<1>2. ASSUME NEW c \in Commander, Pins(c) PROVE SFTypeOK'
  <2>1. minted' \in 0..MaxToken /\ asks[c].seen \in Slice
    BY <1>0, <1>2 DEF Pins, SFTypeOK
  <2>2. [asks[c].seen EXCEPT !.token = minted'] \in Slice
    BY <2>1 DEF Slice
  <2>3. file' \in [Folder -> Slice]
    BY <1>2, <2>2 DEF Pins, SFTypeOK
  <2>4. /\ asks' \in [Commander -> [at : {"idle", "looked", "done"}, folder : 0..MaxFolder, seen : Slice]]
        /\ framed' \in 0..MaxToken
        /\ upset' \subseteq {"raced", "unwritten", "edited", "skipped", "unbound", "left"}
    BY <1>0, <1>2, <2>1 DEF Pins, Serves, SFTypeOK
  <2> QED
    BY <1>2, <2>1, <2>3, <2>4 DEF Pins, inHub, SFTypeOK
<1>3. ASSUME NEW c \in Commander, PinFails(c) PROVE SFTypeOK'
  <2>1. minted' \in 0..MaxToken
    BY <1>0, <1>3 DEF PinFails, SFTypeOK
  <2>2. /\ asks' \in [Commander -> [at : {"idle", "looked", "done"}, folder : 0..MaxFolder, seen : Slice]]
        /\ framed' \in 0..MaxToken
        /\ upset' \subseteq {"raced", "unwritten", "edited", "skipped", "unbound", "left"}
    BY <1>0, <1>3, <2>1 DEF PinFails, Serves, SFTypeOK
  <2> QED
    BY <1>3, <2>1, <2>2 DEF PinFails, inHub, SFTypeOK
<1>4. CASE OpensAgain
  BY <1>0, <1>4 DEF OpensAgain, onDisk, inHub, SFTypeOK
<1>5. ASSUME NEW f \in Folder, EditorReads(f) PROVE SFTypeOK'
  <2>1. file[f] \in Slice /\ f \in 0..MaxFolder
    BY <1>0 DEF SFTypeOK
  <2> QED
    BY <1>5, <2>1 DEF EditorReads, inCommands, inHub, SFTypeOK
<1>6. ASSUME NEW has \in BOOLEAN, EditorSaves(has) PROVE SFTypeOK'
  <2>1. [copy.slice EXCEPT !.has = has] \in Slice
    BY DEF SFTypeOK, Slice
  <2>2. saves' \in 0..MaxSaves
    BY <1>0, <1>6 DEF EditorSaves, SFTypeOK, Held
  <2>3. file' \in [Folder -> Slice] /\ copy' = NoCopy
    BY <1>6, <2>1 DEF EditorSaves, SFTypeOK
  <2>4. upset' \subseteq {"raced", "unwritten", "edited", "skipped", "unbound", "left"}
    BY <1>6 DEF EditorSaves, SFTypeOK
  <2> QED
    BY <1>0, <1>6, <2>2, <2>3, <2>4 DEF EditorSaves, inCommands, inHub, SFTypeOK
<1>7. CASE ComesUp
  <2>1. boots' \in 0..MaxBoots /\ 1 \in 1..(MaxFolder + 1)
    BY <1>0, <1>7 DEF ComesUp, BootsBy, SFTypeOK
  <2> QED
    BY <1>0, <1>7, <2>1 DEF ComesUp, BootsBy, onDisk, inHub, SFTypeOK
<1>7a. CASE StartsByHand
  <2>1. boots' \in 0..MaxBoots /\ 1 \in 1..(MaxFolder + 1)
    BY <1>0, <1>7a DEF StartsByHand, BootsBy, SFTypeOK
  <2>2. PICK who \in {"hand", "bare"} : BootsBy(who)
    BY <1>7a DEF StartsByHand
  <2>3. boot' \in [at : {"down", "starting", "joining", "up", "stopping"}, read : [Folder -> Slice],
                   next : 1..(MaxFolder + 1), again : BOOLEAN, by : {"command", "hand", "bare"}]
    BY <2>1, <2>2 DEF BootsBy, SFTypeOK
  <2> QED
    BY <1>7a, <2>1, <2>3 DEF StartsByHand, onDisk, inCommands, inHub, SFTypeOK
<1>8. ASSUME GoesOn, boot.next \in Folder
      PROVE  boot' \in [at : {"down", "starting", "joining", "up", "stopping"}, read : [Folder -> Slice],
                        next : 1..(MaxFolder + 1), again : BOOLEAN, by : {"command", "hand", "bare"}]
  <2>1. boot.next + 1 \in 1..(MaxFolder + 1)
    BY <1>0, <1>8, SMTT(60) DEF Folder
  <2> QED
    BY <1>8, <2>1 DEF GoesOn, SFTypeOK
<1>9. CASE PassesBy
  <2>1. upset' \subseteq {"raced", "unwritten", "edited", "skipped", "unbound", "left"}
    BY <1>9 DEF PassesBy, SFTypeOK
  <2> QED
    BY <1>8, <1>9, <2>1 DEF PassesBy, onDisk, inCommands, inHub, SFTypeOK
<1>10. \A f \in Folder : Ident(f) \in Folder
  <2>1. Folder # {} => 1 \in Folder
    BY <1>0 DEF Folder
  <2> QED
    BY <2>1 DEF Ident
<1>11. refs + 1 \in Nat /\ \A f \in holders : refs - 1 \in Nat
  <2>1. holders \in SUBSET Folder /\ refs = Cardinality(holders)
    BY DEF SFTypeOK, Held
  <2>2. refs \in Nat /\ (holders # {} => refs # 0)
    BY <2>1, CountOf
  <2> QED
    BY <2>2
<1>12. CASE Joins
  <2>1. boot.next \in Folder
    BY <1>12 DEF Joins
  <2>2. PICK own \in TokensFor(boot.next) :
          /\ minted' = Max({minted, own})
          /\ server' = [is |-> IF server.is = "none" THEN "binding" ELSE server.is, token |-> TokenOf(own)]
    BY <1>12 DEF Joins
  <2>3. own \in 0..MaxToken
    BY <1>0, <2>1 DEF TokensFor, SFTypeOK, Slice
  <2>4. minted' \in 0..MaxToken
    <3>1. minted \in Nat /\ own \in Nat /\ minted \in 0..MaxToken
      BY <1>0, <2>3 DEF SFTypeOK
    <3>2. \E x \in {minted, own} : \A y \in {minted, own} : x >= y
      BY <3>1
    <3>3. Max({minted, own}) \in {minted, own}
      BY <3>2 DEF Max
    <3> QED
      BY <2>2, <2>3, <3>1, <3>3
  <2>5. server' \in [is : {"none", "binding", "bound", "failed"}, token : 0..MaxToken]
    BY <2>2, <2>3 DEF TokenOf, SFTypeOK
  <2>6. holders' \subseteq Folder /\ listed' \subseteq Folder /\ refs' \in Nat
    BY <1>10, <1>11, <1>12, <2>1 DEF Joins, Registers, SFTypeOK
  <2>7. boot' \in [at : {"down", "starting", "joining", "up", "stopping"}, read : [Folder -> Slice],
                   next : 1..(MaxFolder + 1), again : BOOLEAN, by : {"command", "hand", "bare"}]
    <3>1. CASE server.is = "none"
      BY <1>12, <3>1 DEF Joins, SFTypeOK
    <3>2. CASE server.is # "none"
      BY <1>8, <1>12, <2>1, <3>2 DEF Joins
    <3> QED
      BY <3>1, <3>2
  <2> QED
    BY <1>12, <2>4, <2>5, <2>6, <2>7 DEF Joins, inCommands, SFTypeOK
<1>13. boot.at = "joining" => boot.next \in Folder
  BY DEF Held, SFTypeOK
<1>14. CASE Bound
  <2>1. boot.next \in Folder /\ GoesOn
    BY <1>13, <1>14 DEF Bound
  <2> QED
    BY <1>8, <1>14, <2>1 DEF Bound, onDisk, inCommands, SFTypeOK
<1>15. CASE BindFails
  <2>1. boot.next \in Folder /\ GoesOn
    BY <1>13, <1>15 DEF BindFails
  <2>2. server' \in [is : {"none", "binding", "bound", "failed"}, token : 0..MaxToken]
    BY <1>0, <1>15 DEF BindFails, SFTypeOK
  <2>3. upset' \subseteq {"raced", "unwritten", "edited", "skipped", "unbound", "left"}
    BY <1>15 DEF BindFails, SFTypeOK
  <2> QED
    BY <1>8, <1>15, <2>1, <2>2, <2>3 DEF BindFails, onDisk, inCommands, SFTypeOK
<1>16. CASE JoinsInVain
  <2>1. boot.next \in Folder /\ GoesOn
    BY <1>16 DEF JoinsInVain
  <2>2. listed' \subseteq Folder
    BY <1>10, <1>16, <2>1 DEF JoinsInVain, SFTypeOK
  <2>3. upset' \subseteq {"raced", "unwritten", "edited", "skipped", "unbound", "left"}
    BY <1>16 DEF JoinsInVain, SFTypeOK
  <2> QED
    BY <1>8, <1>16, <2>1, <2>2, <2>3 DEF JoinsInVain, onDisk, inCommands, SFTypeOK
<1>17. ASSUME NEW f \in holders, Gone(f)
       PROVE  /\ holders' \subseteq Folder /\ listed' \subseteq Folder /\ refs' \in Nat
              /\ server' \in [is : {"none", "binding", "bound", "failed"}, token : 0..MaxToken]
  BY <1>0, <1>11, <1>17 DEF Gone, SFTypeOK
<1>18. CASE LeavesAgain
  <2>1. (boot.next - 1) \in holders /\ Gone(boot.next - 1)
    BY <1>18 DEF LeavesAgain
  <2>2. upset' \subseteq {"raced", "unwritten", "edited", "skipped", "unbound", "left"}
    BY <1>18 DEF LeavesAgain, SFTypeOK
  <2> QED
    BY <1>17, <1>18, <2>1, <2>2 DEF LeavesAgain, onDisk, inCommands, SFTypeOK
<1>19. CASE AllStarted
  BY <1>0, <1>19 DEF AllStarted, onDisk, inCommands, inHub, SFTypeOK
<1>20. CASE Stops
  BY <1>20, ZenonT(60) DEF Stops, onDisk, inCommands, inHub, SFTypeOK
<1>21. ASSUME NEW f \in Folder, Leaves(f) PROVE SFTypeOK'
  <2>1. f \in holders /\ Gone(f)
    BY <1>21 DEF Leaves
  <2> QED
    BY <1>17, <1>21, <2>1 DEF Leaves, onDisk, inCommands, SFTypeOK
<1>22. CASE GoesDown
  BY <1>0, <1>22 DEF GoesDown, onDisk, inCommands, SFTypeOK
<1>23. CASE Killed
  BY <1>0, <1>23 DEF Killed, onDisk, inCommands, SFTypeOK
<1> QED
  BY <1>1, <1>2, <1>3, <1>4, <1>5, <1>6, <1>7, <1>7a, <1>9, <1>12, <1>14, <1>15, <1>16, <1>18, <1>19, <1>20,
     <1>21, <1>22, <1>23 DEF SFStep

----------------------------------------------------------------------------
(* The server and those who hold it.                                       *)

(* What the commands and the editor do is nothing to the runtime.          *)
LEMMA HeldBeside ==
  ASSUME Held, UNCHANGED <<surface, twins, boot, holders, listed, refs, server>>, upset \subseteq upset',
         copy'.folder # NoFolder => saves' < MaxSaves
  PROVE  Held'
<1>1. \A f : Ident(f)' = Ident(f)
  BY DEF Ident
<1>2. ServedWhileNeeded'
  BY DEF Held, ServedWhileNeeded
<1>3. "left" \notin upset' => listed' \subseteq {Ident(f)' : f \in holders'}
  BY <1>1 DEF Held
<1> QED
  BY <1>2, <1>3 DEF Held

(* One that leaves takes the server along if it is the last.               *)
LEMMA GoneKeeps ==
  ASSUME SFTypeOK, Held, NEW f \in holders, Gone(f), UNCHANGED <<surface, twins>>, upset \subseteq upset'
  PROVE  /\ holders' = holders \ {f} /\ refs' = Cardinality(holders')
         /\ ~twins' => holders' \subseteq listed'
         /\ "left" \notin upset' => listed' \subseteq {Ident(g)' : g \in holders'}
         /\ server'.is = "failed" => "unbound" \in upset'
         /\ ServedWhileNeeded'
<1>1. /\ holders' = holders \ {f} /\ listed' = listed \ {Ident(f)} /\ refs' = refs - 1
      /\ server' = IF Ends(listed', refs') THEN NoServer ELSE server
  BY DEF Gone
<1>2. \A g : Ident(g)' = Ident(g)
  BY DEF Ident
<1>3. holders \in SUBSET Folder /\ holders' \in SUBSET Folder
  BY <1>1 DEF SFTypeOK
<1>4. refs' = Cardinality(holders') /\ (refs' = 0 <=> holders' = {})
  <2>1. Cardinality(holders \ {f}) = Cardinality(holders) - 1
    BY <1>3, CountOf
  <2>2. Cardinality(holders') = 0 <=> holders' = {}
    BY <1>3, CountOf
  <2> QED
    BY <1>1, <2>1, <2>2 DEF Held
<1>5. ~twins' => holders' \subseteq listed'
  BY <1>1 DEF Held, Ident
<1>6. ASSUME "left" \notin upset', NEW x \in listed'
      PROVE  x \in {Ident(g)' : g \in holders'}
  <2>1. PICK g \in holders : x = Ident(g)
    BY <1>1, <1>6 DEF Held
  <2>2. g # f
    BY <1>1, <1>6, <2>1
  <2> QED
    BY <1>1, <1>2, <2>1, <2>2
<1>7. server'.is = "failed" => "unbound" \in upset'
  BY <1>1 DEF Held, NoServer
<1>8. ASSUME holders' # {}, "unbound" \notin upset', ~(surface' = "chat" /\ twins')
      PROVE  server'.is \in {"binding", "bound"}
  <2>1. ~Ends(listed', refs')
    BY <1>4, <1>5, <1>8 DEF Ends, SFTypeOK
  <2> QED
    BY <1>1, <1>8, <2>1 DEF Held, ServedWhileNeeded
<1>9. ASSUME holders' = {}, "left" \notin upset' PROVE server' = NoServer
  <2>1. listed' = {}
    BY <1>6, <1>9
  <2> QED
    BY <1>1, <1>4, <1>9, <2>1 DEF Ends
<1> QED
  BY <1>1, <1>4, <1>5, <1>6, <1>7, <1>8, <1>9 DEF ServedWhileNeeded

LEMMA HeldStep ==
  ASSUME SFTypeOK, Held, SFStep
  PROVE  Held'
<1>0. MaxFolder \in Nat /\ MaxSaves \in Nat /\ Cardinality({}) = 0 /\ NoServer.is = "none"
  BY SurfacesAssumption, FS_EmptySet DEF NoServer
<1>1. ASSUME NEW c \in Commander, Looks(c) PROVE Held'
  BY <1>1, HeldBeside DEF Looks, onDisk, inHub, Held
<1>2. ASSUME NEW c \in Commander, Pins(c) PROVE Held'
  BY <1>2, HeldBeside DEF Pins, inHub, Held
<1>3. ASSUME NEW c \in Commander, PinFails(c) PROVE Held'
  BY <1>3, HeldBeside DEF PinFails, inHub, Held
<1>4. CASE OpensAgain
  BY <1>4, HeldBeside DEF OpensAgain, onDisk, inHub, Held
<1>5. ASSUME NEW f \in Folder, EditorReads(f) PROVE Held'
  BY <1>5, HeldBeside DEF EditorReads, inHub
<1>6. ASSUME NEW has \in BOOLEAN, EditorSaves(has) PROVE Held'
  BY <1>6, HeldBeside DEF EditorSaves, inHub, NoCopy
<1> DEFINE Rest == UNCHANGED <<surface, twins, copy, saves, holders, listed, refs, server>> /\ upset \subseteq upset'
<1>7. ASSUME Rest
      PROVE  /\ copy'.folder # NoFolder => saves' < MaxSaves
             /\ refs' = Cardinality(holders') /\ (~twins' => holders' \subseteq listed')
             /\ "left" \notin upset' => listed' \subseteq {Ident(f)' : f \in holders'}
             /\ server'.is = "failed" => "unbound" \in upset'
             /\ ServedWhileNeeded'
  <2>1. \A f : Ident(f)' = Ident(f)
    BY <1>7 DEF Ident
  <2>2. ServedWhileNeeded'
    BY <1>7 DEF Held, ServedWhileNeeded
  <2> QED
    BY <1>7, <2>1, <2>2 DEF Held
<1>8. CASE ComesUp \/ StartsByHand
  <2>1. Rest /\ holders = {} /\ boot'.at = "starting"
    BY <1>8 DEF ComesUp, StartsByHand, BootsBy, onDisk, inCommands, inHub, Held
  <2> QED
    BY <1>7, <2>1 DEF Held
<1>9. ASSUME boot.at = "starting" \/ boot.at = "joining", GoesOn
      PROVE  boot'.at = "starting" /\ holders \subseteq 1..(boot'.next - 1) /\ boot'.next = boot.next + 1
  <2>1. boot.next \in Nat /\ boot'.at = "starting" /\ boot'.next = boot.next + 1
    BY <1>0, <1>9 DEF GoesOn, SFTypeOK
  <2>2. holders \subseteq 1..boot.next
    BY <1>9, <2>1 DEF Held
  <2> QED
    BY <2>1, <2>2
<1>10. CASE PassesBy
  <2>1. Rest /\ boot.at = "starting" /\ GoesOn
    BY <1>10 DEF PassesBy, onDisk, inHub
  <2> QED
    BY <1>7, <1>9, <2>1 DEF Held
<1>11. CASE Joins
  <2> DEFINE f == boot.next
  <2>1. /\ boot.at = "starting" /\ f \in Folder
        /\ holders' = holders \cup {f} /\ listed' = listed \cup {Ident(f)} /\ refs' = refs + 1
        /\ server'.is = IF server.is = "none" THEN "binding" ELSE server.is
        /\ IF server.is = "none" THEN boot' = [boot EXCEPT !.at = "joining"] ELSE GoesOn
        /\ UNCHANGED <<surface, twins, copy, saves, upset>>
    BY <1>11 DEF Joins, Registers
  <2>2. f \in Nat /\ holders \subseteq 1..(f - 1) /\ holders' \subseteq 1..f /\ f \notin holders /\ f \in holders'
    BY <1>0, <2>1 DEF Held, Folder
  <2>3. \A g : Ident(g)' = Ident(g)
    BY <2>1 DEF Ident
  <2>4. refs' = Cardinality(holders')
    <3>1. holders \in SUBSET Folder
      BY DEF SFTypeOK
    <3> QED
      BY <2>1, <2>2, <3>1, CountOf DEF Held
  <2>5. ~twins' => holders' \subseteq listed'
    BY <2>1 DEF Held, Ident
  <2>6. "left" \notin upset' => listed' \subseteq {Ident(g)' : g \in holders'}
    BY <2>1, <2>3 DEF Held
  <2>7. server'.is = "failed" => "unbound" \in upset'
    BY <2>1 DEF Held
  <2>8. server'.is \in {"binding", "bound", "failed"}
    BY <2>1 DEF SFTypeOK
  <2>9. ServedWhileNeeded'
    BY <2>2, <2>7, <2>8 DEF ServedWhileNeeded
  <2>10. CASE server.is = "none"
    <3>1. boot'.at = "joining" /\ boot'.next = f
      BY <2>1, <2>10 DEF SFTypeOK
    <3>2. server'.is = "binding"
      BY <2>1, <2>10
    <3> QED
      BY <2>1, <2>2, <2>4, <2>5, <2>6, <2>7, <2>9, <3>1, <3>2 DEF Held
  <2>11. CASE server.is # "none"
    <3>1. boot'.at = "starting" /\ boot'.next = f + 1
      BY <1>9, <2>1, <2>11
    <3>2. holders' \subseteq 1..(boot'.next - 1)
      BY <2>2, <3>1
    <3> QED
      BY <2>1, <2>4, <2>5, <2>6, <2>7, <2>9, <3>1, <3>2 DEF Held
  <2> QED
    BY <2>10, <2>11
<1>12. CASE Bound
  <2>1. /\ boot.at = "joining" /\ GoesOn /\ server'.is = "bound"
        /\ UNCHANGED <<surface, twins, copy, saves, holders, listed, refs, upset>>
    BY <1>12 DEF Bound, onDisk, SFTypeOK
  <2>2. holders' # {} /\ \A f : Ident(f)' = Ident(f)
    BY <2>1 DEF Held, Ident
  <2>3. ServedWhileNeeded'
    BY <2>1, <2>2 DEF ServedWhileNeeded
  <2> QED
    BY <1>9, <2>1, <2>2, <2>3 DEF Held
<1>13. CASE BindFails
  <2>1. /\ boot.at = "joining" /\ GoesOn /\ upset' = upset \cup {"unbound"}
        /\ UNCHANGED <<surface, twins, copy, saves, holders, listed, refs>>
    BY <1>13 DEF BindFails, onDisk
  <2>2. holders' # {} /\ \A f : Ident(f)' = Ident(f)
    BY <2>1 DEF Held, Ident
  <2>3. ServedWhileNeeded'
    BY <2>1, <2>2 DEF ServedWhileNeeded
  <2> QED
    BY <1>9, <2>1, <2>2, <2>3 DEF Held
<1>14. CASE JoinsInVain
  <2>1. /\ boot.at = "starting" /\ GoesOn /\ upset' = upset \cup {"skipped", "left"}
        /\ listed \subseteq listed'
        /\ UNCHANGED <<surface, twins, copy, saves, holders, refs, server>>
    BY <1>14 DEF JoinsInVain, onDisk
  <2>2. ServedWhileNeeded'
    BY <2>1 DEF Held, ServedWhileNeeded
  <2> QED
    BY <1>9, <2>1, <2>2 DEF Held
<1>15. CASE LeavesAgain
  <2> DEFINE f == boot.next - 1
  <2>1. /\ boot.at = "starting" /\ f \in holders /\ Gone(f) /\ upset \subseteq upset'
        /\ UNCHANGED <<surface, twins, copy, saves, boot>>
    BY <1>15 DEF LeavesAgain, onDisk
  <2> HIDE DEF f
  <2> QED
    BY <2>1, GoneKeeps DEF Held
<1>16. CASE AllStarted
  <2>1. Rest /\ boot'.at = "up"
    BY <1>16 DEF AllStarted, onDisk, inHub, SFTypeOK
  <2> QED
    BY <1>7, <2>1 DEF Held
<1>17. CASE Stops
  <2>1. Rest /\ boot'.at = "stopping"
    BY <1>17 DEF Stops, onDisk, inHub, SFTypeOK
  <2> QED
    BY <1>7, <2>1 DEF Held
<1>18. ASSUME NEW f \in Folder, Leaves(f) PROVE Held'
  <2>1. /\ boot.at = "stopping" /\ f \in holders /\ Gone(f) /\ upset \subseteq upset'
        /\ UNCHANGED <<surface, twins, copy, saves, boot>>
    BY <1>18 DEF Leaves, onDisk
  <2> QED
    BY <2>1, GoneKeeps DEF Held
<1>19. ASSUME holders' = {}, listed' = {}, refs' = 0, server' = NoServer, boot'.at = "down",
              UNCHANGED <<copy, saves>>
       PROVE  Held'
  BY <1>0, <1>19 DEF Held, ServedWhileNeeded
<1>20. CASE GoesDown
  <2>1. boot'.at = "down"
    BY <1>20 DEF GoesDown, SFTypeOK
  <2> QED
    BY <1>19, <1>20, <2>1 DEF GoesDown, onDisk
<1>21. CASE Killed
  <2>1. boot'.at = "down"
    BY <1>21 DEF Killed, SFTypeOK
  <2> QED
    BY <1>19, <1>21, <2>1 DEF Killed, onDisk
<1> QED
  BY <1>1, <1>2, <1>3, <1>4, <1>5, <1>6, <1>8, <1>10, <1>11, <1>12, <1>13, <1>14, <1>15, <1>16, <1>17,
     <1>18, <1>20, <1>21 DEF SFStep

----------------------------------------------------------------------------
(* The token.                                                              *)

LEMMA AgreedStep ==
  ASSUME SFTypeOK, Held, OneToken, SFStep, upset' = {}
  PROVE  Agreed'
<1>0. /\ NoServer.is = "none" /\ NotAsking.at = "idle" /\ [NotAsking EXCEPT !.at = "done"].at = "done"
      /\ file \in [Folder -> Slice] /\ MaxFolder \in Nat
      /\ DOMAIN asks = Commander /\ {"runtime", "dashboard"} = Commander
  BY SurfacesAssumption DEF NoServer, NotAsking, SFTypeOK, Commander
<1>1. file' = file => Maker' = Maker /\ Pinned' = Pinned
  BY DEF Maker, Pinned
<1>0a. UNCHANGED boot => Bare' = Bare
  BY DEF Bare
<1> DEFINE Rest == upset = {} /\ UNCHANGED file
<1>2. ASSUME NEW c \in Commander, Looks(c) PROVE Agreed'
  <2> DEFINE needs == Maker # NoFolder /\ file[Maker].token = NoToken
  <2>1. /\ Rest /\ asks[c].at = "idle"
        /\ asks' = [asks EXCEPT ![c] =
             IF needs THEN [at |-> "looked", folder |-> Maker, seen |-> file[Maker]]
             ELSE [NotAsking EXCEPT !.at = "done"]]
        /\ IF needs THEN UNCHANGED framed
           ELSE Serves(c, IF Maker = NoFolder THEN NoToken ELSE file[Maker].token)
        /\ UNCHANGED <<boot, server>>
    BY <1>2 DEF Looks, Maker, onDisk, inHub
  <2>2. Agreed
    BY <2>1 DEF OneToken
  <2>3. asks'["runtime"].at = "done" \/ (boot'.at # "down" /\ ~Bare') \/ boot'.again => Pinned'
    <3>1. CASE c = "runtime" /\ ~needs
      BY <1>1, <2>1, <3>1 DEF Pinned
    <3>2. CASE c = "runtime" /\ needs
      BY <1>0, <1>0a, <1>1, <2>1, <2>2, <3>2 DEF Agreed
    <3>3. CASE c # "runtime"
      BY <1>0, <1>0a, <1>1, <2>1, <2>2, <3>3 DEF Agreed
    <3> QED
      BY <3>1, <3>2, <3>3
  <2>4. framed' # NoToken => Maker' # NoFolder /\ framed' = file'[Maker'].token
    <3>1. framed' = framed \/ framed' = NoToken \/ (Maker # NoFolder /\ framed' = file[Maker].token)
      BY <2>1 DEF Serves
    <3> QED
      BY <1>1, <2>1, <2>2, <3>1 DEF Agreed
  <2>5. ASSUME NEW d \in Commander, asks'[d].at = "looked"
        PROVE  asks'[d].folder = Maker' /\ Maker' # NoFolder /\ asks'[d].seen.has /\ asks'[d].seen.token = NoToken
    <3>1. CASE d = c
      BY <1>0, <1>1, <2>1, <2>5, <3>1, MakerIs
    <3>2. CASE d # c
      BY <1>0, <1>1, <2>1, <2>2, <2>5, <3>2 DEF Agreed
    <3> QED
      BY <3>1, <3>2
  <2>6. boot'.at \in {"starting", "joining"} =>
          /\ \A f \in Folder : boot'.read[f].has = file'[f].has
          /\ Maker' # NoFolder /\ ~Bare' => boot'.read[Maker'].token = file'[Maker'].token
    BY <1>0a, <1>1, <2>1, <2>2 DEF Agreed
  <2>7. /\ boot'.at = "starting" /\ server'.is = "none" /\ Maker' # NoFolder => boot'.next <= Maker'
        /\ server'.is # "none" => Maker' # NoFolder /\ (Bare' \/ server'.token = file'[Maker'].token)
    BY <1>0a, <1>1, <2>1, <2>2 DEF Agreed
  <2> QED
    BY <2>3, <2>4, <2>5, <2>6, <2>7 DEF Agreed
<1>3. ASSUME NEW c \in Commander, Pins(c) PROVE Agreed'
  <2>1. /\ asks[c].at = "looked" /\ minted' = minted + 1 /\ upset = {}
        /\ file[asks[c].folder] = asks[c].seen
        /\ file' = [file EXCEPT ![asks[c].folder] = [asks[c].seen EXCEPT !.token = minted']]
        /\ asks' = [asks EXCEPT ![c] = [NotAsking EXCEPT !.at = "done"]]
        /\ framed' = IF c = "dashboard" THEN minted' ELSE framed
        /\ UNCHANGED <<boot, server>>
    BY <1>3 DEF Pins, Serves, inHub
  <2>2. Agreed /\ minted' # NoToken
    BY <2>1 DEF OneToken, SFTypeOK, NoToken
  <2>3. /\ asks[c].folder = Maker /\ Maker \in Folder /\ file[Maker].has /\ file[Maker].token = NoToken
        /\ file' = [file EXCEPT ![Maker] = [file[Maker] EXCEPT !.token = minted']]
    BY <2>1, <2>2, MakerIs, ZenonT(60) DEF Agreed
  <2>4. /\ file'[Maker].token = minted' /\ \A f \in Folder : file'[f].has = file[f].has
    BY <1>0, <2>3 DEF Slice
  <2>5. Maker' = Maker
    BY <2>4, MakerStays
  <2>6. Pinned' /\ Maker # NoFolder
    BY <2>1, <2>2, <2>4, <2>5 DEF Pinned, Agreed
  <2>7. ((boot.at = "down" /\ server.is = "none") \/ Bare) /\ ~boot.again
    <3>1. ~Pinned
      BY <2>3, <2>6 DEF Pinned
    <3>2. (boot.at = "down" \/ Bare) /\ ~boot.again
      BY <2>2, <3>1 DEF Agreed
    <3> QED
      BY <1>0, <3>2 DEF Held
  <2>8. framed' # NoToken => framed' = file'[Maker].token
    BY <2>1, <2>2, <2>3, <2>4 DEF Agreed
  <2>9. ASSUME NEW d \in Commander, asks'[d].at = "looked"
        PROVE  asks'[d].folder = Maker /\ asks'[d].seen.has /\ asks'[d].seen.token = NoToken
    <3>1. d # c /\ asks'[d] = asks[d]
      BY <1>0, <2>1, <2>9
    <3> QED
      BY <2>2, <2>9, <3>1 DEF Agreed
  <2>10. boot' = boot /\ server' = server /\ Bare' = Bare
    BY <1>0a, <2>1
  <2>11. boot'.at \in {"starting", "joining"} => \A f \in Folder : boot'.read[f].has = file'[f].has
    BY <2>2, <2>4, <2>10 DEF Agreed
  <2>12. boot'.at = "starting" /\ server'.is = "none" /\ Maker' # NoFolder => boot'.next <= Maker'
    BY <2>2, <2>5, <2>10 DEF Agreed
  <2>13. /\ boot'.at \in {"starting", "joining"} => Bare'
         /\ server'.is # "none" => Bare'
    BY <2>7, <2>10
  <2> QED
    BY <2>5, <2>6, <2>8, <2>9, <2>11, <2>12, <2>13 DEF Agreed
<1>4. ASSUME NEW c \in Commander, PinFails(c) PROVE FALSE
  BY <1>4 DEF PinFails
<1>5. CASE OpensAgain
  <2>1. /\ Rest /\ framed' = NoToken /\ asks' = [asks EXCEPT !["dashboard"] = NotAsking]
        /\ UNCHANGED <<boot, server>>
    BY <1>5 DEF OpensAgain, onDisk, inHub
  <2>2. Agreed
    BY <2>1 DEF OneToken
  <2>3. /\ asks'["runtime"] = asks["runtime"]
        /\ \A c \in Commander : asks'[c].at = "looked" => asks'[c] = asks[c]
    BY <1>0, <2>1
  <2> QED
    BY <1>0a, <1>1, <2>1, <2>2, <2>3 DEF Agreed
(* Where the commands and the files rest, the runtime's own steps remain.   *)
<1>6. ASSUME Rest, UNCHANGED <<asks, framed, boot, server>> PROVE Agreed'
  BY <1>0a, <1>1, <1>6 DEF OneToken, Agreed
<1>7. ASSUME NEW f \in Folder, EditorReads(f) PROVE Agreed'
  BY <1>6, <1>7 DEF EditorReads, inCommands, inHub
<1>8. ASSUME NEW has \in BOOLEAN, EditorSaves(has) PROVE Agreed'
  BY <1>6, <1>8 DEF EditorSaves, inCommands, inHub
<1>9. CASE ComesUp
  <2>1. /\ Rest /\ boot.at = "down" /\ (asks["runtime"].at = "done" \/ boot.again)
        /\ boot' = [at |-> "starting", read |-> file, next |-> 1, again |-> FALSE, by |-> "command"]
        /\ asks' = [asks EXCEPT !["runtime"] = NotAsking] /\ UNCHANGED <<framed, server>>
    BY <1>9 DEF ComesUp, BootsBy, onDisk, inHub
  <2>2. Agreed
    BY <2>1 DEF OneToken
  <2>3. /\ boot'.at = "starting" /\ boot'.read = file /\ boot'.next = 1
    BY <2>1
  <2>4. \A c \in Commander : asks'[c].at = "looked" => asks'[c] = asks[c]
    BY <1>0, <2>1
  <2>5. Pinned' /\ server'.is = "none"
    BY <1>0, <1>1, <2>1, <2>2 DEF Agreed, Held
  <2>6. Maker # NoFolder => 1 <= Maker
    BY <1>0, MakerIs DEF Folder
  <2> QED
    BY <1>1, <2>1, <2>2, <2>3, <2>4, <2>5, <2>6 DEF Agreed
<1>9a. CASE StartsByHand
  <2> DEFINE who == IF Maker # NoFolder /\ file[Maker].token = NoToken THEN "bare" ELSE "hand"
  <2>1. /\ Rest /\ boot.at = "down" /\ ~boot.again
        /\ boot' = [at |-> "starting", read |-> file, next |-> 1, again |-> FALSE, by |-> who]
        /\ UNCHANGED <<asks, framed, server>>
    BY <1>9a DEF StartsByHand, BootsBy, Maker, onDisk, inCommands, inHub
  <2>2. Agreed
    BY <2>1 DEF OneToken
  <2>3. /\ boot'.at = "starting" /\ boot'.read = file /\ boot'.next = 1 /\ boot'.again = FALSE
        /\ boot'.by = who
    BY <2>1
  <2>4. ~Bare' => Pinned
    BY <2>3 DEF Bare, Pinned
  <2>5. server'.is = "none"
    BY <1>0, <2>1 DEF Held
  <2>6. Maker # NoFolder => 1 <= Maker
    BY <1>0, MakerIs DEF Folder
  <2> HIDE DEF who
  <2> QED
    BY <1>1, <2>1, <2>2, <2>3, <2>4, <2>5, <2>6 DEF Agreed
<1>10. ASSUME GoesOn
       PROVE  /\ boot'.at = "starting" /\ boot'.next = boot.next + 1 /\ boot'.read = boot.read
              /\ boot'.again = boot.again /\ Bare' = Bare
  BY <1>10 DEF GoesOn, SFTypeOK, Bare
<1>11. CASE PassesBy
  <2>1. Rest /\ boot.at = "starting" /\ boot.next \in Folder /\ GoesOn /\ ~boot.read[boot.next].has
        /\ UNCHANGED <<asks, framed, server>>
    BY <1>11 DEF PassesBy, onDisk, inCommands, inHub
  <2>2. Agreed
    BY <2>1 DEF OneToken
  <2>3. ASSUME boot.next = Maker PROVE FALSE
    <3>1. Maker # NoFolder
      BY <1>0, <2>1, <2>3 DEF Folder, NoFolder
    <3>2. file[boot.next].has
      BY <2>3, <3>1, MakerIs
    <3> QED
      BY <2>1, <2>2, <3>2 DEF Agreed
  <2>4. /\ boot'.at = "starting" /\ boot'.next = boot.next + 1 /\ boot'.read = boot.read
        /\ boot'.again = boot.again /\ Bare' = Bare
    BY <1>10, <2>1
  <2>5. server.is = "none" /\ Maker # NoFolder => boot.next + 1 <= Maker
    <3>1. Maker \in Nat /\ boot.next \in Nat
      BY <1>0, <2>1, MakerIs DEF Folder
    <3>2. server.is = "none" /\ Maker # NoFolder => boot.next <= Maker
      BY <2>1, <2>2 DEF Agreed
    <3> QED
      BY <2>3, <3>1, <3>2
  <2> QED
    BY <1>1, <2>1, <2>2, <2>4, <2>5 DEF Agreed
<1>12. CASE Joins
  <2> DEFINE f == boot.next
  <2>1. /\ Rest /\ boot.at = "starting" /\ f \in Folder /\ boot.read[f].has
        /\ IF server.is = "none" THEN boot' = [boot EXCEPT !.at = "joining"] ELSE GoesOn
        /\ UNCHANGED <<asks, framed>>
    BY <1>12 DEF Joins, inCommands
  <2>2. PICK own \in TokensFor(f) :
          server' = [is |-> IF server.is = "none" THEN "binding" ELSE server.is, token |-> TokenOf(own)]
    BY <1>12 DEF Joins
  <2>3. Agreed
    BY <2>1 DEF OneToken
  <2>4. Maker # NoFolder /\ Maker <= f /\ Maker \in Folder /\ (Bare \/ file[Maker].token # NoToken)
    BY <2>1, <2>3, MakerIs DEF Agreed, Pinned
  <2>5. /\ boot'.at \in {"starting", "joining"} /\ boot'.read = boot.read
        /\ boot'.again = boot.again /\ Bare' = Bare
    BY <1>10, <2>1 DEF SFTypeOK, Bare
  <2>6. server'.is # "none" /\ (Bare \/ server'.token = file[Maker].token)
    <3>0. CASE Bare
      BY <2>2, <3>0
    <3>1. CASE server.is = "none" /\ ~Bare
      <4>1. f <= Maker
        BY <2>1, <2>3, <2>4, <3>1 DEF Agreed
      <4>2. f = Maker
        BY <1>0, <2>1, <2>4, <4>1 DEF Folder
      <4>3. own = file[Maker].token
        BY <2>1, <2>2, <2>3, <2>4, <3>1, <4>2 DEF Agreed, TokensFor
      <4> QED
        BY <2>2, <3>1, <4>3 DEF TokenOf
    <3>2. CASE server.is # "none" /\ ~Bare
      BY <2>2, <2>3, <3>2 DEF Agreed, TokenOf
    <3> QED
      BY <3>0, <3>1, <3>2
  <2>7. Bare \/ Pinned
    BY <2>1, <2>3 DEF Agreed
  <2> QED
    BY <1>1, <2>1, <2>3, <2>4, <2>5, <2>6, <2>7 DEF Agreed
<1>13. CASE Bound
  <2>1. /\ Rest /\ boot.at = "joining" /\ GoesOn /\ server' = [server EXCEPT !.is = "bound"]
        /\ UNCHANGED <<asks, framed>>
    BY <1>13 DEF Bound, onDisk, inCommands
  <2>2. Agreed
    BY <2>1 DEF OneToken
  <2>3. server.is = "binding"
    BY <2>1 DEF Held
  <2>4. server'.is = "bound" /\ server'.token = server.token
    BY <2>1 DEF SFTypeOK
  <2>5. boot'.at = "starting" /\ boot'.read = boot.read /\ boot'.again = boot.again /\ Bare' = Bare
    BY <1>10, <2>1
  <2> QED
    BY <1>1, <2>1, <2>2, <2>3, <2>4, <2>5 DEF Agreed
<1>14. BindFails \/ JoinsInVain \/ LeavesAgain => FALSE
  BY DEF BindFails, JoinsInVain, LeavesAgain
<1>15. ASSUME Rest, UNCHANGED <<asks, framed>>, boot.at # "down", boot'.at \notin {"starting", "joining"},
              (server' = server /\ Bare' = Bare) \/ (server' = NoServer /\ (boot'.at = "down" \/ Bare' = Bare)),
              boot'.again => boot.again \/ ~Bare
       PROVE  Agreed'
  <2>1. Agreed
    BY <1>15 DEF OneToken
  <2>2. (server'.is # "none" => server' = server /\ Bare' = Bare) /\ (boot'.at # "down" => Bare' = Bare)
    BY <1>0, <1>15
  <2> QED
    BY <1>1, <1>15, <2>1, <2>2 DEF Agreed
<1>16. CASE AllStarted
  <2>1. boot'.at = "up" /\ Bare' = Bare /\ boot'.again = boot.again
    BY <1>16 DEF AllStarted, SFTypeOK, Bare
  <2> QED
    BY <1>15, <1>16, <2>1 DEF AllStarted, onDisk, inCommands, inHub
<1>17. CASE Stops
  <2>1. boot'.at = "stopping" /\ Bare' = Bare /\ (boot'.again => ~Bare)
    BY <1>17 DEF Stops, SFTypeOK, Bare
  <2> QED
    BY <1>15, <1>17, <2>1 DEF Stops, onDisk, inCommands, inHub
<1>18. ASSUME NEW f \in Folder, Leaves(f) PROVE Agreed'
  <2>1. (server' = server \/ server' = NoServer) /\ Bare' = Bare
    BY <1>0a, <1>18 DEF Leaves, Gone
  <2> QED
    BY <1>15, <1>18, <2>1 DEF Leaves, onDisk, inCommands
<1>19. CASE GoesDown
  <2>1. boot'.at = "down" /\ boot'.again = boot.again
    BY <1>19 DEF GoesDown, SFTypeOK
  <2> QED
    BY <1>15, <1>19, <2>1 DEF GoesDown, onDisk, inCommands
<1>20. CASE Killed
  <2>1. boot'.at = "down" /\ boot'.again = FALSE
    BY <1>20 DEF Killed, SFTypeOK
  <2> QED
    BY <1>15, <1>20, <2>1 DEF Killed, onDisk, inCommands
<1> QED
  BY <1>2, <1>3, <1>4, <1>5, <1>7, <1>8, <1>9, <1>9a, <1>11, <1>12, <1>13, <1>14, <1>16, <1>17, <1>18,
     <1>19, <1>20
  DEF SFStep

LEMMA SurfacesInit == SFInit => SFInv
<1> SUFFICES ASSUME SFInit PROVE SFInv
  OBVIOUS
<1>0. /\ {MaxFolder, MaxToken, MaxBoots, MaxSaves} \subseteq Nat
      /\ NoToken \in 0..MaxToken /\ NoFolder \in 0..MaxFolder /\ NoSlice \in Slice
      /\ Cardinality({}) = 0
  <2>1. /\ {MaxFolder, MaxToken, MaxBoots, MaxSaves} \subseteq Nat
        /\ NoToken \in 0..MaxToken /\ NoFolder \in 0..MaxFolder
    BY SurfacesAssumption DEF NoToken, NoFolder
  <2>2. NoSlice \in Slice
    BY <2>1 DEF NoSlice, Slice
  <2> QED
    BY <2>1, <2>2, FS_EmptySet
<1>1. /\ surface \in {"chat", "inspector"} /\ twins \in BOOLEAN
      /\ file \in [Folder -> [has : BOOLEAN, token : {NoToken}]]
      /\ minted = 0 /\ framed = NoToken /\ asks = [c \in Commander |-> NotAsking]
      /\ copy = NoCopy /\ saves = 0
      /\ boot = [at |-> "down", read |-> Unread, next |-> 1, again |-> FALSE, by |-> "command"]
      /\ boots = 0
      /\ holders = {} /\ listed = {} /\ refs = 0 /\ server = NoServer /\ upset = {}
  BY DEF SFInit
<1>2. file \in [Folder -> Slice]
  BY <1>0, <1>1 DEF Slice
<1>3. minted \in 0..MaxToken /\ saves \in 0..MaxSaves /\ boots \in 0..MaxBoots /\ 1 \in 1..(MaxFolder + 1)
  BY <1>0, <1>1
<1>4. boot \in [at : {"down", "starting", "joining", "up", "stopping"}, read : [Folder -> Slice],
               next : 1..(MaxFolder + 1), again : BOOLEAN, by : {"command", "hand", "bare"}]
  BY <1>0, <1>1, <1>3 DEF Unread
<1>5. SFTypeOK
  <2>1. asks \in [Commander -> [at : {"idle", "looked", "done"}, folder : 0..MaxFolder, seen : Slice]]
    BY <1>0, <1>1 DEF NotAsking
  <2> QED
    BY <1>0, <1>1, <1>2, <1>3, <1>4, <2>1 DEF SFTypeOK, NoCopy, NoServer
<1>6. Held
  BY <1>0, <1>1 DEF Held, ServedWhileNeeded, NoCopy, NoFolder, NoServer
<1>7. OneToken
  BY <1>1 DEF OneToken, Agreed, NotAsking, NoServer, Commander
<1> QED
  BY <1>5, <1>6, <1>7 DEF SFInv

LEMMA SurfacesStep == SFInv /\ [SFNext]_svars => SFInv'
<1> SUFFICES ASSUME SFInv, [SFNext]_svars PROVE SFInv'
  OBVIOUS
<1>1. CASE SFStep
  BY <1>1, SurfaceTypes, HeldStep, AgreedStep DEF SFInv, OneToken
<1>2. CASE UNCHANGED svars
  <2>1. UNCHANGED <<surface, twins, file, minted, asks, framed, copy, saves, boot, boots, holders, listed, refs, server, upset>>
    BY <1>2 DEF svars
  <2>2. SFTypeOK'
    BY <2>1 DEF SFInv, SFTypeOK
  <2>3. Held'
    BY <2>1, HeldBeside DEF SFInv, Held
  <2>4. OneToken'
    BY <2>1 DEF SFInv, OneToken, Agreed, Maker, Pinned, Bare
  <2> QED
    BY <2>2, <2>3, <2>4 DEF SFInv
<1> QED
  BY <1>1, <1>2 DEF SFNext

(* The inductive invariant of the surfaces.                                *)
THEOREM SurfacesInvariant == SFInit /\ [][SFNext]_svars => []SFInv
BY SurfacesInit, SurfacesStep, PTL

LEMMA SurfacesHold == SFInv => FramedIsServed /\ ServedWhileNeeded /\ ListedAreThere
<1> SUFFICES ASSUME SFInv PROVE FramedIsServed /\ ListedAreThere
  BY DEF SFInv, Held
<1>1. FramedIsServed
  BY DEF SFInv, OneToken, Agreed, FramedIsServed, Bare
<1>2. ListedAreThere
  <2>1. ~twins => \A f : Ident(f) = f
    BY DEF Ident
  <2> QED
    BY <2>1, ZenonT(60) DEF SFInv, Held, ListedAreThere
<1> QED
  BY <1>1, <1>2

----------------------------------------------------------------------------
(* The tabs.                                                               *)

LEMMA TabsStart == TabsInit => TInv
<1> SUFFICES ASSUME TabsInit PROVE TInv
  OBVIOUS
<1>1. PICK n \in 1..MaxTab, first \in 1..MaxTab : first <= n /\ tabs = [made |-> n, open |-> first..n]
  BY DEF TabsInit
<1>2. PICK made_ \in 0..MaxUse : use = [u \in Use |-> IF u <= made_ THEN [Unused EXCEPT !.at = "failed"] ELSE Unused]
  BY DEF TabsInit
<1>3. /\ shows = [t \in Tab |-> [is |-> 0, complete |-> TRUE]] /\ pages \in 0..MaxPage
      /\ active = NoTab /\ attached = {} /\ meant = NoTab /\ overruled = FALSE
  BY DEF TabsInit
<1>4. {MaxUse, MaxTab, MaxPage} \subseteq Nat /\ NoTab = 0
  BY TabsAssumption DEF NoTab
<1>5. Unused \in UseType /\ [Unused EXCEPT !.at = "failed"] \in UseType
  <2>1. NoTab \in 0..MaxTab /\ 0 \in 0..MaxPage /\ <<>> \in Seq(0..MaxPage)
    BY <1>4
  <2> QED
    BY <2>1 DEF Unused, UseType
<1>6. /\ tabs \in [made : 0..MaxTab, open : SUBSET Tab] /\ tabs.open \subseteq 1..tabs.made /\ tabs.made \in Nat
  BY <1>1, <1>4 DEF Tab
<1>7. \A u \in Use : use[u].targets = {} /\ use[u].own = 0 /\ use[u].got = <<>> /\ use[u].at \in {"idle", "failed"}
  BY <1>2 DEF Unused
<1>8. TabsTyped
  <2>1. use \in [Use -> UseType]
    BY <1>2, <1>5
  <2>2. active \in 0..MaxTab /\ meant \in 0..tabs.made /\ shows \in [Tab -> [is : 0..MaxPage, complete : BOOLEAN]]
    BY <1>3, <1>4, <1>6
  <2>3. \A u \in Use : use[u].targets \subseteq 1..tabs.made /\ use[u].own <= pages
    BY <1>3, <1>4, <1>7
  <2> QED
    BY <1>3, <1>6, <2>1, <2>2, <2>3 DEF TabsTyped
<1>9. ActiveIsMeant
  BY <1>3, <1>7 DEF ActiveIsMeant, HoldsTo, Working
<1>10. OnePageEach
  BY <1>7 DEF OnePageEach, OfOnePage, Working
<1> QED
  BY <1>8, <1>9, <1>10 DEF TInv

(* A step of one call, that leaves the pages where they are.               *)
LEMMA OneCall ==
  ASSUME TInv, NEW u \in Use, UNCHANGED <<shows, pages>>,
         \A v \in Use \ {u} : use'[v] = use[v],
         use'[u] \in UseType, use' \in [Use -> UseType], use'[u].targets \subseteq 1..tabs.made, use'[u].own <= pages,
         OfOnePage(use'[u], shows),
         tabs' \in [made : 0..MaxTab, open : SUBSET Tab], tabs'.open \subseteq 1..tabs'.made, tabs.made <= tabs'.made,
         active' \in 0..MaxTab, attached' \subseteq Tab, meant' \in 0..tabs'.made, overruled' \in BOOLEAN,
         ~overruled' => ~overruled /\ HoldsTo(use'[u]) /\ (meant' \in tabs'.open => active' = meant')
  PROVE  TInv'
<1>1. tabs.made \in Nat /\ tabs'.made \in Nat
  BY TabsAssumption DEF TInv, TabsTyped
<1>2. \A v \in Use : use'[v].targets \subseteq 1..tabs'.made /\ use'[v].own <= pages'
  <2>1. 1..tabs.made \subseteq 1..tabs'.made
    BY <1>1
  <2> QED
    BY <2>1 DEF TInv, TabsTyped
<1>3. TabsTyped'
  BY <1>2 DEF TInv, TabsTyped
<1>4. OnePageEach'
  BY DEF TInv, OnePageEach
<1>5. ActiveIsMeant'
  BY DEF TInv, ActiveIsMeant
<1> QED
  BY <1>3, <1>4, <1>5 DEF TInv

(* A page is left for another: no call that goes on unmoved was at work on  *)
(* it.                                                                     *)
LEMMA MovedOn ==
  ASSUME TInv, NEW t \in Tab, Moves(t), NEW v \in Use,
         NEW c, c = [use[v] EXCEPT !.moved = @ \/ v \in WorkingOn(t)]
  PROVE  /\ c \in UseType /\ OfOnePage(c, shows') /\ (HoldsTo(use[v]) => HoldsTo(c))
         /\ c.targets = use[v].targets /\ c.own = use[v].own
<1>1. use[v] \in UseType /\ OfOnePage(use[v], shows) /\ use[v].own <= pages /\ use[v].own \in Nat /\ pages \in Nat
  BY TabsAssumption DEF TInv, TabsTyped, OnePageEach, UseType
<1>2. /\ c.tool = use[v].tool /\ c.at = use[v].at /\ c.tab = use[v].tab /\ c.targets = use[v].targets
      /\ c.own = use[v].own /\ c.got = use[v].got /\ c.late = use[v].late /\ c.told = use[v].told
      /\ c.moved = (use[v].moved \/ v \in WorkingOn(t)) /\ c \in UseType
  BY <1>1 DEF UseType
<1>3. /\ shows'[t].is = pages + 1 /\ \A r \in Tab \ {t} : shows'[r] = shows[r]
  BY DEF Moves, TInv, TabsTyped
<1>4. c.tool \in Tool \cup {"none"}
  BY <1>2 DEF UseType
<1>5. ASSUME ~c.moved, c.at \in {"poll", "asking"}
      PROVE  shows'[c.tab] = shows[c.tab]
  <2>1. c.tab \in Tab
    BY <1>1, <1>2, <1>5 DEF OfOnePage, Working
  <2>2. c.tab # t
    BY <1>2, <1>5 DEF WorkingOn
  <2> QED
    BY <1>3, <2>1, <2>2
<1>6. ASSUME ~c.moved, c.at = "done", c.tool # "activate", shows'[c.tab].is = c.own
      PROVE  shows'[c.tab] = shows[c.tab]
  <2>1. c.tab \in Tab
    BY <1>1, <1>2, <1>6 DEF OfOnePage, Working
  <2>2. c.tab # t
    BY <1>1, <1>2, <1>3, <1>6
  <2> QED
    BY <1>3, <2>1, <2>2
<1>7. ~c.moved => ~use[v].moved
  BY <1>2
<1>8. ASSUME ~c.moved, c.at \in {"poll", "asking"}
      PROVE  /\ \A i \in 1..Len(c.got) : c.got[i] = shows'[c.tab].is
             /\ c.tool = "navigate" => shows'[c.tab].is = c.own
             /\ c.at = "asking" /\ c.tool = "navigate" => c.late \/ shows'[c.tab].complete
  BY <1>1, <1>2, <1>5, <1>7, <1>8 DEF OfOnePage
<1>9. ASSUME ~c.moved, c.at = "done", c.tool # "activate"
      PROVE  /\ Len(c.got) > 0 /\ \A i \in 1..Len(c.got) : c.got[i] = c.got[1]
             /\ c.tool = "navigate" =>
                  c.got[1] = c.own /\ (shows'[c.tab].is = c.own => c.late \/ shows'[c.tab].complete)
  BY <1>1, <1>2, <1>6, <1>7, <1>9 DEF OfOnePage
<1>10. OfOnePage(c, shows')
  BY <1>1, <1>2, <1>8, <1>9 DEF OfOnePage
<1>11. HoldsTo(use[v]) => HoldsTo(c)
  BY <1>2 DEF HoldsTo
<1> QED
  BY <1>2, <1>10, <1>11

LEMMA TabsStep == TInv /\ [TabsNext]_tvars => TInv'
<1> SUFFICES ASSUME TInv, [TabsNext]_tvars PROVE TInv'
  OBVIOUS
<1>0. /\ {MaxUse, MaxTab, MaxPage} \subseteq Nat /\ NoTab = 0 /\ NoTab \in 0..MaxTab
      /\ 0 \in 0..MaxPage /\ <<>> \in Seq(0..MaxPage) /\ Tab \subseteq 0..MaxTab /\ NoTab \notin Tab
  BY TabsAssumption DEF NoTab, Tab
<1>1. /\ tabs \in [made : 0..MaxTab, open : SUBSET Tab] /\ tabs.open \subseteq 1..tabs.made /\ tabs.made \in Nat
      /\ shows \in [Tab -> [is : 0..MaxPage, complete : BOOLEAN]] /\ pages \in 0..MaxPage /\ pages \in Nat
      /\ active \in 0..MaxTab /\ attached \subseteq Tab
      /\ use \in [Use -> UseType]
      /\ meant \in 0..tabs.made /\ meant \in 0..MaxTab /\ overruled \in BOOLEAN
      /\ \A u \in Use : use[u].targets \subseteq 1..tabs.made /\ use[u].own <= pages
  BY <1>0 DEF TInv, TabsTyped
<1>2. \A u \in Use : OfOnePage(use[u], shows) /\ use[u] \in UseType
  BY <1>1 DEF TInv, OnePageEach
<1>3. ~overruled => (meant \in tabs.open => active = meant) /\ \A u \in Use : HoldsTo(use[u])
  BY DEF TInv, ActiveIsMeant
<1>4. ASSUME NEW u \in Use, NEW tool \in Tool, Asks(u, tool) PROVE TInv'
  <2> DEFINE c == [Unused EXCEPT !.tool = tool, !.at = "listing", !.told = meant]
  <2>1. use' = [use EXCEPT ![u] = c] /\ UNCHANGED <<tabs, shows, pages, active, attached, meant, overruled>>
    BY <1>4 DEF Asks
  <2>2. /\ c \in UseType /\ c.targets = {} /\ c.own = 0 /\ c.at = "listing" /\ c.got = <<>>
    BY <1>0, <1>1 DEF Unused, UseType
  <2> HIDE DEF c
  <2>3. OfOnePage(c, shows) /\ HoldsTo(c)
    BY <2>2 DEF OfOnePage, HoldsTo, Working
  <2>4. use'[u] = c /\ use' \in [Use -> UseType] /\ \A v \in Use \ {u} : use'[v] = use[v]
    BY <1>1, <2>1, <2>2
  <2>5. use'[u].own <= pages /\ tabs.made <= tabs'.made
    BY <1>1, <2>1, <2>2, <2>4
  <2> QED
    BY <1>1, <1>3, <2>1, <2>2, <2>3, <2>4, <2>5, OneCall
<1>5. ASSUME NEW u \in Use, Lists(u) PROVE TInv'
  <2>1. /\ use' = [use EXCEPT ![u].at = "listed", ![u].targets = tabs.open] /\ use[u].at = "listing"
        /\ UNCHANGED <<tabs, shows, pages, active, attached, meant, overruled>>
    BY <1>5 DEF Lists
  <2>2. /\ use' \in [Use -> UseType] /\ \A v \in Use \ {u} : use'[v] = use[v]
        /\ use'[u].targets = tabs.open /\ use'[u].own = use[u].own /\ use'[u].at = "listed"
        /\ use'[u].got = use[u].got
    <3> DEFINE d == [use[u] EXCEPT !.at = "listed", !.targets = tabs.open]
    <3>1. use[u] \in UseType /\ use' = [use EXCEPT ![u] = d]
      BY <1>1, <2>1
    <3>2. d \in UseType /\ d.targets = tabs.open /\ d.own = use[u].own /\ d.at = "listed" /\ d.got = use[u].got
      BY <3>1, <1>1 DEF UseType
    <3> HIDE DEF d
    <3>3. use' \in [Use -> UseType] /\ use'[u] = d /\ \A v \in Use \ {u} : use'[v] = use[v]
      BY <1>1, <3>1, <3>2
    <3> QED
      BY <3>2, <3>3
  <2>3. OfOnePage(use'[u], shows) /\ HoldsTo(use'[u])
    BY <1>2, <2>1, <2>2 DEF OfOnePage, HoldsTo, Working
  <2>4. use'[u].own <= pages /\ tabs.made <= tabs'.made
    BY <1>1, <2>1, <2>2
  <2> QED
    BY <1>1, <1>3, <2>1, <2>2, <2>3, <2>4, OneCall
<1>6. ASSUME NEW u \in Use, Picks(u) PROVE TInv'
  <2>1. /\ use[u].at = "listed" /\ use[u].tool # "activate"
        /\ overruled' = (overruled \/ (meant \in tabs.open /\ meant \notin use[u].targets))
        /\ UNCHANGED <<tabs, shows, pages, attached, meant>>
    BY <1>6 DEF Picks
  <2>2. tabs.made <= tabs'.made /\ use[u].own <= pages /\ use[u].got = <<>>
    BY <1>1, <1>2, <2>1 DEF OfOnePage
  <2>3. CASE use[u].targets = {}
    <3>1. use' = [use EXCEPT ![u].at = "making"] /\ active' = active
      BY <1>6, <2>3 DEF Picks, Goes
    <3>2. /\ use' \in [Use -> UseType] /\ \A v \in Use \ {u} : use'[v] = use[v]
          /\ use'[u].targets = use[u].targets /\ use'[u].own = use[u].own /\ use'[u].at = "making"
          /\ use'[u].got = use[u].got /\ use'[u].tool = use[u].tool
      <4> DEFINE d == [use[u] EXCEPT !.at = "making"]
      <4>1. use[u] \in UseType /\ use' = [use EXCEPT ![u] = d]
        BY <1>1, <3>1
      <4>2. d \in UseType /\ d.targets = use[u].targets /\ d.own = use[u].own /\ d.at = "making" /\ d.got = use[u].got /\ d.tool = use[u].tool
        BY <4>1, <1>1 DEF UseType
      <4> HIDE DEF d
      <4>3. use' \in [Use -> UseType] /\ use'[u] = d /\ \A v \in Use \ {u} : use'[v] = use[v]
        BY <1>1, <4>1, <4>2
      <4> QED
        BY <4>2, <4>3
    <3>3. OfOnePage(use'[u], shows) /\ HoldsTo(use'[u])
      BY <2>1, <2>2, <3>2 DEF OfOnePage, HoldsTo, Working
    <3> QED
      BY <1>1, <1>3, <2>1, <2>2, <3>1, <3>2, <3>3, OneCall
  <2>4. CASE use[u].targets # {}
    <3>1. PICK r \in Chosen(use[u].targets) :
            /\ active' = r
            /\ use' = [use EXCEPT ![u].at = "attach", ![u].tab = r,
                                  ![u].told = IF @ = meant /\ ~Shut(@) THEN @ ELSE NoTab]
      BY <1>6, <2>4 DEF Picks
    <3>2. r \in use[u].targets /\ r \in Tab
      <4>1. use[u].targets \subseteq Tab
        BY <1>1 DEF UseType
      <4> QED
        BY <3>1, <4>1 DEF Chosen
    <3> DEFINE meantFor == IF use[u].told = meant /\ ~Shut(use[u].told) THEN use[u].told ELSE NoTab
    <3>3. /\ use' \in [Use -> UseType] /\ \A v \in Use \ {u} : use'[v] = use[v]
          /\ use'[u].targets = use[u].targets /\ use'[u].own = use[u].own /\ use'[u].at = "attach"
          /\ use'[u].got = use[u].got /\ use'[u].tool = use[u].tool /\ use'[u].tab = r
          /\ use'[u].told = meantFor
      <4> DEFINE d == [use[u] EXCEPT !.at = "attach", !.tab = r, !.told = meantFor]
      <4>1. use[u] \in UseType /\ use' = [use EXCEPT ![u] = d]
        BY <1>1, <3>1
      <4>2. /\ d \in UseType /\ d.targets = use[u].targets /\ d.own = use[u].own /\ d.at = "attach"
            /\ d.got = use[u].got /\ d.tool = use[u].tool /\ d.tab = r /\ d.told = meantFor
        BY <4>1, <1>0, <1>1, <3>2 DEF UseType
      <4> HIDE DEF d
      <4>3. use' \in [Use -> UseType] /\ use'[u] = d /\ \A v \in Use \ {u} : use'[v] = use[v]
        BY <1>1, <4>1, <4>2
      <4> QED
        BY <4>2, <4>3
    <3>4. OfOnePage(use'[u], shows)
      BY <2>1, <2>2, <3>2, <3>3 DEF OfOnePage
    <3>5. ASSUME ~overruled', meant \in tabs.open PROVE r = meant
      <4>1. meant \in use[u].targets /\ active = meant
        BY <1>3, <2>1, <3>5
      <4> QED
        BY <3>1, <4>1 DEF Chosen
    <3>6. ~overruled' => HoldsTo(use'[u])
      BY <3>3, <3>5 DEF HoldsTo, Shut
    <3>7. active' \in 0..MaxTab
      BY <1>0, <3>1, <3>2
    <3>8. ~overruled' => ~overruled /\ (meant' \in tabs'.open => active' = meant')
      BY <2>1, <3>1, <3>5
    <3> QED
      BY <1>1, <2>1, <2>2, <3>3, <3>4, <3>6, <3>7, <3>8, OneCall
  <2> QED
    BY <2>3, <2>4
<1>7. ASSUME NEW u \in Use, Makes(u) PROVE TInv'
  <2> DEFINE r == tabs.made + 1
  <2>1. /\ use[u].at = "making" /\ tabs.made < MaxTab
        /\ tabs' = [made |-> r, open |-> tabs.open \cup {r}] /\ active' = r
        /\ use' = [use EXCEPT ![u].at = "attach", ![u].tab = r, ![u].told = NoTab]
        /\ overruled' = (overruled \/ meant \in tabs.open)
        /\ UNCHANGED <<shows, pages, attached, meant>>
    BY <1>7 DEF Makes
  <2>2. r \in Tab /\ r \in 0..MaxTab /\ tabs.made <= r /\ r \in 1..r /\ r # meant /\ r \in Nat
    BY <1>0, <1>1, <2>1 DEF Tab
  <2>3. 1..tabs.made \subseteq 1..r /\ 0..tabs.made \subseteq 0..r
    BY <1>1, <2>2
  <2> HIDE DEF r
  <2>4. /\ use' \in [Use -> UseType] /\ \A v \in Use \ {u} : use'[v] = use[v]
        /\ use'[u].targets = use[u].targets /\ use'[u].own = use[u].own /\ use'[u].at = "attach"
        /\ use'[u].got = use[u].got /\ use'[u].tool = use[u].tool /\ use'[u].tab = r /\ use'[u].told = NoTab
    <3> DEFINE d == [use[u] EXCEPT !.at = "attach", !.tab = r, !.told = NoTab]
    <3>1. use[u] \in UseType /\ use' = [use EXCEPT ![u] = d]
      BY <1>1, <2>1
    <3>2. /\ d \in UseType /\ d.targets = use[u].targets /\ d.own = use[u].own /\ d.at = "attach"
          /\ d.got = use[u].got /\ d.tool = use[u].tool /\ d.tab = r /\ d.told = NoTab
      BY <3>1, <1>0, <2>2 DEF UseType
    <3> HIDE DEF d
    <3>3. use' \in [Use -> UseType] /\ use'[u] = d /\ \A v \in Use \ {u} : use'[v] = use[v]
      BY <1>1, <3>1, <3>2
    <3> QED
      BY <3>2, <3>3
  <2>5. OfOnePage(use'[u], shows) /\ HoldsTo(use'[u])
    BY <1>2, <2>1, <2>2, <2>4 DEF OfOnePage, HoldsTo
  <2>6. /\ tabs' \in [made : 0..MaxTab, open : SUBSET Tab] /\ tabs'.open \subseteq 1..tabs'.made
        /\ tabs.made <= tabs'.made /\ meant' \in 0..tabs'.made
    BY <1>1, <2>1, <2>2, <2>3
  <2>7. ~overruled' => ~overruled /\ (meant' \in tabs'.open => active' = meant')
    BY <2>1
  <2>8. use'[u].own <= pages /\ use'[u].targets \subseteq 1..tabs.made
    BY <1>1, <2>4
  <2> QED
    BY <1>1, <2>1, <2>2, <2>4, <2>5, <2>6, <2>7, <2>8, OneCall
<1>8. ASSUME NEW u \in Use, NEW at \in {"done", "failed", "command", "asking"},
             use' = [use EXCEPT ![u].at = at]
      PROVE  /\ use' \in [Use -> UseType] /\ \A v \in Use \ {u} : use'[v] = use[v]
             /\ use'[u].targets = use[u].targets /\ use'[u].own = use[u].own /\ use'[u].at = at
             /\ use'[u].got = use[u].got /\ use'[u].tool = use[u].tool /\ use'[u].tab = use[u].tab
             /\ use'[u].told = use[u].told
             /\ use'[u].targets \subseteq 1..tabs.made /\ use'[u].own <= pages
  <2>1. at \in {"idle", "listing", "listed", "making", "attach", "command", "poll", "asking", "done", "failed"}
    OBVIOUS
  <2>2. /\ use' \in [Use -> UseType] /\ \A v \in Use \ {u} : use'[v] = use[v]
        /\ use'[u].targets = use[u].targets /\ use'[u].own = use[u].own /\ use'[u].at = at
        /\ use'[u].got = use[u].got /\ use'[u].tool = use[u].tool /\ use'[u].tab = use[u].tab
        /\ use'[u].told = use[u].told
    BY <1>1, <1>8, <2>1, ZenonT(60) DEF UseType
  <2> QED
    BY <1>1, <2>2
<1>9. ASSUME NEW u \in Use, NEW r \in Tab, Activates(u, r) PROVE TInv'
  <2>1. /\ use[u].at = "listed" /\ use[u].tool = "activate"
        /\ UNCHANGED <<tabs, shows, pages, attached, overruled>>
    BY <1>9 DEF Activates
  <2>2. CASE r \in use[u].targets
    <3>1. active' = r /\ meant' = r /\ use' = [use EXCEPT ![u].at = "done"]
      BY <1>9, <2>2 DEF Activates, Goes
    <3>2. OfOnePage(use'[u], shows) /\ HoldsTo(use'[u])
      BY <1>8, <2>1, <3>1 DEF OfOnePage, HoldsTo
    <3>3. meant' \in 0..tabs'.made /\ active' \in 0..MaxTab /\ tabs.made <= tabs'.made
      BY <1>0, <1>1, <2>1, <2>2, <3>1
    <3> QED
      BY <1>1, <1>8, <2>1, <3>1, <3>2, <3>3, OneCall
  <2>3. CASE r \notin use[u].targets
    <3>1. UNCHANGED <<active, meant>> /\ use' = [use EXCEPT ![u].at = "failed"]
      BY <1>9, <2>3 DEF Activates, Goes
    <3>2. OfOnePage(use'[u], shows) /\ HoldsTo(use'[u])
      BY <1>8, <2>1, <3>1 DEF OfOnePage, HoldsTo, Working
    <3>3. tabs.made <= tabs'.made
      BY <1>1, <2>1
    <3> QED
      BY <1>1, <1>3, <1>8, <2>1, <3>1, <3>2, <3>3, OneCall
  <2> QED
    BY <2>2, <2>3
<1>10. ASSUME NEW u \in Use, Attaches(u) PROVE TInv'
  <2> DEFINE at == IF use[u].tool = "navigate" THEN "command" ELSE "asking"
  <2>1. /\ use[u].at = "attach" /\ attached' = attached \cup {use[u].tab}
        /\ use' = [use EXCEPT ![u].at = at]
        /\ UNCHANGED <<tabs, shows, pages, active, meant, overruled>>
    BY <1>10 DEF Attaches, Goes
  <2>2. use[u].tool # "activate" /\ use[u].tab \in Tab /\ use[u].got = <<>>
    BY <1>2, <2>1 DEF OfOnePage, Working
  <2>3. at \in {"command", "asking"} /\ (at = "asking" => use[u].tool # "navigate")
    OBVIOUS
  <2> HIDE DEF at
  <2>4. OfOnePage(use'[u], shows)
    BY <1>8, <2>1, <2>2, <2>3 DEF OfOnePage
  <2>5. HoldsTo(use[u]) => HoldsTo(use'[u])
    BY <1>8, <2>1, <2>3 DEF HoldsTo, Working
  <2>6. attached' \subseteq Tab /\ tabs.made <= tabs'.made
    BY <1>1, <2>1, <2>2
  <2> QED
    BY <1>1, <1>3, <1>8, <2>1, <2>3, <2>4, <2>5, <2>6, OneCall
<1>11. ASSUME NEW u \in Use, GivesUp(u) PROVE TInv'
  <2>1. /\ use' = [use EXCEPT ![u].at = "failed"]
        /\ UNCHANGED <<tabs, shows, pages, active, attached, meant, overruled>>
    BY <1>11 DEF GivesUp, Goes
  <2>2. OfOnePage(use'[u], shows) /\ HoldsTo(use'[u])
    BY <1>8, <2>1 DEF OfOnePage, HoldsTo, Working
  <2>3. tabs.made <= tabs'.made
    BY <1>1, <2>1
  <2> QED
    BY <1>1, <1>3, <1>8, <2>1, <2>2, <2>3, OneCall
<1>12. ASSUME NEW r \in Tab, Moves(r)
       PROVE  /\ pages' = pages + 1 /\ pages' \in 0..MaxPage
              /\ shows' \in [Tab -> [is : 0..MaxPage, complete : BOOLEAN]] /\ shows'[r].is = pages'
  BY <1>0, <1>1, <1>12 DEF Moves
<1>13. ASSUME NEW r \in Tab, Moves(r), UNCHANGED <<tabs, active, attached, meant, overruled>>,
              use' \in [Use -> UseType],
              \A v \in Use : /\ OfOnePage(use'[v], shows') /\ (HoldsTo(use[v]) => HoldsTo(use'[v]))
                             /\ use'[v].targets = use[v].targets /\ use'[v].own \in {use[v].own, pages'}
       PROVE  TInv'
  <2>1. \A v \in Use : use'[v].targets \subseteq 1..tabs'.made /\ use'[v].own <= pages'
    <3>1. \A v \in Use : use[v].own \in Nat
      BY <1>0, <1>2 DEF UseType
    <3> QED
      BY <1>1, <1>12, <1>13, <3>1
  <2>2. TabsTyped'
    BY <1>1, <1>12, <1>13, <2>1 DEF TabsTyped
  <2>3. OnePageEach'
    BY <1>13 DEF OnePageEach
  <2>4. ActiveIsMeant'
    BY <1>3, <1>13 DEF ActiveIsMeant
  <2> QED
    BY <2>2, <2>3, <2>4 DEF TInv
<1>14. ASSUME NEW u \in Use, Navigates(u) PROVE TInv'
  <2> DEFINE r == use[u].tab
             passed(v) == [use[v] EXCEPT !.moved = @ \/ v \in WorkingOn(r)]
  <2>1. /\ use[u].at = "command" /\ r \in tabs.open /\ Moves(r)
        /\ use' = [v \in Use |-> IF v = u THEN [use[u] EXCEPT !.at = "poll", !.own = pages'] ELSE passed(v)]
        /\ UNCHANGED <<tabs, active, attached, meant, overruled>>
    BY <1>14 DEF Navigates, Shut
  <2>2. r \in Tab
    BY <1>1, <2>1
  <2>3. ASSUME NEW v \in Use, v # u
        PROVE  /\ use'[v] \in UseType /\ OfOnePage(use'[v], shows') /\ (HoldsTo(use[v]) => HoldsTo(use'[v]))
               /\ use'[v].targets = use[v].targets /\ use'[v].own = use[v].own
    <3>1. use'[v] = passed(v)
      BY <2>1, <2>3
    <3> DEFINE c == passed(v)
    <3>2. c = passed(v)
      OBVIOUS
    <3> HIDE DEF c
    <3>3. /\ c \in UseType /\ OfOnePage(c, shows') /\ (HoldsTo(use[v]) => HoldsTo(c))
          /\ c.targets = use[v].targets /\ c.own = use[v].own
      BY <2>1, <2>2, <3>2, MovedOn
    <3> QED
      BY <3>1, <3>2, <3>3
  <2>4. /\ use'[u] \in UseType /\ use'[u].at = "poll" /\ use'[u].own = pages' /\ use'[u].tool = use[u].tool
        /\ use'[u].tab = r /\ use'[u].got = use[u].got /\ use'[u].targets = use[u].targets /\ use'[u].told = use[u].told
    BY <1>2, <1>12, <2>1, <2>2, ZenonT(60) DEF UseType
  <2>5. use[u].got = <<>> /\ use[u].tool # "activate"
    BY <1>2, <2>1 DEF OfOnePage
  <2>6. OfOnePage(use'[u], shows')
    BY <1>12, <2>1, <2>2, <2>4, <2>5 DEF OfOnePage
  <2>7. HoldsTo(use[u]) => HoldsTo(use'[u])
    BY <2>1, <2>4 DEF HoldsTo, Working
  <2>8. use' \in [Use -> UseType]
    <3>1. \A v \in Use : use'[v] \in UseType
      BY <2>3, <2>4
    <3> QED
      BY <2>1, <3>1
  <2> QED
    BY <1>13, <2>1, <2>2, <2>3, <2>4, <2>6, <2>7, <2>8
<1>15. ASSUME NEW r \in Tab, Follows(r) PROVE TInv'
  <2> DEFINE passed(v) == [use[v] EXCEPT !.moved = @ \/ v \in WorkingOn(r)]
  <2>1. /\ Moves(r) /\ use' = [v \in Use |-> passed(v)]
        /\ UNCHANGED <<tabs, active, attached, meant, overruled>>
    BY <1>15 DEF Follows
  <2>2. ASSUME NEW v \in Use
        PROVE  /\ use'[v] \in UseType /\ OfOnePage(use'[v], shows') /\ (HoldsTo(use[v]) => HoldsTo(use'[v]))
               /\ use'[v].targets = use[v].targets /\ use'[v].own = use[v].own
    <3>1. use'[v] = passed(v)
      BY <2>1
    <3> DEFINE c == passed(v)
    <3>2. c = passed(v)
      OBVIOUS
    <3> HIDE DEF c
    <3>3. /\ c \in UseType /\ OfOnePage(c, shows') /\ (HoldsTo(use[v]) => HoldsTo(c))
          /\ c.targets = use[v].targets /\ c.own = use[v].own
      BY <2>1, <3>2, MovedOn
    <3> QED
      BY <3>1, <3>2, <3>3
  <2>3. use' \in [Use -> UseType]
    <3>1. \A v \in Use : use'[v] \in UseType
      BY <2>2
    <3> QED
      BY <2>1, <3>1
  <2> QED
    BY <1>13, <2>1, <2>2, <2>3
<1>16. ASSUME NEW u \in Use, Polls(u) PROVE TInv'
  <2>1. /\ use[u].at = "poll"
        /\ UNCHANGED <<tabs, shows, pages, active, attached, meant, overruled>>
    BY <1>16 DEF Polls
  <2>2. PICK late \in BOOLEAN : /\ shows[use[u].tab].complete \/ late
                                /\ use' = [use EXCEPT ![u].at = "asking", ![u].late = late]
    BY <1>16 DEF Polls
  <2>3. /\ use' \in [Use -> UseType] /\ \A v \in Use \ {u} : use'[v] = use[v]
        /\ use'[u].targets = use[u].targets /\ use'[u].own = use[u].own /\ use'[u].at = "asking"
        /\ use'[u].got = use[u].got /\ use'[u].tool = use[u].tool /\ use'[u].tab = use[u].tab
        /\ use'[u].told = use[u].told /\ use'[u].moved = use[u].moved /\ use'[u].late = late
    <3> DEFINE d == [use[u] EXCEPT !.at = "asking", !.late = late]
    <3>1. use[u] \in UseType /\ use' = [use EXCEPT ![u] = d]
      BY <1>1, <2>2
    <3>2. /\ d \in UseType /\ d.targets = use[u].targets /\ d.own = use[u].own /\ d.at = "asking"
          /\ d.got = use[u].got /\ d.tool = use[u].tool /\ d.tab = use[u].tab
          /\ d.told = use[u].told /\ d.moved = use[u].moved /\ d.late = late
      BY <3>1, <2>2 DEF UseType
    <3> HIDE DEF d
    <3>3. use' \in [Use -> UseType] /\ use'[u] = d /\ \A v \in Use \ {u} : use'[v] = use[v]
      BY <1>1, <3>1, <3>2
    <3> QED
      BY <3>2, <3>3
  <2>4. use[u].tool # "activate" /\ use[u].tab \in Tab /\ use[u].got = <<>>
    BY <1>2, <2>1 DEF OfOnePage, Working
  <2>5. OfOnePage(use'[u], shows)
    BY <1>2, <2>1, <2>2, <2>3, <2>4 DEF OfOnePage
  <2>6. HoldsTo(use[u]) => HoldsTo(use'[u])
    BY <2>1, <2>3 DEF HoldsTo, Working
  <2>7. tabs.made <= tabs'.made /\ use'[u].own <= pages /\ use'[u].targets \subseteq 1..tabs.made
    BY <1>1, <2>1, <2>3
  <2> QED
    BY <1>1, <1>3, <2>1, <2>3, <2>5, <2>6, <2>7, OneCall
<1>17. ASSUME NEW u \in Use, Answers(u) PROVE TInv'
  <2> DEFINE got == Append(use[u].got, shows[use[u].tab].is)
             at == IF Len(got) = Wants(use[u].tool) THEN "done" ELSE use[u].at
  <2>1. /\ use[u].at = "asking" /\ use' = [use EXCEPT ![u].got = got, ![u].at = at]
        /\ UNCHANGED <<tabs, shows, pages, active, attached, meant, overruled>>
    BY <1>17 DEF Answers
  <2>2. use[u].tool # "activate" /\ use[u].tab \in Tab /\ use[u].got \in Seq(0..MaxPage)
    BY <1>2, <2>1 DEF OfOnePage, Working, UseType
  <2>3. shows[use[u].tab].is \in 0..MaxPage
    BY <1>1, <2>2
  <2>4. /\ got \in Seq(0..MaxPage) /\ Len(got) = Len(use[u].got) + 1 /\ Len(use[u].got) \in Nat
        /\ \A i \in 1..Len(use[u].got) : got[i] = use[u].got[i]
        /\ got[Len(use[u].got) + 1] = shows[use[u].tab].is
    BY <2>2, <2>3, AppendProperties, LenProperties
  <2>5. at \in {"done", "asking"}
    BY <2>1
  <2> HIDE DEF got, at
  <2>6. /\ use' \in [Use -> UseType] /\ \A v \in Use \ {u} : use'[v] = use[v]
        /\ use'[u].targets = use[u].targets /\ use'[u].own = use[u].own /\ use'[u].at = at
        /\ use'[u].got = got /\ use'[u].tool = use[u].tool /\ use'[u].tab = use[u].tab
        /\ use'[u].told = use[u].told /\ use'[u].moved = use[u].moved /\ use'[u].late = use[u].late
    <3> DEFINE d == [use[u] EXCEPT !.got = got, !.at = at]
    <3>1. use[u] \in UseType /\ use' = [use EXCEPT ![u] = d]
      BY <1>1, <2>1
    <3>2. /\ d \in UseType /\ d.targets = use[u].targets /\ d.own = use[u].own /\ d.at = at
          /\ d.got = got /\ d.tool = use[u].tool /\ d.tab = use[u].tab
          /\ d.told = use[u].told /\ d.moved = use[u].moved /\ d.late = use[u].late
      BY <3>1, <2>4, <2>5 DEF UseType
    <3> HIDE DEF d
    <3>3. use' \in [Use -> UseType] /\ use'[u] = d /\ \A v \in Use \ {u} : use'[v] = use[v]
      BY <1>1, <3>1, <3>2
    <3> QED
      BY <3>2, <3>3
  <2>7. ~use[u].moved => \A i \in 1..Len(got) : got[i] = shows[use[u].tab].is
    <3>1. ~use[u].moved => \A i \in 1..Len(use[u].got) : use[u].got[i] = shows[use[u].tab].is
      BY <1>2, <2>1 DEF OfOnePage
    <3>2. \A i \in 1..Len(got) : i \in 1..Len(use[u].got) \/ i = Len(use[u].got) + 1
      BY <2>4
    <3> QED
      BY <2>4, <3>1, <3>2
  <2>8. 1 \in 1..Len(got) /\ Len(got) > 0
    BY <2>4
  <2>9. OfOnePage(use'[u], shows)
    <3>1. ~use[u].moved /\ use[u].tool = "navigate" =>
            shows[use[u].tab].is = use[u].own /\ (use[u].late \/ shows[use[u].tab].complete)
      BY <1>2, <2>1 DEF OfOnePage
    <3>2. ~use[u].moved => got[1] = shows[use[u].tab].is /\ \A i \in 1..Len(got) : got[i] = got[1]
      BY <2>7, <2>8
    <3> QED
      BY <2>2, <2>5, <2>6, <2>7, <2>8, <3>1, <3>2 DEF OfOnePage
  <2>10. HoldsTo(use[u]) => HoldsTo(use'[u])
    BY <2>1, <2>5, <2>6 DEF HoldsTo, Working
  <2>11. tabs.made <= tabs'.made /\ use'[u].own <= pages /\ use'[u].targets \subseteq 1..tabs.made
    BY <1>1, <2>1, <2>6
  <2> QED
    BY <1>1, <1>3, <2>1, <2>6, <2>9, <2>10, <2>11, OneCall
(* What the window does by itself.                                         *)
<1>18. ASSUME NEW r \in Tab, Completes(r) PROVE TInv'
  <2>1. /\ shows' = [shows EXCEPT ![r].complete = TRUE]
        /\ UNCHANGED <<tabs, pages, active, attached, use, meant, overruled>>
    BY <1>18 DEF Completes
  <2>2. /\ shows' \in [Tab -> [is : 0..MaxPage, complete : BOOLEAN]]
        /\ \A s \in Tab : shows'[s].is = shows[s].is /\ (shows[s].complete => shows'[s].complete)
    BY <1>1, <2>1
  <2>3. \A u \in Use : OfOnePage(use[u], shows')
    <3> SUFFICES ASSUME NEW u \in Use PROVE OfOnePage(use[u], shows')
      OBVIOUS
    <3>1. CASE use[u].at \in Working /\ use[u].tool # "activate"
      <4>1. use[u].tab \in Tab
        BY <1>2, <3>1 DEF OfOnePage
      <4> QED
        BY <1>2, <2>2, <4>1 DEF OfOnePage
    <3>2. CASE ~(use[u].at \in Working /\ use[u].tool # "activate")
      BY <1>2, <3>2 DEF OfOnePage, Working
    <3> QED
      BY <3>1, <3>2
  <2> QED
    BY <1>1, <1>3, <2>1, <2>2, <2>3 DEF TInv, TabsTyped, OnePageEach, ActiveIsMeant
<1>19. ASSUME tabs' \in [made : 0..MaxTab, open : SUBSET Tab], tabs'.open \subseteq 1..tabs'.made,
              tabs.made <= tabs'.made, meant \in tabs'.open => meant \in tabs.open,
              UNCHANGED <<shows, pages, active, attached, use, meant, overruled>>
       PROVE  TInv'
  <2>1. 1..tabs.made \subseteq 1..tabs'.made /\ 0..tabs.made \subseteq 0..tabs'.made
    <3>1. tabs'.made \in Nat
      BY <1>0, <1>19
    <3> QED
      BY <1>1, <1>19, <3>1
  <2>2. TabsTyped'
    BY <1>1, <1>19, <2>1 DEF TabsTyped
  <2>3. OnePageEach'
    BY <1>2, <1>19 DEF OnePageEach
  <2>4. ActiveIsMeant'
    BY <1>3, <1>19 DEF ActiveIsMeant
  <2> QED
    BY <2>2, <2>3, <2>4 DEF TInv
<1>20. CASE Opens
  <2> DEFINE r == tabs.made + 1
  <2>1. /\ tabs.made < MaxTab /\ tabs' = [made |-> r, open |-> tabs.open \cup {r}]
        /\ UNCHANGED <<shows, pages, active, attached, use, meant, overruled>>
    BY <1>20 DEF Opens
  <2>2. r \in Tab /\ r \in 0..MaxTab /\ tabs.made <= r /\ r \in 1..r /\ r # meant /\ 1..tabs.made \subseteq 1..r
    BY <1>0, <1>1, <2>1 DEF Tab
  <2> HIDE DEF r
  <2> QED
    BY <1>1, <1>19, <2>1, <2>2
<1>21. ASSUME NEW r \in Tab, Closes(r) PROVE TInv'
  <2>1. /\ tabs' = [tabs EXCEPT !.open = @ \ {r}]
        /\ UNCHANGED <<shows, pages, active, attached, use, meant, overruled>>
    BY <1>21 DEF Closes
  <2>2. tabs'.made = tabs.made /\ tabs'.open = tabs.open \ {r} /\ tabs' \in [made : 0..MaxTab, open : SUBSET Tab]
    BY <1>1, <2>1
  <2>3. tabs.made <= tabs'.made
    BY <1>1, <2>2
  <2> QED
    BY <1>1, <1>19, <2>1, <2>2, <2>3
<1>22. CASE UNCHANGED tvars
  <2>1. UNCHANGED <<tabs, shows, pages, active, attached, use, meant, overruled>>
    BY <1>22 DEF tvars
  <2>2. tabs.made <= tabs'.made
    BY <1>1, <2>1
  <2> QED
    BY <1>1, <1>19, <2>1, <2>2
<1> QED
  BY <1>4, <1>5, <1>6, <1>7, <1>9, <1>10, <1>11, <1>14, <1>15, <1>16, <1>17, <1>18, <1>20, <1>21, <1>22
  DEF TabsNext

(* The inductive invariant of the tabs.                                    *)
THEOREM TabsInvariant == TabsInit /\ [][TabsNext]_tvars => []TInv
BY TabsStart, TabsStep, PTL

LEMMA TabsHold == TInv => AnswersAgree /\ ActivationHolds
<1> SUFFICES ASSUME TInv PROVE AnswersAgree /\ ActivationHolds
  OBVIOUS
<1>1. ActivationHolds
  BY DEF TInv, ActiveIsMeant, HoldsTo, Working, ActivationHolds
<1>2. ASSUME NEW u \in Use, Through(u), ~use[u].moved
      PROVE  /\ Cardinality(Range(use[u].got)) = 1
             /\ use[u].tool = "navigate" =>
                  /\ use[u].got[1] = use[u].own
                  /\ shows[use[u].tab].is = use[u].own => use[u].late \/ shows[use[u].tab].complete
  <2> DEFINE g == use[u].got
  <2>1. /\ use[u].at = "done" /\ use[u].tool # "activate" /\ OfOnePage(use[u], shows) /\ use[u] \in UseType
    BY <1>2 DEF Through, TInv, OnePageEach, TabsTyped
  <2>2. /\ g \in Seq(0..MaxPage) /\ Len(g) > 0 /\ \A i \in 1..Len(g) : g[i] = g[1]
        /\ use[u].tool = "navigate" =>
             g[1] = use[u].own /\ (shows[use[u].tab].is = use[u].own => use[u].late \/ shows[use[u].tab].complete)
    BY <1>2, <2>1 DEF OfOnePage, UseType
  <2>3. Range(g) = {g[1]}
    <3> HIDE DEF g
    <3>1. DOMAIN g = 1..Len(g) /\ 1 \in 1..Len(g)
      BY <2>2, LenProperties
    <3> QED
      BY <2>2, <3>1 DEF Range
  <2>4. Cardinality(Range(g)) = 1
    BY <2>3, FS_Singleton
  <2> QED
    BY <2>2, <2>4
<1>3. AnswersAgree
  BY <1>2 DEF AnswersAgree
<1> QED
  BY <1>1, <1>3

(* The windows are true, of any number of agents, tokens, tabs and pages:   *)
(* the dashboard frames the token that is served, the server is there while *)
(* an agent needs it and lists those who hold it; the answers of a call are *)
(* of one page, in the tab that was activated.                             *)
THEOREM WindowsTrue ==
  SFInit /\ [][SFNext]_svars /\ TabsInit /\ [][TabsNext]_tvars => []WindowsAreTrue
<1>1. SFInv /\ TInv => WindowsAreTrue
  BY SurfacesHold, TabsHold DEF WindowsAreTrue
<1> QED
  BY <1>1, SurfacesInvariant, TabsInvariant, PTL

(* In the whole of what the operator works with, whichever part of it runs. *)
THEOREM WindowsTrueForTheOperator == OperatorSpec => []WindowsAreTrue
<1>1. OperatorInit => SFInit /\ TabsInit
  BY DEF OperatorInit
<1>2. [OperatorNext]_operatorVars => [SFNext]_svars /\ [TabsNext]_tvars
  BY DEF OperatorNext, operatorVars
<1> QED
  BY <1>1, <1>2, WindowsTrue, PTL DEF OperatorSpec

----------------------------------------------------------------------------
(* The catalogue (Catalogue).                                              *)

EditorType ==
  [name : Service \cup {None}, as : Service \cup {None}, isDefault : BOOLEAN, definition : 0..MaxEdit]
PutType ==
  [cfg : Catalogues, keeps : Catalogues, form : BOOLEAN, stage : {"sent", "landed", "failed"},
   stored : SUBSET Service, removed : SUBSET Service, closes : BOOLEAN]

CatalogueTyped ==
  /\ llm \in [services : [Service -> 0..MaxEdit], default : Service \cup {None}, readable : BOOLEAN]
  /\ view \in Catalogues
  /\ editor \in {Closed} \cup EditorType
  /\ puts \subseteq PutType
  /\ prompt \in {Closed} \cup Catalogues
  /\ edits \in 0..MaxEdit
  /\ promised \in [Service -> 0..MaxEdit] /\ typed \in [Service -> 0..MaxEdit]
  /\ behind \subseteq {"page", "terminal"} /\ outrun \in BOOLEAN /\ looseRename \in BOOLEAN

(* The default of a catalogue is one of its services: of the file, and of   *)
(* every copy that may still be written over it.                           *)
Backed(cfg) == cfg.default # None => cfg.services[cfg.default] # NoDefinition

AllBacked ==
  ~looseRename =>
    /\ Backed(llm) /\ Backed(view)
    /\ \A p \in puts : Backed(p.cfg) /\ Backed(p.keeps)
    /\ prompt # Closed => Backed(prompt)

(* A service is as the file has it, or as it was typed and never saved.     *)
AsKnown(cfg, n) ==
  cfg.services[n] = llm.services[n] \/ (typed[n] # NoDefinition /\ cfg.services[n] = typed[n])

(* A catalogue is as another, but for what was typed of certain services.   *)
KeptBut(k, cfg, changed) ==
  \A n \in Service :
    k.services[n] = cfg.services[n] \/ (n \in changed /\ k.services[n] # NoDefinition)

(* As long as nobody was outrun, each editor's copy is what the file holds  *)
(* unless it is known to be behind - the page's, but for what was typed    *)
(* while a save was out - and a request changes of the file what it is      *)
(* about and that.                                                         *)
InStep ==
  /\ \A p, q \in puts : p = q
  /\ "page" \notin behind /\ puts = {} => \A n \in Service : AsKnown(view, n)
  /\ prompt # Closed /\ "terminal" \notin behind => prompt = Content
  /\ \A p \in puts :
       /\ p.stored \cap p.removed = {}
       /\ \A n \in p.removed : p.cfg.services[n] = NoDefinition
       /\ KeptBut(p.keeps, p.cfg, p.stored)
       /\ p.stage = "landed" => p.cfg = Content
       /\ p.stage # "landed" =>
            /\ "page" \notin behind /\ \A n \in Service : AsKnown(view, n)
            /\ \A n \in Service \ (p.stored \cup p.removed) : AsKnown(p.cfg, n)

CInv ==
  /\ CatalogueTyped
  /\ AllBacked
  /\ ~outrun => InStep
  /\ SavedStays

----------------------------------------------------------------------------
(* The settings (Settings): of the calls under way each has its number, and *)
(* two that change one document are known to race.                         *)

DifferOrRace(c, e) == c = e \/ c.doc # e.doc \/ c.doc \in raced

Numbered ==
  /\ \A c \in calls : c.n <= made
  /\ \A c, e \in calls : c.n = e.n => c = e
  /\ \A c \in calls : c.doc = Nowhere <=> c.does = "restart"
  /\ \A c \in calls : c.by = "terminal" => c.does # "restart"
  /\ \A c \in calls : c.by = "command" <=> c.does = "pin"
  /\ \A c, e \in calls : Changes(c) /\ Changes(e) => DifferOrRace(c, e)

(* A creation that found nothing still finds nothing; what was written and  *)
(* not reported yet is what the file holds.                                *)
InPlace ==
  \A c \in calls : c.doc \notin raced =>
    /\ c.at \in {"looked", "seeded"} => disk[c.doc] = Absent
    /\ c.at = "landed" /\ Changes(c) => disk[c.doc] = IF c.does = "delete" THEN Absent ELSE c.body

(* What a command writes is what an editor last wrote. *)
Pinning ==
  \A c \in calls : c.does = "pin" /\ c.doc \notin raced /\ c.at \in {"sent", "landed"} => c.body = stored[c.doc]

Looked == \A c \in calls : c.at \in {"looked", "seeded"} => c.does = "create"

(* The page orders a restart when it saves nothing, and what was saved      *)
(* before is unread no longer than until that order has been carried out.  *)
Orders ==
  ~muddled =>
    /\ \A c, e \in CallsOf("page") : c.does = "restart" => e.does = "restart"
    /\ \A c \in CallsOf("page") :
         c.does = "restart" /\ c.at = "landed" => restarting \/ unapplied = {}

(* What is the terminal's own, and what it dropped, was never anywhere     *)
(* else.                                                                   *)
Known(m) == (\E d \in Doc : m \in {disk[d], page[d]}) \/ \E c \in calls : m = c.body

Secret == cancelled \cup {m \in {entry.content} : entry.own}

Unseen ==
  /\ \A m \in Secret : m \in (Shipped + 1)..marks /\ ~Known(m)
  /\ entry.content \notin cancelled
  /\ entry.content <= marks
  /\ \A m \in 0..MaxMark : Known(m) => m <= marks

(* What is edited is a document that is open. *)
Editing ==
  /\ dirty => opened # Nowhere /\ page[opened] # Absent
  /\ entry # NoEntry => entry.doc \in Doc

CallsOK == Numbered /\ Looked
FilesOK == InPlace /\ Pinning /\ StoredStands /\ CreationKeeps
OffersOK == Orders /\ RestartIsOffered

EInv == ETypeOK /\ CallsOK /\ FilesOK /\ OffersOK /\ Unseen /\ Editing

----------------------------------------------------------------------------
(* What the editors make of a catalogue.                                   *)

LEMMA WithIs ==
  ASSUME NEW cfg \in Catalogues, NEW n \in Service, NEW d \in 0..MaxEdit
  PROVE /\ With(cfg, n, d) \in Catalogues
        /\ With(cfg, n, d).default = cfg.default
        /\ \A m \in Service : With(cfg, n, d).services[m] = IF m = n THEN d ELSE cfg.services[m]
BY DEF With, Catalogues

LEMMA WithoutIs ==
  ASSUME NEW cfg \in Catalogues, NEW n \in Service
  PROVE /\ Without_(cfg, n) \in Catalogues
        /\ Without_(cfg, n).default = IF cfg.default = n THEN None ELSE cfg.default
        /\ \A m \in Service :
             Without_(cfg, n).services[m] = IF m = n THEN NoDefinition ELSE cfg.services[m]
<1>1. NoDefinition \in 0..MaxEdit
  BY CatalogueAssumption DEF NoDefinition
<1> QED
  BY <1>1 DEF Without_, Catalogues

LEMMA EditedIs ==
  ASSUME NEW cfg \in Catalogues, NEW e \in EditorType, e.as \in Service
  PROVE /\ Edited(cfg, e) \in Catalogues
        /\ Edited(cfg, e).default = IF e.isDefault THEN e.as ELSE IF cfg.default = e.as THEN None ELSE cfg.default
        /\ \A m \in Service : Edited(cfg, e).services[m] =
             IF m = e.as THEN e.definition ELSE IF m = e.name THEN NoDefinition ELSE cfg.services[m]
<1>0. NoDefinition \in 0..MaxEdit
  BY CatalogueAssumption DEF NoDefinition
<1> DEFINE moved == IF e.name \notin {None, e.as} THEN WithoutOnly(cfg, e.name) ELSE cfg
<1> DEFINE kept == With(moved, e.as, e.definition)
<1>1. e.definition \in 0..MaxEdit /\ e.name \in Service \cup {None} /\ None \notin Service
  BY CatalogueAssumption DEF EditorType
<1>2. /\ moved \in Catalogues /\ moved.default = cfg.default
      /\ \A m \in Service :
           moved.services[m] = IF m = e.name /\ m # e.as THEN NoDefinition ELSE cfg.services[m]
  <2>1. CASE e.name \notin {None, e.as}
    <3>1. e.name \in Service
      BY <1>1, <2>1
    <3> QED
      BY <1>0, <2>1, <3>1 DEF WithoutOnly, Catalogues
  <2>2. CASE e.name \in {None, e.as}
    BY <1>1, <2>2
  <2> QED
    BY <2>1, <2>2
<1> HIDE DEF moved
<1>3. /\ kept \in Catalogues /\ kept.default = cfg.default
      /\ \A m \in Service : kept.services[m] = IF m = e.as THEN e.definition ELSE moved.services[m]
  BY <1>1, <1>2, WithIs
<1> HIDE DEF kept
<1>4. Edited(cfg, e) =
        [kept EXCEPT !.default = IF e.isDefault THEN e.as ELSE IF @ = e.as THEN None ELSE @]
  BY DEF Edited, moved, kept
<1>5. /\ Edited(cfg, e) \in Catalogues
      /\ Edited(cfg, e).services = kept.services
      /\ Edited(cfg, e).default =
           IF e.isDefault THEN e.as ELSE IF kept.default = e.as THEN None ELSE kept.default
  BY <1>3, <1>4 DEF Catalogues
<1> QED
  BY <1>2, <1>3, <1>5

(* None of them leaves the default with nothing behind it, but the edit     *)
(* that renames the default and switches it off.                           *)
LEMMA WithBacked ==
  ASSUME NEW cfg \in Catalogues, NEW n \in Service, NEW d \in 0..MaxEdit, d # NoDefinition, Backed(cfg)
  PROVE Backed(With(cfg, n, d))
<1>1. cfg.default \in Service \cup {None}
  BY DEF Catalogues
<1> QED
  BY <1>1, WithIs DEF Backed

LEMMA WithoutBacked ==
  ASSUME NEW cfg \in Catalogues, NEW n \in Service, Backed(cfg)
  PROVE Backed(Without_(cfg, n))
<1>1. cfg.default \in Service \cup {None}
  BY DEF Catalogues
<1> QED
  BY <1>1, WithoutIs DEF Backed

LEMMA EditedBacked ==
  ASSUME NEW cfg \in Catalogues, NEW e \in EditorType, e.as \in Service, e.definition # NoDefinition,
         Backed(cfg), ~(e.name \notin {None, e.as} /\ cfg.default = e.name /\ ~e.isDefault)
  PROVE Backed(Edited(cfg, e))
<1>1. cfg.default \in Service \cup {None}
  BY DEF Catalogues
<1>2. e.isDefault \in BOOLEAN
  BY DEF EditorType
<1>3. CASE e.isDefault
  BY <1>3, EditedIs DEF Backed
<1>4. CASE ~e.isDefault
  BY <1>1, <1>4, EditedIs DEF Backed
<1> QED
  BY <1>2, <1>3, <1>4

----------------------------------------------------------------------------
(* The steps of the page and of the terminal.                              *)

LEMMA CatalogueInit == CInit => CInv
<1> SUFFICES ASSUME CInit PROVE CInv
  OBVIOUS
<1>1. 0 \in 0..MaxEdit /\ edits \in 0..MaxEdit /\ NoDefinition = 0
  BY CatalogueAssumption DEF CInit, NoDefinition
<1>2. Empty \in Catalogues /\ Empty.default = None /\ Empty.services = [n \in Service |-> 0]
  BY <1>1 DEF Empty, Catalogues
<1> DEFINE w == [n \in Service |-> edits]
<1>3. view \in Catalogues /\ view.services = w /\ view.default = None /\ w \in [Service -> 0..MaxEdit]
  BY <1>1, <1>2 DEF CInit, Empty, Catalogues
<1>4. llm = [services |-> w, default |-> None, readable |-> TRUE]
  BY <1>3 DEF CInit, File_
<1>5. promised = w /\ puts = {} /\ prompt = Closed /\ behind = {} /\ outrun = FALSE
  BY <1>3 DEF CInit
<1> HIDE DEF w
<1>6. CatalogueTyped
  <2>1. llm \in [services : [Service -> 0..MaxEdit], default : Service \cup {None}, readable : BOOLEAN]
    BY <1>3, <1>4
  <2>2. view \in Catalogues /\ promised \in [Service -> 0..MaxEdit] /\ typed \in [Service -> 0..MaxEdit]
    BY <1>1, <1>2, <1>3, <1>5 DEF CInit
  <2>3. editor \in {Closed} \cup EditorType /\ prompt \in {Closed} \cup Catalogues /\ puts \subseteq PutType
    BY DEF CInit
  <2>4. behind \subseteq {"page", "terminal"} /\ outrun \in BOOLEAN /\ looseRename \in BOOLEAN
    BY DEF CInit
  <2> QED
    BY <1>1, <2>1, <2>2, <2>3, <2>4 DEF CatalogueTyped
<1>7. AllBacked
  BY <1>3, <1>4, <1>5 DEF AllBacked, Backed
<1> QED
  BY <1>3, <1>4, <1>5, <1>6, <1>7 DEF CInv, InStep, SavedStays, AsKnown

(* The records are what they are to be, as long as nobody was outrun. *)
Histories == [Service -> 0..MaxEdit]
RecordsTyped ==
  /\ promised \in Histories /\ typed \in Histories
  /\ behind \subseteq {"page", "terminal"} /\ outrun \in BOOLEAN

LEMMA RecordedIs ==
  ASSUME NEW out \in BOOLEAN, NEW ps \in Histories, NEW ts \in Histories,
         NEW late \in SUBSET {"page", "terminal"}, Recorded(out, ps, ts, late)
  PROVE  /\ RecordsTyped' /\ outrun' = out
         /\ ~out => promised' = ps /\ typed' = ts /\ behind' = late
<1>1. Empty.services \in Histories
  BY CatalogueAssumption DEF Empty, NoDefinition, Histories
<1> QED
  BY <1>1 DEF Recorded, RecordsTyped

LEMMA RecordsAre ==
  ASSUME CInv
  PROVE  /\ promised \in Histories /\ typed \in Histories /\ outrun \in BOOLEAN
         /\ behind \in SUBSET {"page", "terminal"} /\ NoDefinition \in 0..MaxEdit
BY CatalogueAssumption DEF CInv, CatalogueTyped, Histories, NoDefinition

LEMMA SendKeeps ==
  ASSUME CInv, NEW cfg \in Catalogues, NEW s \in SUBSET Service, NEW r \in SUBSET Service,
         NEW b \in BOOLEAN, Send(cfg, s, r, b), s \cap r = {},
         \A n \in r : cfg.services[n] = NoDefinition,
         \A n \in Service \ (s \cup r) : cfg.services[n] = view.services[n],
         edits' \in 0..MaxEdit, looseRename' \in BOOLEAN, looseRename => looseRename',
         ~looseRename' => Backed(cfg)
  PROVE CInv'
<1> DEFINE p == [cfg |-> cfg, keeps |-> cfg, form |-> b, stage |-> "sent",
                 stored |-> s, removed |-> r, closes |-> b]
<1>1. p \in PutType /\ p.cfg = cfg /\ p.keeps = cfg /\ p.stage = "sent" /\ p.stored = s /\ p.removed = r
  BY DEF PutType
<1>2. /\ puts' = puts \cup {p} /\ outrun' = (outrun \/ "page" \in behind \/ puts # {})
      /\ UNCHANGED <<llm, view, editor, prompt>>
      /\ RecordsTyped' /\ (~outrun' => UNCHANGED <<promised, typed, behind>>)
  BY RecordsAre, RecordedIs DEF Send
<1> HIDE DEF p
<1>3. CatalogueTyped'
  BY <1>1, <1>2 DEF CInv, CatalogueTyped, RecordsTyped, Histories
<1>4. AllBacked'
  BY <1>1, <1>2 DEF CInv, AllBacked, Backed
<1>5. SavedStays'
  BY <1>1, <1>2 DEF CInv, SavedStays
<1>6. ASSUME ~outrun' PROVE InStep'
  <2>1. puts' = {p} /\ "page" \notin behind' /\ InStep /\ \A n \in Service : AsKnown(view, n)
    BY <1>2, <1>6 DEF CInv, InStep
  <2>2. Content' = Content
    BY <1>2 DEF Content
  <2>3. \A n \in Service : AsKnown(view, n)'
    BY <1>6, <1>2, <2>1 DEF AsKnown
  <2>4. \A n \in Service \ (s \cup r) : AsKnown(p.cfg, n)'
    BY <1>6, <1>1, <1>2, <2>1 DEF AsKnown
  <2>5. prompt' # Closed /\ "terminal" \notin behind' => prompt' = Content'
    BY <1>6, <1>2, <2>1, <2>2 DEF InStep
  <2> QED
    BY <1>1, <2>1, <2>3, <2>4, <2>5 DEF InStep, KeptBut
<1> QED
  BY <1>3, <1>4, <1>5, <1>6 DEF CInv

(* A request goes on being the same, but for what the page will keep of     *)
(* the services that it stores.                                            *)
Continues(p, q) ==
  /\ q \in PutType /\ q.cfg = p.cfg /\ q.stage = p.stage /\ q.stored = p.stored /\ q.removed = p.removed
  /\ KeptBut(q.keeps, p.keeps, p.stored)
  /\ Backed(p.keeps) => Backed(q.keeps)

(* A step that touches neither file nor copies, and no request but so. *)
LEMMA RequestsKeep ==
  ASSUME CInv, editor' \in {Closed} \cup EditorType, edits' \in 0..MaxEdit,
         \A q \in puts' : \E p \in puts : Continues(p, q),
         \A p \in puts : \E q \in puts' : Continues(p, q),
         (\A p, q \in puts : p = q) => \A p, q \in puts' : p = q,
         UNCHANGED <<llm, view, prompt, promised, typed, behind, outrun, looseRename>>
  PROVE CInv'
<1>1. CatalogueTyped'
  BY DEF CInv, CatalogueTyped, Continues
<1>2. AllBacked'
  <2>1. ~looseRename => \A q \in puts' : Backed(q.cfg) /\ Backed(q.keeps)
    BY DEF CInv, AllBacked, Continues
  <2> QED
    BY <2>1 DEF CInv, AllBacked, Backed
<1>3. SavedStays'
  BY DEF CInv, SavedStays, Continues
<1>4. ASSUME ~outrun' PROVE InStep'
  <2>1. InStep /\ Content' = Content /\ (puts' = {} => puts = {})
    BY <1>4 DEF CInv, Content
  <2>2. \A p, q \in puts' : p = q
    BY <2>1 DEF InStep
  <2>3. "page" \notin behind' /\ puts' = {} => \A n \in Service : AsKnown(view, n)'
    BY <2>1 DEF InStep, AsKnown
  <2>4. prompt' # Closed /\ "terminal" \notin behind' => prompt' = Content'
    BY <2>1 DEF InStep
  <2>5. ASSUME NEW q \in puts'
        PROVE /\ q.stored \cap q.removed = {}
              /\ \A n \in q.removed : q.cfg.services[n] = NoDefinition
              /\ KeptBut(q.keeps, q.cfg, q.stored)
              /\ q.stage = "landed" => q.cfg = Content'
              /\ q.stage # "landed" =>
                   /\ "page" \notin behind' /\ \A n \in Service : AsKnown(view, n)'
                   /\ \A n \in Service \ (q.stored \cup q.removed) : AsKnown(q.cfg, n)'
    <3>1. PICK p \in puts : Continues(p, q)
      BY <2>5
    <3>2. /\ q.cfg = p.cfg /\ q.stage = p.stage /\ q.stored = p.stored /\ q.removed = p.removed
          /\ KeptBut(q.keeps, p.keeps, p.stored)
      BY <3>1 DEF Continues
    <3>3. q.stage # "landed" =>
            /\ "page" \notin behind' /\ \A n \in Service : AsKnown(view, n)'
            /\ \A n \in Service \ (q.stored \cup q.removed) : AsKnown(q.cfg, n)'
      BY <2>1, <3>2 DEF InStep, AsKnown
    <3>4. KeptBut(p.keeps, p.cfg, p.stored)
      BY <2>1 DEF InStep
    <3>5. KeptBut(q.keeps, q.cfg, q.stored)
      BY <3>2, <3>4 DEF KeptBut
    <3> QED
      BY <2>1, <3>2, <3>3, <3>5 DEF InStep
  <2> QED
    BY <2>2, <2>3, <2>4, <2>5 DEF InStep
<1> QED
  BY <1>1, <1>2, <1>3, <1>4 DEF CInv

(* A step that touches no request either. *)
LEMMA AsideKeeps ==
  ASSUME CInv, editor' \in {Closed} \cup EditorType, edits' \in 0..MaxEdit,
         UNCHANGED <<llm, view, puts, prompt, promised, typed, behind, outrun, looseRename>>
  PROVE CInv'
<1>1. \A p \in puts : Continues(p, p)
  BY DEF Continues, KeptBut, CInv, CatalogueTyped
<1> QED
  BY <1>1, RequestsKeep

(* The editor is left, or typed into. *)
LEMMA LeftAre ==
  ASSUME NEW ps \in SUBSET PutType
  PROVE /\ \A q \in Left(ps) : \E p \in ps : Continues(p, q) /\ q.keeps = p.keeps
        /\ \A p \in ps : \E q \in Left(ps) : Continues(p, q)
        /\ (\A p, q \in ps : p = q) => \A p, q \in Left(ps) : p = q
<1>1. \A p \in ps : Continues(p, [p EXCEPT !.form = FALSE]) /\ [p EXCEPT !.form = FALSE].keeps = p.keeps
  BY DEF Continues, KeptBut, PutType
<1> QED
  BY <1>1 DEF Left

LEMMA TypedIntoIs ==
  ASSUME NEW p \in PutType, NEW d \in 0..MaxEdit, d # NoDefinition
  PROVE Continues(p, TypedInto(p, d))
<1> DEFINE q == TypedInto(p, d)
           f == [n \in Service |-> IF p.form /\ n \in p.stored THEN d ELSE p.keeps.services[n]]
<1>1. p.keeps \in Catalogues /\ p.keeps.services \in [Service -> 0..MaxEdit] /\ p.keeps.default \in Service \cup {None}
  BY DEF PutType, Catalogues
<1>2. f \in [Service -> 0..MaxEdit]
  BY <1>1
<1>3. q = [p EXCEPT !.keeps = [p.keeps EXCEPT !.services = f]]
  BY <1>1 DEF TypedInto, PutType
<1>4. [p.keeps EXCEPT !.services = f] \in Catalogues
  BY <1>1, <1>2 DEF Catalogues
<1>5. [p.keeps EXCEPT !.services = f].services = f /\ [p.keeps EXCEPT !.services = f].default = p.keeps.default
  BY <1>1 DEF Catalogues
<1> DEFINE k == [p.keeps EXCEPT !.services = f]
<1> HIDE DEF k
<1>6. q = [p EXCEPT !.keeps = k] /\ k \in Catalogues /\ k.services = f /\ k.default = p.keeps.default
  BY <1>3, <1>4, <1>5 DEF k
<1>7. /\ q \in PutType /\ q.keeps = k
      /\ q.cfg = p.cfg /\ q.stage = p.stage /\ q.stored = p.stored /\ q.removed = p.removed
  BY <1>6 DEF PutType
<1>8. Backed(p.keeps) => Backed(q.keeps)
  BY <1>1, <1>6, <1>7 DEF Backed
<1> QED
  BY <1>6, <1>7, <1>8 DEF Continues, KeptBut

LEMMA LandKeeps ==
  ASSUME CInv, NEW p \in puts, Land(p)
  PROVE CInv'
<1> DEFINE q == [p EXCEPT !.stage = "landed"]
<1>1. /\ p \in PutType /\ p.cfg \in Catalogues
      /\ q \in PutType /\ q.cfg = p.cfg /\ q.keeps = p.keeps /\ q.stage = "landed"
      /\ q.stored = p.stored /\ q.removed = p.removed
  BY DEF CInv, CatalogueTyped, PutType
<1>2. /\ p.stage = "sent" /\ llm' = File_(p.cfg) /\ puts' = (puts \ {p}) \cup {q}
      /\ UNCHANGED <<view, editor, prompt, edits, outrun, looseRename>>
      /\ RecordsTyped'
      /\ ~outrun' => /\ behind' = IF prompt = Closed THEN behind ELSE behind \cup {"terminal"}
                     /\ UNCHANGED <<promised, typed>>
  <2>1. (IF prompt = Closed THEN behind ELSE behind \cup {"terminal"}) \in SUBSET {"page", "terminal"}
    BY RecordsAre
  <2> QED
    BY <2>1, RecordsAre, RecordedIs DEF Land
<1> HIDE DEF q
<1>3. /\ llm'.services = p.cfg.services /\ llm'.default = p.cfg.default
      /\ llm' \in [services : [Service -> 0..MaxEdit], default : Service \cup {None}, readable : BOOLEAN]
  BY <1>1, <1>2 DEF File_, Catalogues
<1>4. Content' = p.cfg
  BY <1>1, <1>3 DEF Content, Catalogues
<1>5. CatalogueTyped'
  BY <1>1, <1>2, <1>3 DEF CInv, CatalogueTyped, RecordsTyped, Histories
<1>6. AllBacked'
  BY <1>1, <1>2, <1>3 DEF CInv, AllBacked, Backed
<1>7. ASSUME ~outrun' PROVE InStep' /\ SavedStays'
  <2>1. InStep /\ SavedStays /\ ~outrun
    BY <1>2, <1>7 DEF CInv
  <2>2. puts' = {q}
    BY <1>2, <2>1 DEF InStep
  <2>3. /\ "page" \notin behind /\ \A n \in p.removed : p.cfg.services[n] = NoDefinition
        /\ p.stored \cap p.removed = {}
        /\ KeptBut(p.keeps, p.cfg, p.stored)
    BY <1>2, <2>1 DEF InStep
  <2>4. prompt' # Closed => "terminal" \in behind'
    BY <1>2, <1>7
  <2>5. InStep'
    BY <1>1, <1>2, <1>4, <1>7, <2>2, <2>3, <2>4 DEF InStep
  <2>6. ASSUME NEW n \in Service
        PROVE \/ promised'[n] = llm'.services[n]
              \/ typed'[n] # NoDefinition /\ llm'.services[n] = typed'[n]
              \/ \E x \in puts' : x.stage = "landed" /\ n \in x.stored \cup x.removed
    <3>1. CASE n \in p.stored \cup p.removed
      BY <1>1, <2>2, <3>1
    <3>2. CASE n \notin p.stored \cup p.removed
      <4>1. AsKnown(p.cfg, n)
        BY <1>2, <2>1, <3>2 DEF InStep
      <4>2. \/ promised[n] = llm.services[n]
            \/ typed[n] # NoDefinition /\ llm.services[n] = typed[n]
            \/ \E x \in puts : x.stage = "landed" /\ n \in x.stored \cup x.removed
        BY <2>1 DEF SavedStays
      <4>3. \A x \in puts : x = p
        BY <2>1 DEF InStep
      <4> QED
        BY <1>2, <1>3, <1>7, <4>1, <4>2, <4>3 DEF AsKnown
    <3> QED
      BY <3>1, <3>2
  <2> QED
    BY <2>5, <2>6 DEF SavedStays
<1>8. outrun' => SavedStays'
  BY DEF SavedStays
<1> QED
  BY <1>5, <1>6, <1>7, <1>8 DEF CInv

(* Once somebody was outrun, only the default is still of interest. *)
LEMMA LandCutShortKeeps ==
  ASSUME CInv, NEW p \in puts, LandCutShort(p)
  PROVE CInv'
<1> DEFINE q == [p EXCEPT !.stage = "failed"]
<1>1. /\ p \in PutType /\ p.cfg \in Catalogues
      /\ q \in PutType /\ q.cfg = p.cfg /\ q.keeps = p.keeps
  BY DEF CInv, CatalogueTyped, PutType
<1>2. /\ llm' = CutShort(p.cfg) /\ puts' = (puts \ {p}) \cup {q} /\ outrun' = TRUE
      /\ UNCHANGED <<view, editor, prompt, edits, looseRename>> /\ RecordsTyped'
  BY RecordsAre, RecordedIs DEF LandCutShort
<1> HIDE DEF q
<1>3. /\ llm'.services = p.cfg.services /\ llm'.default = p.cfg.default
      /\ llm' \in [services : [Service -> 0..MaxEdit], default : Service \cup {None}, readable : BOOLEAN]
  BY <1>1, <1>2 DEF CutShort, File_, Catalogues
<1>4. CatalogueTyped'
  BY <1>1, <1>2, <1>3 DEF CInv, CatalogueTyped, RecordsTyped, Histories
<1>5. AllBacked'
  BY <1>1, <1>2, <1>3 DEF CInv, AllBacked, Backed
<1> QED
  BY <1>2, <1>4, <1>5 DEF CInv, SavedStays

LEMMA FailToLandKeeps ==
  ASSUME CInv, NEW p \in puts, FailToLand(p)
  PROVE CInv'
<1> DEFINE q == [p EXCEPT !.stage = "failed"]
<1>1. /\ p \in PutType
      /\ q \in PutType /\ q.cfg = p.cfg /\ q.keeps = p.keeps /\ q.stage = "failed"
      /\ q.stored = p.stored /\ q.removed = p.removed
  BY DEF CInv, CatalogueTyped, PutType
<1>2. /\ p.stage = "sent" /\ puts' = (puts \ {p}) \cup {q}
      /\ UNCHANGED <<llm, view, editor, prompt, edits, promised, typed, behind, outrun, looseRename>>
  BY DEF FailToLand
<1> HIDE DEF q
<1>3. CatalogueTyped'
  BY <1>1, <1>2 DEF CInv, CatalogueTyped
<1>4. AllBacked'
  BY <1>1, <1>2 DEF CInv, AllBacked, Backed
<1>5. ASSUME ~outrun PROVE InStep' /\ SavedStays'
  <2>1. InStep /\ SavedStays /\ puts' = {q} /\ puts = {p} /\ Content' = Content
    BY <1>2, <1>5 DEF CInv, InStep, Content
  <2>2. InStep'
    BY <1>1, <1>2, <2>1 DEF InStep, AsKnown
  <2>3. SavedStays'
    BY <1>2, <2>1 DEF SavedStays
  <2> QED
    BY <2>2, <2>3
<1>6. outrun' => SavedStays'
  BY DEF SavedStays
<1> QED
  BY <1>2, <1>3, <1>4, <1>5, <1>6 DEF CInv

LEMMA AnsweredKeeps ==
  ASSUME CInv, NEW p \in puts, Answered(p)
  PROVE CInv'
<1>1. p \in PutType /\ p.cfg \in Catalogues /\ p.keeps \in Catalogues
  BY DEF CInv, CatalogueTyped, PutType
<1>2. /\ p.stage = "landed" /\ puts' \in {puts \ {p}, Left(puts \ {p})} /\ view' = p.keeps
      /\ editor' \in {Closed, editor} /\ Recorded(outrun, Promised(p), TypedSince(p), behind)
      /\ UNCHANGED <<llm, prompt, edits, looseRename>>
  BY DEF Answered
<1>3. p.cfg.services \in [Service -> 0..MaxEdit] /\ p.keeps.services \in [Service -> 0..MaxEdit]
      /\ NoDefinition \in 0..MaxEdit
  BY <1>1, CatalogueAssumption DEF Catalogues, NoDefinition
<1>4. /\ Promised(p) \in Histories
      /\ \A n \in Service : Promised(p)[n] =
           IF n \in p.removed THEN NoDefinition ELSE IF n \in p.stored THEN p.cfg.services[n] ELSE promised[n]
  <2>1. promised \in [Service -> 0..MaxEdit]
    BY DEF CInv, CatalogueTyped
  <2> QED
    BY <1>3, <2>1 DEF Promised, Histories
<1>5. /\ TypedSince(p) \in Histories
      /\ \A n \in Service : TypedSince(p)[n] =
           IF n \in p.removed \/ (n \in p.stored /\ p.keeps.services[n] = p.cfg.services[n]) THEN NoDefinition
           ELSE IF n \in p.stored THEN p.keeps.services[n] ELSE typed[n]
  <2>1. typed \in [Service -> 0..MaxEdit]
    BY DEF CInv, CatalogueTyped
  <2> QED
    BY <1>3, <2>1 DEF TypedSince, Histories
<1>11. /\ RecordsTyped' /\ outrun' = outrun
       /\ ~outrun => promised' = Promised(p) /\ typed' = TypedSince(p) /\ behind' = behind
  BY <1>2, <1>4, <1>5, RecordsAre, RecordedIs
<1>6. \A q \in puts' : \E x \in puts : q \in PutType /\ q.cfg = x.cfg /\ q.keeps = x.keeps
  <2>1. puts \ {p} \in SUBSET PutType
    BY DEF CInv, CatalogueTyped
  <2> QED
    BY <1>2, <2>1, LeftAre DEF Continues
<1>7. CatalogueTyped'
  BY <1>1, <1>2, <1>6, <1>11 DEF CInv, CatalogueTyped, RecordsTyped, Histories
<1>8. AllBacked'
  <2>1. ~looseRename => \A q \in puts' : Backed(q.cfg) /\ Backed(q.keeps)
    BY <1>6 DEF CInv, AllBacked
  <2>2. Backed(llm) = Backed(llm)' /\ (prompt # Closed => Backed(prompt) = Backed(prompt)')
    BY <1>2 DEF Backed
  <2>3. ~looseRename => Backed(view')
    BY <1>2 DEF CInv, AllBacked
  <2> QED
    BY <1>2, <1>11, <2>1, <2>2, <2>3 DEF CInv, AllBacked, Backed
<1>9. ASSUME ~outrun PROVE InStep' /\ SavedStays'
  <2>1. InStep /\ SavedStays /\ puts \ {p} = {} /\ puts = {p} /\ Content' = Content /\ p.cfg = Content
    BY <1>2, <1>9 DEF CInv, InStep, Content
  <2>2. puts' = {}
    BY <1>2, <2>1 DEF Left
  <2>3. /\ p.cfg.services = llm.services
        /\ p.stored \cap p.removed = {} /\ \A n \in p.removed : p.cfg.services[n] = NoDefinition
        /\ KeptBut(p.keeps, p.cfg, p.stored)
    BY <2>1 DEF Content, InStep
  <2>4. ASSUME NEW n \in Service PROVE AsKnown(view, n)'
    <3>1. CASE p.keeps.services[n] # p.cfg.services[n]
      <4>1. n \in p.stored /\ p.keeps.services[n] # NoDefinition
        BY <2>3, <3>1 DEF KeptBut
      <4>2. typed'[n] = p.keeps.services[n]
        BY <1>5, <1>9, <1>11, <2>3, <3>1, <4>1
      <4> QED
        BY <1>2, <4>1, <4>2 DEF AsKnown
    <3>2. CASE p.keeps.services[n] = p.cfg.services[n]
      BY <1>2, <2>3, <3>2 DEF AsKnown
    <3> QED
      BY <3>1, <3>2
  <2>5. InStep'
    BY <1>2, <1>9, <1>11, <2>1, <2>2, <2>4 DEF InStep
  <2>6. ASSUME NEW n \in Service
        PROVE promised'[n] = llm'.services[n] \/ (typed'[n] # NoDefinition /\ llm'.services[n] = typed'[n])
    <3>1. CASE n \in p.stored \cup p.removed
      BY <1>2, <1>4, <1>9, <1>11, <2>3, <3>1
    <3>2. CASE n \notin p.stored \cup p.removed
      <4>1. \/ promised[n] = llm.services[n]
            \/ typed[n] # NoDefinition /\ llm.services[n] = typed[n]
        BY <1>9, <2>1, <3>2 DEF SavedStays
      <4>2. promised'[n] = promised[n] /\ typed'[n] = typed[n] /\ llm' = llm
        BY <1>2, <1>4, <1>5, <1>9, <1>11, <3>2
      <4> QED
        BY <4>1, <4>2
    <3> QED
      BY <3>1, <3>2
  <2> QED
    BY <2>5, <2>6 DEF SavedStays
<1>10. outrun' => SavedStays'
  BY DEF SavedStays
<1> QED
  BY <1>11, <1>7, <1>8, <1>9, <1>10 DEF CInv

LEMMA UnansweredKeeps ==
  ASSUME CInv, NEW p \in puts, Unanswered(p)
  PROVE CInv'
<1>1. /\ p.stage # "sent" /\ puts' = puts \ {p}
      /\ outrun' = (outrun \/ p.stage = "landed")
      /\ UNCHANGED <<llm, view, editor, prompt, edits, looseRename>>
      /\ RecordsTyped' /\ (~outrun' => UNCHANGED <<promised, typed, behind>>)
  BY RecordsAre, RecordedIs DEF Unanswered
<1>2. CatalogueTyped'
  BY <1>1 DEF CInv, CatalogueTyped, RecordsTyped, Histories
<1>3. AllBacked'
  BY <1>1 DEF CInv, AllBacked, Backed
<1>4. ASSUME ~outrun' PROVE InStep' /\ SavedStays'
  <2>1. /\ InStep /\ SavedStays /\ ~outrun /\ p.stage # "landed" /\ puts' = {} /\ puts = {p}
        /\ behind' = behind /\ Content' = Content
    BY <1>1, <1>4 DEF CInv, InStep, Content
  <2>2. InStep'
    BY <1>1, <2>1 DEF InStep, AsKnown
  <2>3. SavedStays'
    BY <1>1, <2>1 DEF SavedStays
  <2> QED
    BY <2>2, <2>3
<1>5. outrun' => SavedStays'
  BY DEF SavedStays
<1> QED
  BY <1>2, <1>3, <1>4, <1>5 DEF CInv

LEMMA PromptWritesKeeps ==
  ASSUME CInv, NEW cfg \in Catalogues, NEW n \in Service, NEW d \in 0..MaxEdit, NEW whole \in BOOLEAN,
         PromptWrites(cfg, n, d, whole), prompt # Closed,
         cfg.services[n] = d, \A m \in Service \ {n} : cfg.services[m] = prompt.services[m],
         Backed(prompt) => Backed(cfg), edits' \in 0..MaxEdit
  PROVE CInv'
<1>1. /\ llm' = (IF whole THEN File_(cfg) ELSE CutShort(cfg)) /\ prompt' = Closed
      /\ outrun' = (outrun \/ "terminal" \in behind \/ puts # {} \/ ~whole)
      /\ UNCHANGED <<view, editor, puts, looseRename>>
      /\ RecordsTyped'
      /\ ~outrun' => /\ promised' = [promised EXCEPT ![n] = d] /\ typed' = [typed EXCEPT ![n] = NoDefinition]
                     /\ behind' = behind \cup {"page"}
  <2>1. /\ [promised EXCEPT ![n] = d] \in Histories /\ [typed EXCEPT ![n] = NoDefinition] \in Histories
        /\ behind \cup {"page"} \in SUBSET {"page", "terminal"}
        /\ (outrun \/ "terminal" \in behind \/ puts # {} \/ ~whole) \in BOOLEAN
    BY RecordsAre DEF Histories
  <2> QED
    BY <2>1, RecordedIs DEF PromptWrites
<1>2. /\ llm'.services = cfg.services /\ llm'.default = cfg.default
      /\ llm' \in [services : [Service -> 0..MaxEdit], default : Service \cup {None}, readable : BOOLEAN]
  BY <1>1 DEF File_, CutShort, Catalogues
<1>3. CatalogueTyped'
  BY <1>1, <1>2 DEF CInv, CatalogueTyped, RecordsTyped, Histories
<1>4. AllBacked'
  BY <1>1, <1>2 DEF CInv, AllBacked, Backed
<1>5. ASSUME ~outrun' PROVE InStep' /\ SavedStays'
  <2>1. InStep /\ SavedStays /\ ~outrun /\ whole /\ puts = {} /\ puts' = {} /\ "page" \in behind'
    BY <1>1, <1>5 DEF CInv
  <2>2. prompt = Content
    BY <1>1, <1>5, <2>1 DEF InStep
  <2>3. InStep'
    BY <1>1, <1>5, <2>1 DEF InStep
  <2>4. prompt.services = llm.services
    BY <2>2 DEF Content
  <2>5. ASSUME NEW m \in Service
        PROVE promised'[m] = llm'.services[m] \/ (typed'[m] # NoDefinition /\ llm'.services[m] = typed'[m])
    <3>1. promised \in [Service -> 0..MaxEdit] /\ typed \in [Service -> 0..MaxEdit]
      BY DEF CInv, CatalogueTyped
    <3>2. promised[m] = llm.services[m] \/ (typed[m] # NoDefinition /\ llm.services[m] = typed[m])
      BY <2>1 DEF SavedStays
    <3> QED
      BY <1>1, <1>2, <1>5, <2>1, <2>4, <3>1, <3>2
  <2> QED
    BY <2>3, <2>5 DEF SavedStays
<1>6. outrun' => SavedStays'
  BY DEF SavedStays
<1> QED
  BY <1>3, <1>4, <1>5, <1>6 DEF CInv

LEMMA CatalogueStep ==
  ASSUME CInv, [CNext]_cvars
  PROVE CInv'
<1>0. CatalogueTyped /\ MaxEdit \in Nat /\ None \notin Service
  BY CatalogueAssumption DEF CInv
<1>1. CASE UNCHANGED cvars
  BY <1>0, <1>1, AsideKeeps DEF cvars, CatalogueTyped
<1>2. CASE PageLoads
  <2>1. /\ puts = {} /\ view' = (IF llm.readable THEN Content ELSE Empty)
        /\ editor' = Closed
        /\ UNCHANGED <<llm, puts, prompt, edits, outrun, looseRename>>
        /\ RecordsTyped'
        /\ ~outrun' => /\ behind' = (IF llm.readable THEN behind \ {"page"} ELSE behind \cup {"page"})
                       /\ UNCHANGED <<promised, typed>>
    <3>1. (IF llm.readable THEN behind \ {"page"} ELSE behind \cup {"page"}) \in SUBSET {"page", "terminal"}
      BY RecordsAre
    <3> QED
      BY <1>2, <3>1, RecordsAre, RecordedIs DEF PageLoads
  <2>2. Content \in Catalogues /\ Content.default = llm.default /\ Content.services = llm.services
    BY <1>0 DEF CatalogueTyped, Content, Catalogues
  <2>3. Empty \in Catalogues /\ Empty.default = None
    BY <1>0 DEF Empty, Catalogues, NoDefinition
  <2>4. CatalogueTyped'
    BY <1>0, <2>1, <2>2, <2>3 DEF CatalogueTyped, RecordsTyped, Histories
  <2>5. AllBacked'
    BY <2>1, <2>2, <2>3 DEF CInv, AllBacked, Backed
  <2>6. ~outrun => InStep'
    BY <2>1, <2>2 DEF CInv, InStep, AsKnown, Content
  <2>7. SavedStays'
    BY <2>1 DEF CInv, SavedStays
  <2> QED
    BY <2>1, <2>4, <2>5, <2>6, <2>7 DEF CInv
<1>3. CASE Cancel
  <2>1. editor' = Closed /\ puts' = Left(puts) /\ puts \in SUBSET PutType /\ edits' \in 0..MaxEdit
        /\ UNCHANGED <<llm, view, prompt, promised, typed, behind, outrun, looseRename>>
    BY <1>0, <1>3 DEF Cancel, CatalogueTyped
  <2> QED
    BY <2>1, LeftAre, RequestsKeep
<1>4. CASE SaveService
  <2>1. editor \in EditorType /\ editor.as \in Service /\ editor.definition # NoDefinition
    BY <1>0, <1>4 DEF SaveService, CatalogueTyped, EditorType
  <2> DEFINE renamed == editor.name \notin {None, editor.as}
  <2> DEFINE r == {n \in Service : renamed /\ n = editor.name}
  <2>2. /\ Send(Edited(view, editor), {editor.as}, r, TRUE) /\ edits' = edits
        /\ looseRename' = (looseRename \/ (renamed /\ view.default = editor.name /\ ~editor.isDefault))
    BY <1>4 DEF SaveService
  <2>3. view \in Catalogues
    BY <1>0 DEF CatalogueTyped
  <2>4. Edited(view, editor) \in Catalogues
    BY <2>1, <2>3, EditedIs
  <2>5. \A n \in r : Edited(view, editor).services[n] = NoDefinition
    BY <2>1, <2>3, EditedIs
  <2>6. \A n \in Service \ ({editor.as} \cup r) : Edited(view, editor).services[n] = view.services[n]
    <3>1. \A n \in Service \ ({editor.as} \cup r) : n # editor.as /\ n # editor.name
      BY <1>0
    <3> QED
      BY <2>1, <2>3, <3>1, EditedIs
  <2>7. ~looseRename' => Backed(Edited(view, editor))
    BY <2>1, <2>2, <2>3, EditedBacked DEF CInv, AllBacked
  <2>8. edits' \in 0..MaxEdit /\ looseRename' \in BOOLEAN /\ (looseRename => looseRename')
    BY <1>0, <2>2 DEF CatalogueTyped
  <2>9. {editor.as} \in SUBSET Service /\ r \in SUBSET Service /\ {editor.as} \cap r = {} /\ TRUE \in BOOLEAN
    BY <2>1
  <2> HIDE DEF r
  <2> QED
    BY <2>2, <2>4, <2>5, <2>6, <2>7, <2>8, <2>9, SendKeeps
<1>5. CASE DeleteService
  <2>1. editor \in EditorType /\ editor.name \in Service
    BY <1>0, <1>5 DEF DeleteService, CatalogueTyped, EditorType
  <2>2. Send(Without_(view, editor.name), {}, {editor.name}, TRUE) /\ UNCHANGED <<edits, looseRename>>
    BY <1>5 DEF DeleteService
  <2>3. view \in Catalogues /\ edits' \in 0..MaxEdit /\ looseRename' \in BOOLEAN /\ looseRename' = looseRename
    BY <1>0, <2>2 DEF CatalogueTyped
  <2>4. Without_(view, editor.name) \in Catalogues
    BY <2>1, <2>3, WithoutIs
  <2>5. /\ \A n \in {editor.name} : Without_(view, editor.name).services[n] = NoDefinition
        /\ \A n \in Service \ ({} \cup {editor.name}) :
             Without_(view, editor.name).services[n] = view.services[n]
    BY <2>1, <2>3, WithoutIs
  <2>6. ~looseRename' => Backed(Without_(view, editor.name))
    BY <2>1, <2>3, WithoutBacked DEF CInv, AllBacked
  <2>7. {} \in SUBSET Service /\ {editor.name} \in SUBSET Service /\ TRUE \in BOOLEAN
        /\ (looseRename => looseRename')
    BY <2>1, <2>3
  <2> DEFINE cfg == Without_(view, editor.name)
             r == {editor.name}
  <2> HIDE DEF cfg, r
  <2>8. /\ Send(cfg, {}, r, TRUE) /\ {} \cap r = {} /\ cfg \in Catalogues /\ r \in SUBSET Service
        /\ \A n \in r : cfg.services[n] = NoDefinition
        /\ \A n \in Service \ ({} \cup r) : cfg.services[n] = view.services[n]
        /\ ~looseRename' => Backed(cfg)
    BY <2>2, <2>4, <2>5, <2>6, <2>7 DEF cfg, r
  <2> QED
    BY <2>3, <2>7, <2>8, SendKeeps
<1>6. ASSUME NEW n \in Service \cup {None}, OpenEditor(n) PROVE CInv'
  <2>1. /\ n # None => Has(view, n)
        /\ editor' = [name |-> n, as |-> n, isDefault |-> n # None /\ view.default = n,
                      definition |-> IF n = None THEN NoDefinition ELSE view.services[n]]
        /\ puts' = Left(puts) /\ puts \in SUBSET PutType /\ edits' \in 0..MaxEdit
        /\ UNCHANGED <<llm, view, prompt, promised, typed, behind, outrun, looseRename>>
    BY <1>0, <1>6 DEF OpenEditor, CatalogueTyped
  <2>2. (IF n = None THEN NoDefinition ELSE view.services[n]) \in 0..MaxEdit
    BY <1>0 DEF CatalogueTyped, Catalogues, NoDefinition
  <2>3. editor' \in EditorType
    BY <2>1, <2>2 DEF EditorType
  <2> QED
    BY <2>1, <2>3, LeftAre, RequestsKeep
<1>7. ASSUME NEW n \in Service, NEW b \in BOOLEAN, Fill(n, b) PROVE CInv'
  <2>1. /\ editor # Closed /\ edits < MaxEdit /\ edits' = edits + 1
        /\ editor' = [editor EXCEPT !.as = n, !.isDefault = b, !.definition = edits + 1]
        /\ puts' = {TypedInto(p, edits + 1) : p \in puts}
        /\ UNCHANGED <<llm, view, prompt, promised, typed, behind, outrun, looseRename>>
    BY <1>7 DEF Fill
  <2>2. edits + 1 \in 0..MaxEdit /\ edits + 1 # NoDefinition /\ editor \in EditorType /\ puts \subseteq PutType
    BY <1>0, <2>1 DEF CatalogueTyped, NoDefinition
  <2>3. editor' \in EditorType
    BY <2>1, <2>2 DEF EditorType
  <2>4. \A p \in puts : Continues(p, TypedInto(p, edits + 1))
    BY <2>2, TypedIntoIs
  <2>5. edits' \in 0..MaxEdit
    BY <2>1, <2>2
  <2> QED
    BY <2>1, <2>3, <2>4, <2>5, RequestsKeep
<1>8. ASSUME NEW n \in Service, SetUpService(n) PROVE CInv'
  <2>1. edits < MaxEdit /\ edits' = edits + 1 /\ Send(With(view, n, edits + 1), {n}, {}, FALSE)
        /\ looseRename' = looseRename
    BY <1>8 DEF SetUpService
  <2>2. edits + 1 \in 0..MaxEdit /\ edits + 1 # NoDefinition /\ view \in Catalogues /\ looseRename' \in BOOLEAN
    BY <1>0, <2>1 DEF CatalogueTyped, NoDefinition
  <2>3. /\ With(view, n, edits + 1) \in Catalogues
        /\ \A m \in Service \ ({n} \cup {}) : With(view, n, edits + 1).services[m] = view.services[m]
    BY <2>2, WithIs
  <2>4. ~looseRename' => Backed(With(view, n, edits + 1))
    BY <2>1, <2>2, WithBacked DEF CInv, AllBacked
  <2>5. {} \in SUBSET Service /\ {n} \in SUBSET Service /\ FALSE \in BOOLEAN
        /\ {n} \cap {} = {} /\ \A m \in {} : With(view, n, edits + 1).services[m] = NoDefinition
    OBVIOUS
  <2> QED
    BY <2>1, <2>2, <2>3, <2>4, <2>5, SendKeeps, ZenonT(60)
<1>9. ASSUME NEW p \in puts, Land(p) \/ LandCutShort(p) \/ FailToLand(p) \/ Answered(p) \/ Unanswered(p)
      PROVE CInv'
  BY <1>9, LandKeeps, LandCutShortKeeps, FailToLandKeeps, AnsweredKeeps, UnansweredKeeps
<1>10. CASE PromptOpens \/ PromptDrops
  <2>1. /\ prompt' = Closed \/ (prompt' = Content /\ "terminal" \notin behind')
        /\ behind' \in {behind, behind \ {"terminal"}}
        /\ UNCHANGED <<llm, view, editor, puts, edits, promised, typed, outrun, looseRename>>
    BY <1>10 DEF PromptOpens, PromptDrops
  <2>2. Content \in Catalogues /\ Content.default = llm.default /\ Content.services = llm.services
    BY <1>0 DEF CatalogueTyped, Content, Catalogues
  <2>3. CatalogueTyped'
    BY <1>0, <2>1, <2>2 DEF CatalogueTyped
  <2>4. AllBacked'
    BY <2>1, <2>2 DEF CInv, AllBacked, Backed
  <2>5. ~outrun => InStep'
    BY <2>1 DEF CInv, InStep, AsKnown, Content
  <2>6. SavedStays'
    BY <2>1 DEF CInv, SavedStays
  <2> QED
    BY <2>1, <2>3, <2>4, <2>5, <2>6 DEF CInv
<1>11. ASSUME NEW n \in Service, NEW whole \in BOOLEAN, PromptSaves(n, whole) PROVE CInv'
  <2>1. prompt # Closed /\ edits < MaxEdit /\ edits' = edits + 1
        /\ PromptWrites(With(prompt, n, edits + 1), n, edits + 1, whole)
    BY <1>11 DEF PromptSaves
  <2>2. edits + 1 \in 0..MaxEdit /\ edits + 1 # NoDefinition /\ prompt \in Catalogues
    BY <1>0, <2>1 DEF CatalogueTyped, NoDefinition
  <2>3. /\ With(prompt, n, edits + 1) \in Catalogues
        /\ With(prompt, n, edits + 1).services[n] = edits + 1
        /\ \A m \in Service \ {n} : With(prompt, n, edits + 1).services[m] = prompt.services[m]
    BY <2>2, WithIs
  <2>4. Backed(prompt) => Backed(With(prompt, n, edits + 1))
    BY <2>2, WithBacked
  <2> QED
    BY <2>1, <2>2, <2>3, <2>4, PromptWritesKeeps
<1>12. ASSUME NEW n \in Service, NEW whole \in BOOLEAN, PromptDeletes(n, whole) PROVE CInv'
  <2>1. prompt # Closed /\ edits' = edits /\ PromptWrites(Without_(prompt, n), n, NoDefinition, whole)
    BY <1>12 DEF PromptDeletes
  <2>2. NoDefinition \in 0..MaxEdit /\ edits' \in 0..MaxEdit /\ prompt \in Catalogues
    BY <1>0, <2>1 DEF CatalogueTyped, NoDefinition
  <2>3. /\ Without_(prompt, n) \in Catalogues
        /\ Without_(prompt, n).services[n] = NoDefinition
        /\ \A m \in Service \ {n} : Without_(prompt, n).services[m] = prompt.services[m]
    BY <2>2, WithoutIs
  <2>4. Backed(prompt) => Backed(Without_(prompt, n))
    BY <2>2, WithoutBacked
  <2> QED
    BY <2>1, <2>2, <2>3, <2>4, PromptWritesKeeps
<1>13. CASE HandEdit
  <2>1. llm' = [llm EXCEPT !.readable = ~@]
        /\ UNCHANGED <<view, editor, puts, prompt, edits, promised, typed, behind, outrun, looseRename>>
    BY <1>13 DEF HandEdit
  <2>2. /\ llm'.services = llm.services /\ llm'.default = llm.default
        /\ llm' \in [services : [Service -> 0..MaxEdit], default : Service \cup {None}, readable : BOOLEAN]
    BY <1>0, <2>1 DEF CatalogueTyped
  <2>3. CatalogueTyped'
    BY <1>0, <2>1, <2>2 DEF CatalogueTyped
  <2>4. AllBacked'
    BY <2>1, <2>2 DEF CInv, AllBacked, Backed
  <2>5. ~outrun => InStep'
    BY <2>1, <2>2 DEF CInv, InStep, AsKnown, Content
  <2>6. SavedStays'
    BY <2>1, <2>2 DEF CInv, SavedStays
  <2> QED
    BY <2>1, <2>3, <2>4, <2>5, <2>6 DEF CInv
<1> QED
  BY <1>1, <1>2, <1>3, <1>4, <1>5, <1>6, <1>7, <1>8, <1>9, <1>10, <1>11, <1>12, <1>13
  DEF CNext, CataloguePage, CatalogueTerminal

(* The inductive invariant of the catalogue.                               *)
THEOREM CatalogueInvariant == CInit /\ [][CNext]_cvars => []CInv
<1>1. CInit => CInv
  BY CatalogueInit
<1>2. CInv /\ [CNext]_cvars => CInv'
  BY CatalogueStep
<1> QED
  BY <1>1, <1>2, PTL

----------------------------------------------------------------------------
(* The calls of the settings' editors: one goes on, one is made, one ends.  *)

SameCall(c, q) == q.n = c.n /\ q.by = c.by /\ q.for = c.for /\ q.does = c.does /\ q.doc = c.doc

LEMMA MarksAre == Absent = 0 /\ Shipped = 1 /\ Absent \in 0..MaxMark /\ Shipped \in 0..MaxMark
                  /\ MaxMark \in Nat /\ MaxCall \in Nat /\ MaxMark >= 1 /\ MaxCall >= 1
BY SettingsAssumption DEF Absent, Shipped

LEMMA MovedIs ==
  ASSUME NEW c \in Call, NEW at, at \in {"sent", "looked", "seeded", "landed", "failed"},
         NEW body, body \in 0..MaxMark, calls' = Moved(c, at, body)
  PROVE \E q \in Call : /\ calls' = (calls \ {c}) \cup {q}
                        /\ SameCall(c, q) /\ q.at = at /\ q.body = body
<1> DEFINE q == [c EXCEPT !.at = at, !.body = body]
<1>1. q \in Call /\ SameCall(c, q) /\ q.at = at /\ q.body = body
  BY DEF Call, SameCall
<1>2. calls' = (calls \ {c}) \cup {q}
  BY DEF Moved
<1> HIDE DEF q
<1> QED
  BY <1>1, <1>2

LEMMA CallFields ==
  ASSUME NEW c \in Call
  PROVE /\ c.n \in 1..MaxCall /\ c.by \in {"page", "terminal", "command"} /\ c.for \in {"itself", "new", "setup"}
        /\ c.does \in {"put", "delete", "create", "pin", "get", "restart"} /\ c.doc \in Doc \cup {Nowhere}
        /\ c.body \in 0..MaxMark /\ c.at \in {"sent", "looked", "seeded", "landed", "failed"}
        /\ c.unread \in BOOLEAN
BY DEF Call

(* One call goes on. *)
LEMMA MoveCounts ==
  ASSUME CallsOK, NEW c \in calls, NEW q, SameCall(c, q), calls' = (calls \ {c}) \cup {q},
         made' = made, raced' = raced, q.at \in {"looked", "seeded"} => q.does = "create"
  PROVE CallsOK'
<1>1. Changes(q) = Changes(c)
  BY DEF SameCall, Changes
<1>2. \A e \in calls' : \E b \in calls : SameCall(b, e) /\ (e = b \/ (e = q /\ b = c))
  BY DEF SameCall
<1>3. Numbered'
  <2>1. \A e \in calls' : e.n <= made'
    BY <1>2 DEF CallsOK, Numbered, SameCall
  <2>2. \A e, g \in calls' : e.n = g.n => e = g
    BY DEF CallsOK, Numbered, SameCall
  <2>3. \A e \in calls' : /\ e.doc = Nowhere <=> e.does = "restart"
                          /\ e.by = "terminal" => e.does # "restart"
                          /\ e.by = "command" <=> e.does = "pin"
    BY <1>2 DEF CallsOK, Numbered, SameCall
  <2>4. \A e, g \in calls' : Changes(e) /\ Changes(g) => (e = g \/ e.doc # g.doc \/ e.doc \in raced')
    <3>1. \A b, d \in calls : Changes(b) /\ Changes(d) => (b = d \/ b.doc # d.doc \/ b.doc \in raced)
      BY DEF CallsOK, Numbered, DifferOrRace
    <3> QED
      BY <1>1, <3>1 DEF SameCall
  <2> QED
    BY <2>1, <2>2, <2>3, <2>4 DEF Numbered, DifferOrRace, Changes
<1>4. Looked'
  BY DEF CallsOK, Looked
<1> QED
  BY <1>3, <1>4 DEF CallsOK

(* Calls end. *)
LEMMA EndCounts ==
  ASSUME CallsOK, calls' \subseteq calls, made' = made, raced' = raced
  PROVE CallsOK'
<1>1. \A e, g \in calls' : Changes(e) /\ Changes(g) => (e = g \/ e.doc # g.doc \/ e.doc \in raced')
  BY DEF CallsOK, Numbered, DifferOrRace
<1>2. \A e, g \in calls' : DifferOrRace(e, g)' <=> (e = g \/ e.doc # g.doc \/ e.doc \in raced')
  BY DEF DifferOrRace
<1> QED
  BY <1>1, <1>2 DEF CallsOK, Numbered, Looked, Changes

(* A call is made, in place of those it follows from. *)
NewCall(by, for, does, doc, body) ==
  [n |-> made + 1, by |-> by, for |-> for, does |-> does, doc |-> doc, body |-> body,
   at |-> "sent", unread |-> FALSE]

IsNew(p) ==
  /\ p \in Call /\ p.n = made + 1 /\ p.at = "sent"
  /\ p.does = "restart" => p.doc = Nowhere
  /\ p.does # "restart" => p.doc \in Doc
  /\ p.by = "terminal" => p.does # "restart"
  /\ p.by = "command" <=> p.does = "pin"

Made(old, p) ==
  /\ made' = made + 1
  /\ calls' = (calls \ old) \cup {p}
  /\ raced' = raced \cup {d \in {p.doc} \cap Doc : \E c \in calls \ old : c.doc = d /\ Changes(c)}
  /\ muddled' = (muddled \/ (p.by = "page" /\ \E c \in CallsOf("page") \ old :
                                 (p.does = "restart") # (c.does = "restart")))

LEMMA PlacedIs ==
  ASSUME ETypeOK, NEW old, NEW by, NEW for, NEW does, NEW doc, NEW body,
         by \in {"page", "terminal", "command"}, for \in {"itself", "new", "setup"},
         does \in {"put", "delete", "create", "pin", "get", "restart"}, by = "command" <=> does = "pin", body \in 0..MaxMark,
         Placed(old, by, for, does, doc, body),
         does = "restart" => doc = Nowhere, does # "restart" => doc \in Doc, by = "terminal" => does # "restart"
  PROVE /\ IsNew(NewCall(by, for, does, doc, body)) /\ Made(old, NewCall(by, for, does, doc, body))
        /\ made + 1 \in 0..MaxCall
<1> DEFINE p == NewCall(by, for, does, doc, body)
<1>1. /\ made < MaxCall /\ made' = made + 1 /\ calls' = (calls \ old) \cup {p}
      /\ raced' = raced \cup {d \in {doc} \cap Doc : \E c \in calls \ old : c.doc = d /\ Changes(c)}
      /\ muddled' = (muddled \/ (by = "page" /\ \E c \in CallsOf("page") \ old :
                                    (does = "restart") # (c.does = "restart")))
  BY DEF Placed, NewCall
<1>2. made + 1 \in 1..MaxCall
  BY <1>1, MarksAre DEF ETypeOK
<1>3. doc \in Doc \cup {Nowhere}
  OBVIOUS
<1>4. /\ p \in Call /\ p.n = made + 1 /\ p.by = by /\ p.does = does /\ p.doc = doc /\ p.at = "sent"
  BY <1>2, <1>3 DEF NewCall, Call
<1> HIDE DEF p
<1>5. IsNew(p)
  BY <1>4 DEF IsNew
<1>6. Made(old, p)
  BY <1>1, <1>4 DEF Made
<1>7. made + 1 \in 0..MaxCall
  BY <1>2, MarksAre
<1> QED
  BY <1>5, <1>6, <1>7 DEF p

LEMMA PlaceCounts ==
  ASSUME ETypeOK, CallsOK, NEW old \in SUBSET calls, NEW p, IsNew(p), Made(old, p), made + 1 \in 0..MaxCall
  PROVE /\ calls' \subseteq Call /\ made' \in 0..MaxCall
        /\ raced \subseteq raced' /\ raced' \subseteq Doc
        /\ muddled' \in BOOLEAN /\ (muddled => muddled')
        /\ CallsOK'
<1>1. /\ made' = made + 1 /\ calls' = (calls \ old) \cup {p}
      /\ raced' = raced \cup {d \in {p.doc} \cap Doc : \E c \in calls \ old : c.doc = d /\ Changes(c)}
      /\ muddled' = (muddled \/ (p.by = "page" /\ \E c \in CallsOf("page") \ old :
                                    (p.does = "restart") # (c.does = "restart")))
  BY DEF Made
<1>2. made \in Nat /\ calls \subseteq Call /\ raced \subseteq Doc
  BY MarksAre DEF ETypeOK
<1>3. /\ p \in Call /\ p.n = made + 1 /\ p.at = "sent"
      /\ (p.does = "restart" => p.doc = Nowhere) /\ (p.does # "restart" => p.doc \in Doc)
      /\ (p.by = "terminal" => p.does # "restart") /\ (p.by = "command" <=> p.does = "pin")
  BY DEF IsNew
<1>4. made' \in 0..MaxCall /\ calls' \subseteq Call /\ raced' \subseteq Doc /\ raced \subseteq raced'
  BY <1>1, <1>2, <1>3
<1>5. muddled' \in BOOLEAN /\ (muddled => muddled')
  BY <1>1
<1>6. Numbered'
  <2>1. \A e \in calls : e.n <= made /\ e.n \in Nat
    BY <1>2, MarksAre, CallFields DEF CallsOK, Numbered
  <2>2. \A e \in calls' : e.n <= made'
    BY <1>1, <1>2, <1>3, <2>1
  <2>3. \A e, g \in calls' : e.n = g.n => e = g
    <3>1. \A e \in calls : e.n # p.n
      BY <1>2, <1>3, <2>1
    <3> QED
      BY <1>1, <3>1 DEF CallsOK, Numbered
  <2>4. \A e \in calls' : /\ e.doc = Nowhere <=> e.does = "restart"
                          /\ e.by = "terminal" => e.does # "restart"
                          /\ e.by = "command" <=> e.does = "pin"
    <3>1. Nowhere \notin Doc
      BY SettingsAssumption DEF Doc
    <3> QED
      BY <1>1, <1>3, <3>1 DEF CallsOK, Numbered
  <2>5. \A e, g \in calls' : Changes(e) /\ Changes(g) => (e = g \/ e.doc # g.doc \/ e.doc \in raced')
    <3>1. \A b, d \in calls : Changes(b) /\ Changes(d) => (b = d \/ b.doc # d.doc \/ b.doc \in raced)
      BY DEF CallsOK, Numbered, DifferOrRace
    <3>2. \A e \in calls \ old : Changes(p) /\ Changes(e) /\ p.doc = e.doc => p.doc \in raced'
      <4>1. Changes(p) => p.doc \in Doc
        BY <1>3 DEF Changes
      <4> QED
        BY <1>1, <1>3, <4>1
    <3> QED
      BY <1>1, <1>4, <3>1, <3>2
  <2>6. \A e, g \in calls' : DifferOrRace(e, g)' <=> (e = g \/ e.doc # g.doc \/ e.doc \in raced')
    BY DEF DifferOrRace
  <2> QED
    BY <2>2, <2>3, <2>4, <2>5, <2>6 DEF Numbered, Changes
<1>7. Looked'
  BY <1>1, <1>3 DEF CallsOK, Looked
<1> QED
  BY <1>4, <1>5, <1>6, <1>7 DEF CallsOK

----------------------------------------------------------------------------
(* What is in the files.                                                   *)

(* A call that is not about the files any more, or not yet, changes nothing. *)
LEMMA FilesAside ==
  ASSUME FilesOK, \A e \in calls' : e \in calls \/ (e.at = "sent" /\ e.does # "pin"),
         \A e \in calls : e.at = "landed" /\ Changes(e) => e \in calls',
         disk' = disk, torn' = torn, stored' = stored, overwritten' = overwritten, raced \subseteq raced'
  PROVE FilesOK'
<1>1. InPlace' /\ Pinning'
  BY DEF FilesOK, InPlace, Pinning, Changes
<1>2. StoredStands'
  BY DEF FilesOK, StoredStands, Changes
<1>3. CreationKeeps'
  BY DEF FilesOK, CreationKeeps
<1> QED
  BY <1>1, <1>2, <1>3 DEF FilesOK

(* A command begins to pin: its call is the only one about the file, or     *)
(* they race.                                                              *)
LEMMA FilesPinned ==
  ASSUME FilesOK, NEW p, p.at = "sent", p.doc \in Doc, p.doc \notin torn, p.body = disk[p.doc],
         calls' = calls \cup {p},
         raced' = raced \cup {d \in {p.doc} \cap Doc : \E c \in calls : c.doc = d /\ Changes(c)},
         disk' = disk, torn' = torn, stored' = stored, overwritten' = overwritten
  PROVE FilesOK'
<1>1. InPlace'
  BY DEF FilesOK, InPlace, Changes
<1>2. ASSUME p.doc \notin raced' PROVE p.body = stored[p.doc]
  <2>1. p.doc \notin raced /\ \A c \in calls : c.doc = p.doc => ~Changes(c)
    BY <1>2
  <2> QED
    BY <2>1 DEF FilesOK, StoredStands
<1>3. Pinning'
  BY <1>2 DEF FilesOK, Pinning
<1>4. StoredStands'
  BY DEF FilesOK, StoredStands, Changes
<1>5. CreationKeeps'
  BY DEF FilesOK, CreationKeeps
<1> QED
  BY <1>1, <1>3, <1>4, <1>5 DEF FilesOK

(* The command goes on. *)
LEMMA FilesEnded ==
  ASSUME FilesOK, CallsOK, NEW c \in calls, c.by = "command", c.at \in {"landed", "failed"}, calls' = calls \ {c},
         disk' = disk, torn' = torn, stored' = stored, overwritten' = overwritten, raced' = raced
  PROVE FilesOK'
<1>1. InPlace' /\ Pinning'
  BY DEF FilesOK, InPlace, Pinning, Changes
<1>2. c.does = "pin"
  BY DEF CallsOK, Numbered
<1>3. c.at = "landed" /\ c.doc \notin raced => disk[c.doc] = stored[c.doc]
  BY <1>2 DEF FilesOK, InPlace, Pinning, Changes
<1>4. StoredStands'
  <2> SUFFICES ASSUME NEW d \in Doc, d \notin raced, d \notin torn
               PROVE disk[d] = stored[d] \/ \E e \in calls' : e.doc = d /\ e.at = "landed" /\ Changes(e)
    BY DEF StoredStands, Changes
  <2>1. disk[d] = stored[d] \/ \E e \in calls : e.doc = d /\ e.at = "landed" /\ Changes(e)
    BY DEF FilesOK, StoredStands
  <2> QED
    BY <1>3, <2>1
<1>5. CreationKeeps'
  BY DEF FilesOK, CreationKeeps
<1> QED
  BY <1>1, <1>4, <1>5 DEF FilesOK

(* A call of an editor ends that has written. *)
LEMMA FilesHeard ==
  ASSUME ETypeOK, CallsOK, FilesOK, NEW c \in calls, c.at = "landed", c.by # "command", calls \ {c} \subseteq calls',
         \A e \in calls' : e \in calls \/ (e.at \in {"sent", "failed"} /\ e.does # "pin"),
         disk' = disk, torn' = torn, overwritten' = overwritten, raced \subseteq raced',
         stored' = IF Changes(c) THEN [stored EXCEPT ![c.doc] = IF c.does = "delete" THEN Absent ELSE c.body]
                   ELSE stored
  PROVE FilesOK'
<1>0. stored \in [Doc -> 0..MaxMark] /\ c.does # "pin"
  BY DEF ETypeOK, CallsOK, Numbered
<1>1. InPlace'
  BY DEF FilesOK, InPlace, Changes
<1>2. StoredStands'
  <2> SUFFICES ASSUME NEW d \in Doc, d \notin raced', d \notin torn
               PROVE disk[d] = stored'[d] \/ \E e \in calls' : e.doc = d /\ e.at = "landed" /\ Changes(e)
    BY DEF StoredStands, Changes
  <2>1. disk[d] = stored[d] \/ \E e \in calls : e.doc = d /\ e.at = "landed" /\ Changes(e)
    BY DEF FilesOK, StoredStands
  <2>3. CASE Changes(c) /\ c.doc = d
    BY <1>0, <2>3 DEF FilesOK, InPlace
  <2>4. CASE ~Changes(c) \/ c.doc # d
    BY <1>0, <2>1, <2>4
  <2> QED
    BY <2>3, <2>4
<1>3. CreationKeeps'
  BY DEF FilesOK, CreationKeeps
<1>4. Pinning'
  <2> SUFFICES ASSUME NEW e \in calls', e.does = "pin", e.doc \notin raced', e.at \in {"sent", "landed"}
               PROVE e.body = stored'[e.doc]
    BY DEF Pinning
  <2>1. e \in calls /\ e.doc \notin raced /\ Changes(e) /\ e # c
    BY <1>0 DEF Changes
  <2>2. e.body = stored[e.doc] /\ (Changes(c) => c.doc # e.doc)
    BY <2>1 DEF FilesOK, Pinning, CallsOK, Numbered, DifferOrRace
  <2> QED
    BY <1>0, <2>2
<1> QED
  BY <1>1, <1>2, <1>3, <1>4 DEF FilesOK

(* A call goes on that writes nothing. *)
LEMMA FilesMoved ==
  ASSUME FilesOK, NEW c \in calls, NEW q, SameCall(c, q), calls' = (calls \ {c}) \cup {q},
         c.at # "landed", q.at # "sent", q.at = "landed" => ~Changes(c),
         q.at = "looked" => disk[c.doc] = Absent, q.at = "seeded" => c.at = "looked",
         disk' = disk, torn' = torn, stored' = stored, overwritten' = overwritten, raced' = raced
  PROVE FilesOK'
<1>1. InPlace'
  BY DEF FilesOK, InPlace, Changes, SameCall
<1>2. StoredStands'
  BY DEF FilesOK, StoredStands, Changes
<1>3. CreationKeeps'
  BY DEF FilesOK, CreationKeeps
<1>4. Pinning'
  <2>1. q.at = "landed" => q.does # "pin"
    BY DEF SameCall, Changes
  <2> QED
    BY <2>1 DEF FilesOK, Pinning
<1> QED
  BY <1>1, <1>2, <1>3, <1>4 DEF FilesOK

(* The file is written, whole or not: the others that are about it are      *)
(* known to race.                                                          *)
LEMMA FilesWritten ==
  ASSUME ETypeOK, CallsOK, FilesOK, NEW c \in calls, NEW q, SameCall(c, q), q.body = c.body,
         \/ q.at = "landed" /\ torn' = torn \ {c.doc}
         \/ q.at = "failed" /\ torn' = torn \cup {c.doc},
         calls' = (calls \ {c}) \cup {q}, Changes(c), c.at # "landed",
         c.does = "create" => c.at = "seeded", c.does = "pin" => c.at = "sent",
         disk' = [disk EXCEPT ![c.doc] = IF c.does = "delete" THEN Absent ELSE c.body],
         overwritten' = (IF c.does = "create" /\ disk[c.doc] # Absent THEN overwritten \cup {c.doc} ELSE overwritten),
         stored' = stored, raced' = raced
  PROVE FilesOK'
<1>0. disk \in [Doc -> 0..MaxMark] /\ Changes(q)
  BY DEF ETypeOK, SameCall, Changes
<1>1. \A e \in calls : e # c /\ e.doc = c.doc /\ e.doc \notin raced => ~Changes(e) /\ e.at \notin {"looked", "seeded"}
  BY DEF CallsOK, Numbered, DifferOrRace, Looked, Changes
<1>2. c.doc \in Doc
  <2>1. c.does # "restart" /\ c \in Call
    BY DEF Changes, ETypeOK
  <2> QED
    BY <2>1, CallFields DEF CallsOK, Numbered
<1>3. disk'[c.doc] = (IF c.does = "delete" THEN Absent ELSE c.body) /\ \A d \in Doc \ {c.doc} : disk'[d] = disk[d]
  BY <1>0, <1>2
<1>4. InPlace'
  <2> SUFFICES ASSUME NEW e \in calls', e.doc \notin raced
               PROVE /\ e.at \in {"looked", "seeded"} => disk'[e.doc] = Absent
                     /\ e.at = "landed" /\ Changes(e) => disk'[e.doc] = IF e.does = "delete" THEN Absent ELSE e.body
    BY DEF InPlace, Changes
  <2>1. CASE e = q
    BY <1>3, <2>1 DEF SameCall
  <2>2. CASE e # q
    <3>1. e \in calls /\ e # c
      BY <2>2
    <3>2. CASE e.doc = c.doc
      BY <1>1, <3>1, <3>2
    <3>3. CASE e.doc # c.doc
      <4>1. Changes(e) \/ e.at \in {"looked", "seeded"} => e.doc \in Doc
        <5>1. e \in Call
          BY <3>1 DEF ETypeOK
        <5> QED
          BY <3>1, <5>1, CallFields DEF CallsOK, Numbered, Looked, Changes
      <4>2. /\ e.at \in {"looked", "seeded"} => disk[e.doc] = Absent
            /\ e.at = "landed" /\ Changes(e) => disk[e.doc] = IF e.does = "delete" THEN Absent ELSE e.body
        BY <3>1 DEF FilesOK, InPlace
      <4> QED
        BY <1>3, <3>3, <4>1, <4>2
    <3> QED
      BY <3>2, <3>3
  <2> QED
    BY <2>1, <2>2
<1>5. StoredStands'
  <2> SUFFICES ASSUME NEW d \in Doc, d \notin raced, d \notin torn'
               PROVE disk'[d] = stored[d] \/ \E e \in calls' : e.doc = d /\ e.at = "landed" /\ Changes(e)
    BY DEF StoredStands, Changes
  <2>1. CASE d = c.doc
    <3>1. q.at = "landed"
      BY <2>1
    <3> QED
      BY <1>0, <2>1, <3>1 DEF SameCall
  <2>2. CASE d # c.doc
    <3>1. d \notin torn
      BY <2>2
    <3>2. disk[d] = stored[d] \/ \E e \in calls : e.doc = d /\ e.at = "landed" /\ Changes(e)
      BY <3>1 DEF FilesOK, StoredStands
    <3> QED
      BY <1>3, <2>2, <3>2
  <2> QED
    BY <2>1, <2>2
<1>6. CreationKeeps'
  BY DEF FilesOK, CreationKeeps, InPlace
<1>7. Pinning'
  <2>1. q.does = "pin" /\ q.doc \notin raced => q.body = stored[q.doc]
    BY DEF FilesOK, Pinning, SameCall
  <2> QED
    BY <2>1 DEF FilesOK, Pinning
<1> QED
  BY <1>4, <1>5, <1>6, <1>7 DEF FilesOK

----------------------------------------------------------------------------
(* What the page offers.                                                   *)

(* No order is carried out or heard of, nothing saved is heard of.         *)
LEMMA OffersAside ==
  ASSUME OffersOK, needsRestart' = needsRestart, unapplied' = unapplied, restarting' = restarting,
         muddled => muddled',
         \A e \in calls' : e.by = "page" =>
           \E c \in calls : /\ c.by = "page" /\ c.does = e.does
                            /\ e.does = "restart" /\ e.at = "landed" => c.at = "landed"
  PROVE OffersOK'
<1>1. Orders'
  <2> SUFFICES ASSUME ~muddled'
               PROVE /\ \A c, e \in calls' : c.by = "page" /\ e.by = "page" /\ c.does = "restart" => e.does = "restart"
                     /\ \A c \in calls' : c.by = "page" /\ c.does = "restart" /\ c.at = "landed" =>
                          restarting' \/ unapplied' = {}
    BY DEF Orders, CallsOf
  <2>1. /\ \A c, e \in calls : c.by = "page" /\ e.by = "page" /\ c.does = "restart" => e.does = "restart"
        /\ \A c \in calls : c.by = "page" /\ c.does = "restart" /\ c.at = "landed" => restarting \/ unapplied = {}
    BY DEF OffersOK, Orders, CallsOf
  <2> QED
    BY <2>1
<1>2. RestartIsOffered'
  BY DEF OffersOK, RestartIsOffered
<1> QED
  BY <1>1, <1>2 DEF OffersOK

(* The page makes a call. *)
LEMMA OffersPlaced ==
  ASSUME OffersOK, NEW old \in SUBSET calls, NEW p, IsNew(p), Made(old, p), p.by = "page",
         needsRestart' = needsRestart, unapplied' = unapplied, restarting' = restarting
  PROVE OffersOK'
<1>0. /\ calls' = (calls \ old) \cup {p} /\ p.at = "sent"
      /\ muddled' = (muddled \/ \E c \in CallsOf("page") \ old : (p.does = "restart") # (c.does = "restart"))
  BY DEF IsNew, Made
<1>1. Orders'
  <2> SUFFICES ASSUME ~muddled'
               PROVE /\ \A c, e \in calls' : c.by = "page" /\ e.by = "page" /\ c.does = "restart" => e.does = "restart"
                     /\ \A c \in calls' : c.by = "page" /\ c.does = "restart" /\ c.at = "landed" =>
                          restarting' \/ unapplied' = {}
    BY DEF Orders, CallsOf
  <2>1. /\ \A c, e \in calls : c.by = "page" /\ e.by = "page" /\ c.does = "restart" => e.does = "restart"
        /\ \A c \in calls : c.by = "page" /\ c.does = "restart" /\ c.at = "landed" => restarting \/ unapplied = {}
    BY <1>0 DEF OffersOK, Orders, CallsOf
  <2>2. \A c \in calls \ old : c.by = "page" => (p.does = "restart" <=> c.does = "restart")
    BY <1>0 DEF CallsOf
  <2> QED
    BY <1>0, <2>1, <2>2
<1>2. RestartIsOffered'
  BY <1>0 DEF OffersOK, RestartIsOffered
<1> QED
  BY <1>1, <1>2 DEF OffersOK

(* The page hears of a success, and may go on with the next call. *)
LEMMA OffersHeard ==
  ASSUME OffersOK, NEW c \in calls, c.by = "page", c.at = "landed", Heard(c), restarting' = restarting,
         muddled => muddled',
         \A e \in calls' : e.by = "page" => e \in calls \/ (e.does # "restart" /\ c.does # "restart")
  PROVE OffersOK'
<1>1. /\ needsRestart' = (Changes(c) \/ (needsRestart /\ c.does # "restart"))
      /\ unapplied' = (IF Changes(c) /\ c.unread THEN unapplied \cup {c.doc} ELSE unapplied)
  BY DEF Heard, Marks
<1>2. ASSUME ~muddled'
      PROVE /\ \A b, e \in calls : b.by = "page" /\ e.by = "page" /\ b.does = "restart" => e.does = "restart"
            /\ \A b \in calls : b.by = "page" /\ b.does = "restart" /\ b.at = "landed" => restarting \/ unapplied = {}
            /\ unapplied # {} => needsRestart \/ restarting
  BY <1>2 DEF OffersOK, Orders, RestartIsOffered, CallsOf
<1>3. Orders'
  <2> SUFFICES ASSUME ~muddled'
               PROVE /\ \A b, e \in calls' : b.by = "page" /\ e.by = "page" /\ b.does = "restart" => e.does = "restart"
                     /\ \A b \in calls' : b.by = "page" /\ b.does = "restart" /\ b.at = "landed" =>
                          restarting' \/ unapplied' = {}
    BY DEF Orders, CallsOf
  <2>1. CASE c.does = "restart"
    <3>1. unapplied' = unapplied
      BY <1>1, <2>1 DEF Changes
    <3> QED
      BY <1>2, <2>1, <3>1
  <2>2. CASE c.does # "restart"
    BY <1>2, <2>2
  <2> QED
    BY <2>1, <2>2
<1>4. RestartIsOffered'
  <2> SUFFICES ASSUME ~muddled', unapplied' # {} PROVE needsRestart' \/ restarting'
    BY DEF RestartIsOffered
  <2>1. CASE Changes(c)
    BY <1>1, <2>1
  <2>2. CASE ~Changes(c) /\ c.does = "restart"
    BY <1>1, <1>2, <2>2
  <2>3. CASE ~Changes(c) /\ c.does # "restart"
    BY <1>1, <1>2, <2>3
  <2> QED
    BY <2>1, <2>2, <2>3
<1> QED
  BY <1>3, <1>4 DEF OffersOK

----------------------------------------------------------------------------
(* What was entered, and where it is.                                      *)

(* The terminal is not concerned: contents move, and one more is entered.  *)
LEMMA UnseenAside ==
  ASSUME ETypeOK, Unseen, entry' = entry, cancelled' = cancelled,
         marks' = marks \/ (marks' = marks + 1 /\ marks < MaxMark),
         \A m \in 0..MaxMark : Known(m)' => Known(m) \/ m \in {Absent, Shipped} \/ (marks' = marks + 1 /\ m = marks')
  PROVE Unseen'
<1>1. marks \in 1..MaxMark /\ Shipped = 1 /\ Absent = 0 /\ MaxMark \in Nat
  BY MarksAre DEF ETypeOK
<1>2. Secret' = Secret
  BY DEF Secret
<1>3. ASSUME NEW m \in Secret PROVE m \in (Shipped + 1)..marks' /\ ~Known(m)'
  <2>1. m \in (Shipped + 1)..marks /\ ~Known(m)
    BY DEF Unseen
  <2>2. m \in 0..MaxMark /\ m \notin {Absent, Shipped} /\ m # marks + 1
    BY <1>1, <2>1
  <2>3. ~Known(m)'
    BY <2>1, <2>2
  <2> QED
    BY <1>1, <2>1, <2>3
<1>4. entry'.content \notin cancelled' /\ entry'.content <= marks'
  <2>1. entry.content \in Nat
    BY <1>1 DEF ETypeOK
  <2> QED
    BY <1>1, <2>1 DEF Unseen
<1>5. ASSUME NEW m \in 0..MaxMark, Known(m)' PROVE m <= marks'
  <2>1. Known(m) => m <= marks
    BY DEF Unseen
  <2> QED
    BY <1>1, <1>5, <2>1
<1> QED
  BY <1>2, <1>3, <1>4, <1>5 DEF Unseen

(* The terminal's editor is opened, saved from or left. *)
LEMMA UnseenEntry ==
  ASSUME ETypeOK, Unseen, marks' = marks, cancelled' \subseteq Secret, cancelled \subseteq cancelled',
         \/ entry' = NoEntry
         \/ /\ ~entry'.own /\ cancelled' = cancelled
            /\ (entry'.content \in 0..MaxMark /\ Known(entry'.content)) \/ entry'.content = Shipped,
         \A m \in 0..MaxMark : Known(m)' => Known(m) \/ (m = entry.content /\ cancelled' = cancelled)
  PROVE Unseen'
<1>1. marks \in 1..MaxMark /\ Shipped = 1 /\ Absent = 0 /\ MaxMark \in Nat
  BY MarksAre DEF ETypeOK
<1>2. ~entry'.own
  BY DEF NoEntry
<1>3. Secret' \subseteq cancelled'
  BY <1>2 DEF Secret
<1>4. \A m \in Secret : m \in 2..marks /\ ~Known(m)
  BY <1>1 DEF Unseen
<1>5. ASSUME NEW m \in Secret' PROVE m \in (Shipped + 1)..marks' /\ ~Known(m)'
  <2>1. m \in cancelled' /\ m \in Secret
    BY <1>3
  <2>2. m \in 2..marks /\ ~Known(m) /\ m \in 0..MaxMark
    BY <1>1, <1>4, <2>1
  <2>3. m # entry.content \/ cancelled' # cancelled
    BY <2>1 DEF Unseen
  <2> QED
    BY <1>1, <2>2, <2>3
<1>6. entry'.content \notin cancelled' /\ entry'.content <= marks'
  <2>1. CASE entry' = NoEntry
    <3>1. entry'.content = 0
      BY <1>1, <2>1 DEF NoEntry
    <3> QED
      BY <1>1, <1>4, <3>1
  <2>2. CASE entry' # NoEntry /\ entry'.content = Shipped
    BY <1>1, <1>4, <2>2
  <2>3. CASE entry' # NoEntry /\ entry'.content \in 0..MaxMark /\ Known(entry'.content)
    BY <1>4, <2>3 DEF Unseen
  <2> QED
    BY <2>1, <2>2, <2>3
<1>7. ASSUME NEW m \in 0..MaxMark, Known(m)' PROVE m <= marks'
  BY <1>7 DEF Unseen
<1> QED
  BY <1>5, <1>6, <1>7 DEF Unseen

----------------------------------------------------------------------------
(* config-ops.                                                             *)

LEMMA ReadIs ==
  ASSUME ETypeOK, NEW d \in Doc
  PROVE Read(d) \in 0..MaxMark /\ (Read(d) = Shipped \/ Read(d) = disk[d])
BY MarksAre DEF Read, ETypeOK

LEMMA KnownAre ==
  ASSUME NEW d \in Doc
  PROVE Known(disk[d]) /\ Known(page[d]) /\ \A c \in calls : Known(c.body)
BY DEF Known

LEMMA OpKeeps ==
  ASSUME EInv, NEW c \in calls, NEW q \in Call, SameCall(c, q), calls' = (calls \ {c}) \cup {q},
         c.at # "landed", q.at # "sent", q.at = "landed" => ~Changes(c),
         q.at = "looked" => c.does = "create" /\ disk[c.doc] = Absent, q.at = "seeded" => c.at = "looked",
         q.body = c.body \/ q.body = Shipped \/ \E d \in Doc : q.body = disk[d],
         restarting' = (restarting \/ (c.does = "restart" /\ q.at = "landed")),
         UNCHANGED <<disk, torn, made, marks, page, opened, dirty, needsRestart, entry, told>>
  PROVE EInv'
<1>0. /\ ETypeOK /\ CallsOK /\ FilesOK /\ OffersOK /\ Unseen
      /\ UNCHANGED <<unapplied, stored, raced, overwritten, muddled, cancelled, discarded>>
  BY DEF EInv, told
<1>1. ETypeOK'
  BY <1>0 DEF ETypeOK
<1>2. CallsOK'
  <2>1. q.at \in {"looked", "seeded"} => q.does = "create"
    BY <1>0 DEF SameCall, CallsOK, Looked
  <2> QED
    BY <1>0, <2>1, MoveCounts
<1>3. FilesOK'
  BY <1>0, FilesMoved
<1>4. OffersOK'
  <2>1. CASE c.does = "restart" /\ q.at = "landed"
    <3>1. restarting' = TRUE
      BY <2>1
    <3>2. \A e \in calls' : \E b \in calls : b.by = e.by /\ b.does = e.does
      BY DEF SameCall
    <3>3. \A b, e \in calls : ~muddled /\ b.by = "page" /\ e.by = "page" /\ b.does = "restart" => e.does = "restart"
      BY <1>0 DEF OffersOK, Orders, CallsOf
    <3>4. Orders'
      BY <1>0, <3>1, <3>2, <3>3 DEF Orders, CallsOf
    <3> QED
      BY <3>1, <3>4 DEF OffersOK, RestartIsOffered
  <2>2. CASE ~(c.does = "restart" /\ q.at = "landed")
    <3>1. restarting' = restarting
      BY <1>0, <2>2 DEF ETypeOK
    <3>2. \A e \in calls' : e.by = "page" =>
            \E b \in calls : b.by = "page" /\ b.does = e.does /\ (e.does = "restart" /\ e.at = "landed" => b.at = "landed")
      BY <2>2 DEF SameCall
    <3> QED
      BY <1>0, <3>1, <3>2, OffersAside
  <2> QED
    BY <2>1, <2>2
<1>5. Unseen'
  <2>1. \A m \in 0..MaxMark : Known(m)' => Known(m) \/ m \in {Absent, Shipped}
    BY DEF Known
  <2> QED
    BY <1>0, <2>1, UnseenAside
<1>9. Editing'
  BY <1>0 DEF EInv, Editing
<1> QED
  BY <1>1, <1>2, <1>3, <1>4, <1>5, <1>9 DEF EInv

LEMMA OpsKeep ==
  ASSUME EInv, NEW c \in calls, CreateLooks(c) \/ CreateSeeds(c) \/ Reads(c) \/ OrdersRestart(c) \/ Fails(c)
  PROVE EInv'
<1>0. c \in Call /\ c.body \in 0..MaxMark /\ restarting \in BOOLEAN /\ Default \in Doc /\ ETypeOK
  BY CallFields DEF EInv, ETypeOK, Doc
<1>1. CASE CreateLooks(c)
  <2> DEFINE at == IF disk[c.doc] = Absent THEN "looked" ELSE "failed"
  <2>1. at \in {"sent", "looked", "seeded", "landed", "failed"} /\ calls' = Moved(c, at, c.body)
    BY <1>1 DEF CreateLooks
  <2> HIDE DEF at
  <2>2. PICK q \in Call : calls' = (calls \ {c}) \cup {q} /\ SameCall(c, q) /\ q.at = at /\ q.body = c.body
    BY <1>0, <2>1, MovedIs
  <2>3. /\ c.at = "sent" /\ c.does = "create" /\ restarting' = restarting
        /\ q.at = "looked" => disk[c.doc] = Absent
        /\ q.at \in {"looked", "failed"}
        /\ UNCHANGED <<disk, torn, made, marks, page, opened, dirty, needsRestart, entry, told>>
    BY <1>1, <2>2, SMTT(60) DEF CreateLooks, at
  <2> QED
    BY <1>0, <2>2, <2>3, OpKeeps
<1>2. CASE CreateSeeds(c)
  <2>1. Read(Default) \in 0..MaxMark /\ (Read(Default) = Shipped \/ Read(Default) = disk[Default])
    BY <1>0, ReadIs
  <2> DEFINE at == IF Default \in torn THEN "failed" ELSE "seeded"
  <2>6. at \in {"sent", "looked", "seeded", "landed", "failed"} /\ at \in {"failed", "seeded"}
        /\ calls' = Moved(c, at, Read(Default))
    BY <1>2 DEF CreateSeeds
  <2> HIDE DEF at
  <2>2. PICK q \in Call : calls' = (calls \ {c}) \cup {q} /\ SameCall(c, q) /\ q.at = at /\ q.body = Read(Default)
    BY <1>0, <2>1, <2>6, MovedIs
  <2>3. /\ c.at = "looked" /\ restarting' = restarting
        /\ UNCHANGED <<disk, torn, made, marks, page, opened, dirty, needsRestart, entry, told>>
    BY <1>2 DEF CreateSeeds
  <2>4. restarting' = (restarting \/ (c.does = "restart" /\ q.at = "landed"))
    BY <1>0, <2>2, <2>3, <2>6
  <2>5. q.body = c.body \/ q.body = Shipped \/ \E d \in Doc : q.body = disk[d]
    BY <1>0, <2>1, <2>2
  <2> QED
    BY <2>2, <2>3, <2>4, <2>5, <2>6, OpKeeps
<1>3. CASE Reads(c)
  <2> DEFINE at == IF Read(c.doc) = Absent \/ c.doc \in torn THEN "failed" ELSE "landed"
  <2>0. c.doc \in Doc
    BY <1>0, <1>3, CallFields DEF Reads, EInv, CallsOK, Numbered
  <2>1. Read(c.doc) \in 0..MaxMark /\ (Read(c.doc) = Shipped \/ Read(c.doc) = disk[c.doc])
    BY <1>0, <2>0, ReadIs
  <2>2. at \in {"sent", "looked", "seeded", "landed", "failed"} /\ calls' = Moved(c, at, Read(c.doc))
    BY <1>3 DEF Reads
  <2>3. /\ ~Changes(c) /\ c.at = "sent" /\ c.does # "restart" /\ restarting' = restarting
        /\ at \in {"failed", "landed"}
        /\ UNCHANGED <<disk, torn, made, marks, page, opened, dirty, needsRestart, entry, told>>
    BY <1>3 DEF Reads, Changes
  <2> HIDE DEF at
  <2>4. PICK q \in Call : calls' = (calls \ {c}) \cup {q} /\ SameCall(c, q) /\ q.at = at /\ q.body = Read(c.doc)
    BY <1>0, <2>1, <2>2, MovedIs
  <2>5. q.body = c.body \/ q.body = Shipped \/ \E d \in Doc : q.body = disk[d]
    BY <2>0, <2>1, <2>4
  <2> QED
    BY <1>0, <2>3, <2>4, <2>5, OpKeeps
<1>4. CASE OrdersRestart(c)
  <2>1. PICK q \in Call : calls' = (calls \ {c}) \cup {q} /\ SameCall(c, q) /\ q.at = "landed" /\ q.body = c.body
    BY <1>0, <1>4, MovedIs DEF OrdersRestart
  <2>2. /\ ~Changes(c) /\ c.at = "sent" /\ c.does = "restart" /\ restarting' = TRUE
        /\ UNCHANGED <<disk, torn, made, marks, page, opened, dirty, needsRestart, entry, told>>
    BY <1>4, SMTT(60) DEF OrdersRestart, Changes
  <2> QED
    BY <1>0, <2>1, <2>2, OpKeeps
<1>5. CASE Fails(c)
  <2>1. PICK q \in Call : calls' = (calls \ {c}) \cup {q} /\ SameCall(c, q) /\ q.at = "failed" /\ q.body = c.body
    BY <1>0, <1>5, MovedIs DEF Fails
  <2>2. /\ c.at # "landed" /\ restarting' = restarting
        /\ UNCHANGED <<disk, torn, made, marks, page, opened, dirty, needsRestart, entry, told>>
    BY <1>5 DEF Fails
  <2>3. restarting' = (restarting \/ (c.does = "restart" /\ q.at = "landed"))
    BY <1>0, <2>1, <2>2
  <2> QED
    BY <2>1, <2>2, <2>3, OpKeeps
<1> QED
  BY <1>1, <1>2, <1>3, <1>4, <1>5

LEMMA WritesKeeps ==
  ASSUME EInv, NEW c \in calls, Writes(c) \/ Tears(c)
  PROVE EInv'
<1>0. /\ ETypeOK /\ CallsOK /\ FilesOK /\ OffersOK /\ Unseen /\ c \in Call /\ c.body \in 0..MaxMark
      /\ UNCHANGED <<made, marks, page, opened, dirty, needsRestart, entry, restarting,
                     unapplied, stored, raced, muddled, cancelled, discarded>>
  BY CallFields DEF EInv, ETypeOK, Writes, Tears
<1>1. PICK q \in Call : /\ calls' = (calls \ {c}) \cup {q} /\ SameCall(c, q) /\ q.body = c.body
                        /\ \/ q.at = "landed" /\ torn' = torn \ {c.doc}
                           \/ q.at = "failed" /\ torn' = torn \cup {c.doc}
  <2>1. CASE Writes(c)
    <3> DEFINE q == [c EXCEPT !.at = "landed", !.unread = TRUE]
    <3>1. q \in Call /\ SameCall(c, q) /\ q.at = "landed" /\ q.body = c.body
      BY <1>0 DEF Call, SameCall
    <3>2. calls' = (calls \ {c}) \cup {q} /\ torn' = torn \ {c.doc}
      BY <2>1 DEF Writes
    <3> HIDE DEF q
    <3> QED
      BY <3>1, <3>2
  <2>2. CASE Tears(c)
    <3>1. calls' = Moved(c, "failed", c.body) /\ torn' = torn \cup {c.doc}
      BY <2>2 DEF Tears
    <3> QED
      BY <1>0, <3>1, MovedIs
  <2> QED
    BY <2>1, <2>2
<1>2. /\ Changes(c) /\ (c.does = "create" => c.at = "seeded") /\ (c.does = "pin" => c.at = "sent") /\ c.at # "landed"
      /\ disk' = [disk EXCEPT ![c.doc] = IF c.does = "delete" THEN Absent ELSE c.body]
      /\ overwritten' = (IF c.does = "create" /\ disk[c.doc] # Absent THEN overwritten \cup {c.doc} ELSE overwritten)
  <2>1. CASE Writes(c)
    BY <2>1 DEF Writes, WritesNext, WrittenOver, Changes
  <2>2. CASE Tears(c)
    BY <2>2 DEF Tears, WritesNext, WrittenOver, Changes
  <2> QED
    BY <2>1, <2>2
<1>3. c.doc \in Doc /\ c.body \in 0..MaxMark /\ c.does # "restart"
  BY <1>0, <1>2, CallFields DEF CallsOK, Numbered, Changes
<1>4. ETypeOK'
  <2>1. disk' \in [Doc -> 0..MaxMark]
    BY <1>0, <1>2, <1>3, MarksAre DEF ETypeOK
  <2>2. calls' \subseteq Call /\ overwritten' \subseteq Doc /\ torn' \subseteq Doc
    BY <1>0, <1>1, <1>2, <1>3 DEF ETypeOK
  <2> QED
    BY <1>0, <2>1, <2>2 DEF ETypeOK
<1>5. CallsOK'
  BY <1>0, <1>1, <1>2, MoveCounts
<1>6. FilesOK'
  BY <1>0, <1>1, <1>2, FilesWritten
<1>7. OffersOK'
  <2>1. \A e \in calls' : e.by = "page" =>
          \E b \in calls : b.by = "page" /\ b.does = e.does /\ (e.does = "restart" /\ e.at = "landed" => b.at = "landed")
    BY <1>1, <1>2, <1>3 DEF SameCall
  <2> QED
    BY <1>0, <2>1, OffersAside
<1>8. Unseen'
  <2>1. disk \in [Doc -> 0..MaxMark]
    BY <1>0 DEF ETypeOK
  <2>2. \A d \in Doc : disk'[d] = disk[d] \/ disk'[d] = Absent \/ disk'[d] = c.body
    BY <1>2, <2>1
  <2>3. \A m \in 0..MaxMark : Known(m)' => Known(m) \/ m \in {Absent, Shipped}
    BY <1>0, <1>1, <1>2, <2>2 DEF Known
  <2> QED
    BY <1>0, <2>3, UnseenAside
<1>9. Editing'
  BY <1>0 DEF EInv, Editing
<1> QED
  BY <1>4, <1>5, <1>6, <1>7, <1>8, <1>9 DEF EInv

(* The page's connection is gone when its call has been carried out. *)
LEMMA LosesAnswerKeeps ==
  ASSUME EInv, NEW c \in calls, LosesAnswer(c)
  PROVE EInv'
<1>0. /\ ETypeOK /\ CallsOK /\ FilesOK /\ OffersOK /\ Unseen /\ Editing
      /\ c.by = "page" /\ c.at = "landed" /\ calls' = Moved(c, "failed", c.body) /\ stored' = Ended(c)
      /\ UNCHANGED <<disk, torn, made, marks, page, opened, dirty, needsRestart, entry, restarting,
                     unapplied, raced, overwritten, muddled, cancelled, discarded>>
  BY DEF EInv, LosesAnswer
<1>1. c \in Call /\ c.body \in 0..MaxMark
  BY <1>0, CallFields DEF ETypeOK
<1>2. PICK q \in Call : calls' = (calls \ {c}) \cup {q} /\ SameCall(c, q) /\ q.at = "failed" /\ q.body = c.body
  BY <1>0, <1>1, MovedIs
<1>3. /\ stored' \in [Doc -> 0..MaxMark]
      /\ stored' = IF Changes(c) THEN [stored EXCEPT ![c.doc] = IF c.does = "delete" THEN Absent ELSE c.body]
                   ELSE stored
  BY <1>0, <1>1, MarksAre DEF Ended, ETypeOK
<1>4. ETypeOK'
  BY <1>0, <1>2, <1>3 DEF ETypeOK
<1>5. CallsOK'
  BY <1>0, <1>2, MoveCounts
<1>6. FilesOK'
  <2>1. q.does # "pin" /\ c.by # "command"
    BY <1>0, <1>2 DEF CallsOK, Numbered, SameCall
  <2>2. calls \ {c} \subseteq calls' /\ \A e \in calls' : e \in calls \/ (e.at \in {"sent", "failed"} /\ e.does # "pin")
    BY <1>2, <2>1
  <2> QED
    BY <1>0, <1>3, <2>1, <2>2, FilesHeard
<1>7. OffersOK'
  <2>1. \A e \in calls' : e.by = "page" =>
          \E b \in calls : b.by = "page" /\ b.does = e.does /\ (e.does = "restart" /\ e.at = "landed" => b.at = "landed")
    BY <1>2 DEF SameCall
  <2> QED
    BY <1>0, <2>1, OffersAside
<1>8. Unseen'
  <2>1. \A m \in 0..MaxMark : Known(m)' => Known(m)
    BY <1>0, <1>2 DEF Known
  <2> QED
    BY <1>0, <2>1, UnseenAside
<1>9. Editing'
  BY <1>0 DEF Editing
<1> QED
  BY <1>4, <1>5, <1>6, <1>7, <1>8, <1>9 DEF EInv

LEMMA RuntimeReadsKeeps ==
  ASSUME EInv, RuntimeReads
  PROVE EInv'
<1>0. /\ ETypeOK /\ CallsOK /\ FilesOK /\ OffersOK /\ Unseen
      /\ restarting' = FALSE /\ unapplied' = {}
      /\ calls' = {[c EXCEPT !.unread = FALSE] : c \in calls}
      /\ UNCHANGED <<disk, torn, made, marks, page, opened, dirty, needsRestart, entry,
                     stored, raced, overwritten, muddled, cancelled, discarded>>
  BY DEF EInv, RuntimeReads
<1>1. \A c \in calls : LET q == [c EXCEPT !.unread = FALSE] IN
        q \in Call /\ SameCall(c, q) /\ q.at = c.at /\ q.body = c.body
  <2>1. \A c \in calls : c \in Call
    BY <1>0 DEF ETypeOK
  <2> QED
    BY <2>1 DEF Call, SameCall
<1>2. /\ \A q \in calls' : q \in Call /\ \E c \in calls :
           SameCall(c, q) /\ q.at = c.at /\ q.body = c.body /\ q = [c EXCEPT !.unread = FALSE]
      /\ \A c \in calls : \E q \in calls' : SameCall(c, q) /\ q.at = c.at /\ q.body = c.body
  BY <1>0, <1>1
<1>3. ETypeOK'
  <2>1. calls' \subseteq Call
    BY <1>2
  <2> QED
    BY <1>0, <2>1 DEF ETypeOK
<1>4. CallsOK'
  <2>1. \A e, g \in calls' : e.n = g.n => e = g
    <3> SUFFICES ASSUME NEW e \in calls', NEW g \in calls', e.n = g.n PROVE e = g
      OBVIOUS
    <3>1. PICK b \in calls : SameCall(b, e) /\ e = [b EXCEPT !.unread = FALSE]
      BY <1>2
    <3>2. PICK d \in calls : SameCall(d, g) /\ g = [d EXCEPT !.unread = FALSE]
      BY <1>2
    <3>3. b.n = d.n
      BY <3>1, <3>2 DEF SameCall
    <3>4. b = d
      BY <1>0, <3>3 DEF CallsOK, Numbered
    <3> QED
      BY <3>1, <3>2, <3>4
  <2>2. \A e, g \in calls' : Changes(e) /\ Changes(g) => (e = g \/ e.doc # g.doc \/ e.doc \in raced')
    <3> SUFFICES ASSUME NEW e \in calls', NEW g \in calls', Changes(e), Changes(g)
                 PROVE e = g \/ e.doc # g.doc \/ e.doc \in raced
      BY <1>0
    <3>1. PICK b \in calls : SameCall(b, e) /\ e = [b EXCEPT !.unread = FALSE]
      BY <1>2
    <3>2. PICK d \in calls : SameCall(d, g) /\ g = [d EXCEPT !.unread = FALSE]
      BY <1>2
    <3>3. b = d \/ b.doc # d.doc \/ b.doc \in raced
      BY <1>0, <3>1, <3>2 DEF CallsOK, Numbered, DifferOrRace, SameCall, Changes
    <3> QED
      BY <3>1, <3>2, <3>3 DEF SameCall
  <2>3. \A e, g \in calls' : DifferOrRace(e, g)' <=> (e = g \/ e.doc # g.doc \/ e.doc \in raced')
    BY DEF DifferOrRace
  <2>4. \A e \in calls' : /\ e.n <= made' /\ (e.doc = Nowhere <=> e.does = "restart")
                          /\ e.by = "terminal" => e.does # "restart"
                          /\ e.by = "command" <=> e.does = "pin"
                          /\ e.at \in {"looked", "seeded"} => e.does = "create"
    BY <1>0, <1>2 DEF CallsOK, Numbered, Looked, SameCall
  <2> QED
    BY <2>1, <2>2, <2>3, <2>4 DEF CallsOK, Numbered, Looked, Changes
<1>5. FilesOK'
  <2>0. InPlace /\ Pinning
    BY <1>0 DEF FilesOK
  <2>1. InPlace'
    <3> SUFFICES ASSUME NEW q \in calls', q.doc \notin raced
                 PROVE /\ q.at \in {"looked", "seeded"} => disk[q.doc] = Absent
                       /\ q.at = "landed" /\ Changes(q)
                            => disk[q.doc] = IF q.does = "delete" THEN Absent ELSE q.body
      BY <1>0 DEF InPlace, Changes
    <3>1. PICK c \in calls : SameCall(c, q) /\ q.at = c.at /\ q.body = c.body
      BY <1>2
    <3>2. c.doc = q.doc /\ c.does = q.does /\ (Changes(c) <=> Changes(q))
      BY <3>1 DEF SameCall, Changes
    <3> QED
      BY <2>0, <3>1, <3>2 DEF InPlace
  <2>4. Pinning'
    <3> SUFFICES ASSUME NEW q \in calls', q.does = "pin", q.doc \notin raced, q.at \in {"sent", "landed"}
                 PROVE q.body = stored[q.doc]
      BY <1>0 DEF Pinning
    <3>1. PICK c \in calls : SameCall(c, q) /\ q.at = c.at /\ q.body = c.body
      BY <1>2
    <3> QED
      BY <2>0, <3>1 DEF Pinning, SameCall
  <2>2. StoredStands'
    <3> SUFFICES ASSUME NEW d \in Doc, d \notin raced, d \notin torn
                 PROVE disk[d] = stored[d] \/ \E e \in calls' : e.doc = d /\ e.at = "landed" /\ Changes(e)
      BY <1>0 DEF StoredStands, Changes
    <3>1. disk[d] = stored[d] \/ \E e \in calls : e.doc = d /\ e.at = "landed" /\ Changes(e)
      BY <1>0 DEF FilesOK, StoredStands
    <3> QED
      BY <1>2, <3>1 DEF SameCall, Changes
  <2>3. CreationKeeps'
    BY <1>0 DEF FilesOK, CreationKeeps
  <2> QED
    BY <2>1, <2>2, <2>3, <2>4 DEF FilesOK
<1>6. OffersOK'
  <2>1. Orders'
    <3> SUFFICES ASSUME ~muddled, NEW c \in calls', NEW e \in calls', c.by = "page", e.by = "page", c.does = "restart"
                 PROVE e.does = "restart"
      BY <1>0 DEF Orders, CallsOf
    <3>1. PICK b \in calls : SameCall(b, c) /\ c = [b EXCEPT !.unread = FALSE]
      BY <1>2
    <3>2. PICK d \in calls : SameCall(d, e) /\ e = [d EXCEPT !.unread = FALSE]
      BY <1>2
    <3>3. b.by = "page" /\ d.by = "page" /\ b.does = "restart"
      BY <3>1, <3>2 DEF SameCall
    <3>4. d.does = "restart"
      BY <1>0, <3>3 DEF OffersOK, Orders, CallsOf
    <3> QED
      BY <3>2, <3>4 DEF SameCall
  <2> QED
    BY <1>0, <2>1 DEF OffersOK, RestartIsOffered
<1>7. Unseen'
  <2>1. \A m \in 0..MaxMark : Known(m)' => Known(m)
    BY <1>0, <1>2, SMTT(60) DEF Known
  <2> QED
    BY <1>0, <2>1, UnseenAside
<1>9. Editing'
  BY <1>0 DEF EInv, Editing
<1> QED
  BY <1>3, <1>4, <1>5, <1>6, <1>7, <1>9 DEF EInv

----------------------------------------------------------------------------
(* The commands.                                                           *)

LEMMA CommandKeeps ==
  ASSUME EInv, PinStep
  PROVE EInv'
<1>0. ETypeOK /\ CallsOK /\ FilesOK /\ OffersOK /\ Unseen /\ Editing
  BY DEF EInv
<1>1. ASSUME NEW d \in Id, CommandPins(d) PROVE EInv'
  <2>1. /\ disk[d] # Absent /\ d \notin torn /\ Placed({}, "command", "itself", "pin", d, disk[d])
        /\ UNCHANGED <<disk, torn, marks, page, opened, dirty, needsRestart, entry, restarting,
                       unapplied, stored, overwritten, cancelled, discarded>>
    BY <1>1 DEF CommandPins
  <2>2. d \in Doc /\ disk[d] \in 0..MaxMark
    BY <1>0 DEF Doc, ETypeOK
  <2> DEFINE p == NewCall("command", "itself", "pin", d, disk[d])
  <2>3. IsNew(p) /\ Made({}, p) /\ made + 1 \in 0..MaxCall
    BY <1>0, <2>1, <2>2, PlacedIs
  <2>4. p.by = "command" /\ p.body = disk[d] /\ p.doc = d
    BY DEF NewCall
  <2> HIDE DEF p
  <2>5. /\ calls' = calls \cup {p} /\ p.at = "sent"
        /\ raced' = raced \cup {x \in {p.doc} \cap Doc : \E c \in calls : c.doc = x /\ Changes(c)}
    BY <2>3 DEF Made, IsNew
  <2>6. {} \in SUBSET calls
    OBVIOUS
  <2>7. /\ calls' \subseteq Call /\ made' \in 0..MaxCall /\ raced' \subseteq Doc
        /\ muddled' \in BOOLEAN /\ (muddled => muddled') /\ CallsOK'
    BY <1>0, <2>3, <2>6, PlaceCounts
  <2>8. ETypeOK'
    BY <1>0, <2>1, <2>7 DEF ETypeOK
  <2>9. FilesOK'
    BY <1>0, <2>1, <2>2, <2>4, <2>5, FilesPinned
  <2>10. OffersOK'
    <3>1. \A e \in calls' : e.by = "page" => e \in calls
      BY <2>4, <2>5
    <3> QED
      BY <1>0, <2>1, <2>7, <3>1, OffersAside
  <2>11. Unseen'
    <3>1. Known(disk[d])
      BY <2>2, KnownAre
    <3>2. \A m \in 0..MaxMark : Known(m)' => Known(m)
      BY <2>1, <2>4, <2>5, <3>1 DEF Known
    <3> QED
      BY <1>0, <2>1, <3>2, UnseenAside
  <2>12. Editing'
    BY <1>0, <2>1 DEF Editing
  <2> QED
    BY <2>7, <2>8, <2>9, <2>10, <2>11, <2>12 DEF EInv
<1>2. ASSUME NEW c \in calls, CommandEnds(c) PROVE EInv'
  <2>1. /\ c.by = "command" /\ c.at \in {"landed", "failed"} /\ calls' = calls \ {c}
        /\ UNCHANGED <<disk, torn, made, marks, page, opened, dirty, needsRestart, entry, restarting,
                       unapplied, stored, raced, overwritten, muddled, cancelled, discarded>>
    BY <1>2 DEF CommandEnds, told
  <2>2. ETypeOK' /\ Editing'
    BY <1>0, <2>1 DEF ETypeOK, Editing
  <2>3. CallsOK'
    BY <1>0, <2>1, EndCounts
  <2>4. FilesOK'
    BY <1>0, <2>1, FilesEnded
  <2>5. OffersOK'
    BY <1>0, <2>1, OffersAside
  <2>6. Unseen'
    <3>1. \A m \in 0..MaxMark : Known(m)' => Known(m)
      BY <2>1 DEF Known
    <3> QED
      BY <1>0, <2>1, <3>1, UnseenAside
  <2> QED
    BY <2>2, <2>3, <2>4, <2>5, <2>6 DEF EInv
<1> QED
  BY <1>1, <1>2 DEF PinStep

----------------------------------------------------------------------------
(* The page.                                                               *)

(* What no call and no file hears of. *)
LEMMA PageAsideKeeps ==
  ASSUME EInv, page' \in [Doc -> 0..MaxMark], opened' \in Doc \cup {Nowhere}, dirty' \in BOOLEAN,
         discarded' \subseteq 1..MaxMark,
         marks' = marks \/ (marks' = marks + 1 /\ marks < MaxMark),
         \A d \in Doc : page'[d] = page[d] \/ (marks' = marks + 1 /\ page'[d] = marks'),
         dirty' => opened' # Nowhere /\ page'[opened'] # Absent,
         UNCHANGED <<disk, torn, calls, made, needsRestart, entry, restarting,
                     unapplied, stored, raced, overwritten, muddled, cancelled>>
  PROVE EInv'
<1>0. ETypeOK /\ CallsOK /\ FilesOK /\ OffersOK /\ Unseen
  BY DEF EInv
<1>1. ETypeOK'
  <2>1. marks \in 1..MaxMark /\ MaxMark \in Nat
    BY <1>0, MarksAre DEF ETypeOK
  <2>2. marks' \in 1..MaxMark
    BY <2>1
  <2> QED
    BY <1>0, <2>2 DEF ETypeOK
<1>2. CallsOK'
  BY <1>0, EndCounts
<1>3. FilesOK'
  BY <1>0, FilesAside
<1>4. OffersOK'
  BY <1>0, OffersAside
<1>5. Unseen'
  <2>1. \A m \in 0..MaxMark : Known(m)' => Known(m) \/ (marks' = marks + 1 /\ m = marks')
    BY DEF Known
  <2> QED
    BY <1>0, <2>1, UnseenAside
<1>6. Editing'
  BY DEF EInv, Editing
<1> QED
  BY <1>1, <1>2, <1>3, <1>4, <1>5, <1>6 DEF EInv

LEMMA PageEditsKeeps ==
  ASSUME EInv, PageEdits \/ PageDiscards \/ \E d \in Doc : PageOpens(d)
  PROVE EInv'
<1>0. /\ page \in [Doc -> 0..MaxMark] /\ opened \in Doc \cup {Nowhere} /\ dirty \in BOOLEAN
      /\ discarded \subseteq 1..MaxMark /\ marks \in 1..MaxMark /\ MaxMark \in Nat
  BY MarksAre DEF EInv, ETypeOK
<1>1. CASE PageEdits
  <2>1. /\ opened \in Doc /\ marks < MaxMark /\ marks' = marks + 1 /\ dirty' = TRUE
        /\ page' = [page EXCEPT ![opened] = marks + 1]
        /\ UNCHANGED <<disk, torn, calls, made, opened, needsRestart, entry, restarting, unapplied, stored,
                       raced, overwritten, muddled, cancelled, discarded>>
    BY <1>0, <1>1 DEF PageEdits, told
  <2>2. /\ page' \in [Doc -> 0..MaxMark] /\ \A d \in Doc : page'[d] = page[d] \/ page'[d] = marks'
        /\ page'[opened] = marks + 1 /\ marks + 1 # 0
    BY <1>0, <2>1
  <2>3. opened' # Nowhere /\ page'[opened'] # Absent
    BY <1>1, <2>1, <2>2 DEF PageEdits, Absent
  <2> QED
    BY <1>0, <2>1, <2>2, <2>3, PageAsideKeeps
<1>2. CASE PageDiscards
  <2>1. /\ opened \in Doc /\ opened' = Nowhere /\ dirty' = FALSE /\ page' = page /\ marks' = marks
        /\ discarded' \subseteq discarded \cup {page[opened]} /\ (~dirty => discarded' = discarded)
        /\ UNCHANGED <<disk, torn, calls, made, needsRestart, entry, restarting, unapplied, stored,
                       raced, overwritten, muddled, cancelled>>
    BY <1>0, <1>2 DEF PageDiscards
  <2>2. discarded' \subseteq 1..MaxMark
    <3>1. CASE dirty
      <4>1. page[opened] \in 1..MaxMark
        BY <1>0, <2>1, <3>1 DEF EInv, Editing, Absent
      <4> QED
        BY <1>0, <2>1, <4>1
    <3>2. CASE ~dirty
      BY <1>0, <2>1, <3>2
    <3> QED
      BY <3>1, <3>2
  <2> QED
    BY <1>0, <2>1, <2>2, PageAsideKeeps
<1>3. ASSUME NEW d \in Doc, PageOpens(d) PROVE EInv'
  <2>1. /\ opened' = d /\ dirty' = FALSE
        /\ UNCHANGED <<disk, torn, calls, made, marks, page, needsRestart, entry, restarting, unapplied, stored,
                       raced, overwritten, muddled, cancelled, discarded>>
    BY <1>3 DEF PageOpens, told
  <2> QED
    BY <1>0, <2>1, PageAsideKeeps
<1> QED
  BY <1>1, <1>2, <1>3

(* The page sends a call that follows from none. *)
LEMMA SendingKeeps ==
  ASSUME EInv, NEW for, for \in {"itself", "new", "setup"},
         NEW does, does \in {"put", "delete", "create", "restart"}, NEW doc, NEW body, body \in 0..MaxMark,
         does = "restart" => doc = Nowhere, does # "restart" => doc \in Doc,
         Sending({}, for, does, doc, body), body = Absent \/ Known(body),
         UNCHANGED <<page, opened, dirty, needsRestart, marks, unapplied, stored>>
  PROVE EInv'
<1> DEFINE p == NewCall("page", for, does, doc, body)
<1>0. /\ ETypeOK /\ CallsOK /\ FilesOK /\ OffersOK /\ Unseen /\ Editing
      /\ Placed({}, "page", for, does, doc, body)
      /\ UNCHANGED <<disk, torn, entry, restarting, overwritten, cancelled, discarded>>
  BY DEF EInv, Sending
<1>1. IsNew(p) /\ Made({}, p) /\ made + 1 \in 0..MaxCall
  BY <1>0, PlacedIs
<1>2. p.by = "page" /\ p.body = body /\ p.does # "pin"
  BY DEF NewCall
<1> HIDE DEF p
<1>3. {} \in SUBSET calls
  OBVIOUS
<1>4. /\ calls' \subseteq Call /\ made' \in 0..MaxCall /\ raced \subseteq raced' /\ raced' \subseteq Doc
      /\ muddled' \in BOOLEAN /\ CallsOK'
  BY <1>0, <1>1, <1>3, PlaceCounts
<1>5. calls' = calls \cup {p} /\ p.at = "sent"
  BY <1>1 DEF Made, IsNew
<1>6. ETypeOK'
  BY <1>0, <1>4 DEF ETypeOK
<1>7. FilesOK'
  BY <1>0, <1>2, <1>4, <1>5, FilesAside
<1>8. OffersOK'
  BY <1>0, <1>1, <1>2, <1>3, OffersPlaced
<1>9. Unseen'
  <2>1. \A m \in 0..MaxMark : Known(m)' => Known(m) \/ m \in {Absent, Shipped}
    BY <1>0, <1>2, <1>5 DEF Known
  <2> QED
    BY <1>0, <2>1, UnseenAside
<1>10. Editing'
  BY <1>0 DEF Editing
<1> QED
  BY <1>4, <1>6, <1>7, <1>8, <1>9, <1>10 DEF EInv

LEMMA PageSendsKeeps ==
  ASSUME EInv,
         \/ PageSaves \/ PageDeletes \/ PageRestarts
         \/ \E d \in Id, for \in {"new", "setup"} : PageCreates(d, for)
  PROVE EInv'
<1>0. /\ opened \in Doc \cup {Nowhere} /\ page \in [Doc -> 0..MaxMark] /\ Nowhere \notin Doc
      /\ Absent \in 0..MaxMark /\ Id \subseteq Doc
  BY MarksAre, SettingsAssumption DEF EInv, ETypeOK, Doc
<1>1. CASE PageSaves
  <2>1. /\ opened \in Doc /\ Sending({}, "itself", "put", opened, page[opened])
        /\ UNCHANGED <<page, opened, dirty, needsRestart, marks, unapplied, stored>>
    BY <1>0, <1>1 DEF PageSaves
  <2>2. Known(page[opened]) /\ page[opened] \in 0..MaxMark /\ opened # Nowhere
    BY <1>0, <2>1, KnownAre
  <2> QED
    BY <2>1, <2>2, SendingKeeps
<1>2. CASE PageDeletes
  <2>1. /\ opened \in Doc /\ opened # Nowhere /\ Sending({}, "itself", "delete", opened, Absent)
        /\ UNCHANGED <<page, opened, dirty, needsRestart, marks, unapplied, stored>>
    BY <1>0, <1>2 DEF PageDeletes
  <2> QED
    BY <1>0, <2>1, SendingKeeps
<1>3. CASE PageRestarts
  <2>1. /\ Sending({}, "itself", "restart", Nowhere, Absent)
        /\ UNCHANGED <<page, opened, dirty, needsRestart, marks, unapplied, stored>>
    BY <1>3 DEF PageRestarts
  <2> QED
    BY <1>0, <2>1, SendingKeeps
<1>4. ASSUME NEW d \in Id, NEW for \in {"new", "setup"}, PageCreates(d, for) PROVE EInv'
  <2>1. /\ Sending({}, for, "create", d, Absent) /\ d \in Doc /\ d # Nowhere
        /\ for \in {"itself", "new", "setup"}
        /\ UNCHANGED <<page, opened, dirty, needsRestart, marks, unapplied, stored>>
    BY <1>0, <1>4 DEF PageCreates
  <2> QED
    BY <1>0, <2>1, SendingKeeps
<1> QED
  BY <1>1, <1>2, <1>3, <1>4

LEMMA HeardIs ==
  ASSUME ETypeOK, CallsOK, NEW c \in calls, c.at = "landed", Heard(c)
  PROVE /\ needsRestart' \in BOOLEAN /\ unapplied' \subseteq Doc /\ stored' \in [Doc -> 0..MaxMark]
        /\ stored' = IF Changes(c) THEN [stored EXCEPT ![c.doc] = IF c.does = "delete" THEN Absent ELSE c.body]
                     ELSE stored
<1>1. c \in Call /\ c.body \in 0..MaxMark /\ Absent \in 0..MaxMark
  BY MarksAre, CallFields DEF ETypeOK
<1>2. Changes(c) => c.doc \in Doc
  BY <1>1, CallFields DEF CallsOK, Numbered, Changes
<1>3. /\ needsRestart' = (Marks(c) \/ (needsRestart /\ c.does # "restart"))
      /\ unapplied' = (IF Changes(c) /\ c.unread THEN unapplied \cup {c.doc} ELSE unapplied)
      /\ stored' = (IF Changes(c) THEN [stored EXCEPT ![c.doc] = IF c.does = "delete" THEN Absent ELSE c.body]
                    ELSE stored)
  BY DEF Heard, Ended
<1>4. needsRestart' \in BOOLEAN
  BY <1>3
<1>5. unapplied' \subseteq Doc
  BY <1>2, <1>3 DEF ETypeOK
<1>6. stored' \in [Doc -> 0..MaxMark]
  BY <1>1, <1>3 DEF ETypeOK
<1> QED
  BY <1>3, <1>4, <1>5, <1>6

LEMMA PageHearsKeeps ==
  ASSUME EInv, NEW c \in calls, PageHears(c)
  PROVE EInv'
<1>0. /\ ETypeOK /\ CallsOK /\ FilesOK /\ OffersOK /\ Unseen /\ Editing
      /\ c.by = "page" /\ c.at = "landed" /\ calls' = calls \ {c} /\ Heard(c)
      /\ page' = (IF c.does = "delete" THEN [page EXCEPT ![c.doc] = Absent]
                  ELSE IF c.for = "itself" THEN page ELSE [page EXCEPT ![c.doc] = c.body])
      /\ opened' = (IF c.does = "restart" THEN opened ELSE IF c.for = "new" THEN c.doc ELSE Nowhere)
      /\ dirty' = (dirty /\ c.does = "restart")
      /\ UNCHANGED <<disk, torn, made, marks, entry, restarting, raced, overwritten, muddled, cancelled, discarded>>
  BY DEF EInv, PageHears
<1>1. /\ c \in Call /\ c.body \in 0..MaxMark /\ c.doc \in Doc \cup {Nowhere} /\ Absent \in 0..MaxMark
      /\ page \in [Doc -> 0..MaxMark] /\ opened \in Doc \cup {Nowhere} /\ dirty \in BOOLEAN
  BY <1>0, MarksAre, CallFields DEF ETypeOK
<1>2. /\ needsRestart' \in BOOLEAN /\ unapplied' \subseteq Doc /\ stored' \in [Doc -> 0..MaxMark]
      /\ stored' = IF Changes(c) THEN [stored EXCEPT ![c.doc] = IF c.does = "delete" THEN Absent ELSE c.body]
                   ELSE stored
  BY <1>0, HeardIs
<1>3. page' \in [Doc -> 0..MaxMark] /\ opened' \in Doc \cup {Nowhere}
  BY <1>0, <1>1
<1>4. dirty' \in BOOLEAN
  BY <1>0
<1>5. ETypeOK'
  BY <1>0, <1>2, <1>3, <1>4 DEF ETypeOK
<1>6. CallsOK'
  BY <1>0, EndCounts
<1>7. FilesOK'
  BY <1>0, <1>2, FilesHeard
<1>8. OffersOK'
  BY <1>0, OffersHeard
<1>9. Unseen'
  <2>1. \A d \in Doc : page'[d] = page[d] \/ page'[d] = Absent \/ page'[d] = c.body
    BY <1>0, <1>1
  <2>2. \A m \in 0..MaxMark : Known(m)' => Known(m) \/ m \in {Absent, Shipped}
    BY <1>0, <2>1 DEF Known
  <2> QED
    BY <1>0, <2>2, UnseenAside
<1>10. Editing'
  <2>1. ASSUME dirty' PROVE opened' # Nowhere /\ page'[opened'] # Absent
    <3>1. c.does = "restart" /\ dirty
      BY <1>0, <2>1
    <3>2. c.doc = Nowhere
      BY <1>0, <3>1 DEF CallsOK, Numbered
    <3>3. opened' = opened /\ opened # Nowhere /\ page[opened] # Absent
      BY <1>0, <3>1 DEF Editing
    <3>4. page'[opened] = page[opened]
      BY <1>0, <1>1, <3>1, <3>2, <3>3
    <3> QED
      BY <3>3, <3>4
  <2> QED
    BY <1>0, <2>1 DEF Editing
<1> QED
  BY <1>5, <1>6, <1>7, <1>8, <1>9, <1>10 DEF EInv

LEMMA PageGoesOnKeeps ==
  ASSUME EInv, NEW c \in calls, PageGoesOn(c)
  PROVE EInv'
<1>0. /\ ETypeOK /\ CallsOK /\ FilesOK /\ OffersOK /\ Unseen /\ Editing
      /\ c.by = "page" /\ c.at = "landed" /\ c.does \in {"create", "get"} /\ Heard(c)
      /\ UNCHANGED <<page, opened, dirty, disk, torn, entry, restarting, overwritten, cancelled, discarded>>
  BY DEF EInv, PageGoesOn, Sending
<1>2. /\ c \in Call /\ c.for \in {"itself", "new", "setup"} /\ marks \in 1..MaxMark
      /\ MaxMark \in Nat /\ Absent = 0
  BY <1>0, MarksAre, CallFields DEF ETypeOK
<1>1. PICK does \in {"get", "put"}, body \in {Absent, marks + 1} :
        /\ Placed({c}, "page", c.for, does, c.doc, body)
        /\ marks' = marks \/ (marks' = marks + 1 /\ marks < MaxMark)
        /\ body = marks + 1 => marks' = marks + 1 /\ marks < MaxMark
  <2>1. CASE c.does = "create" /\ c.for = "new"
    <3>1. Placed({c}, "page", c.for, "get", c.doc, Absent) /\ marks' = marks
      BY <2>1 DEF PageGoesOn, Sending
    <3>2. Absent # marks + 1
      BY <1>2
    <3> QED
      BY <3>1, <3>2
  <2>2. CASE ~(c.does = "create" /\ c.for = "new")
    <3>1. Placed({c}, "page", c.for, "put", c.doc, marks + 1) /\ marks' = marks + 1 /\ marks < MaxMark
      BY <2>2 DEF PageGoesOn, Sending
    <3> QED
      BY <3>1
  <2> QED
    BY <2>1, <2>2
<1>3. c.doc \in Doc
  BY <1>0, <1>2, CallFields DEF CallsOK, Numbered
<1>4. body \in 0..MaxMark /\ (body = Absent \/ (body = marks' /\ marks' = marks + 1))
  BY <1>1, <1>2
<1> DEFINE p == NewCall("page", c.for, does, c.doc, body)
<1>5. IsNew(p) /\ Made({c}, p) /\ made + 1 \in 0..MaxCall
  BY <1>0, <1>1, <1>2, <1>3, <1>4, PlacedIs
<1>6. p.by = "page" /\ p.body = body /\ p.does = does
  BY DEF NewCall
<1> HIDE DEF p
<1>7. {c} \in SUBSET calls
  OBVIOUS
<1>8. /\ calls' \subseteq Call /\ made' \in 0..MaxCall /\ raced \subseteq raced' /\ raced' \subseteq Doc
      /\ muddled' \in BOOLEAN /\ (muddled => muddled') /\ CallsOK'
  BY <1>0, <1>5, <1>7, PlaceCounts
<1>9. calls' = (calls \ {c}) \cup {p} /\ p.at = "sent"
  BY <1>5 DEF Made, IsNew
<1>10. /\ needsRestart' \in BOOLEAN /\ unapplied' \subseteq Doc /\ stored' \in [Doc -> 0..MaxMark]
       /\ stored' = IF Changes(c) THEN [stored EXCEPT ![c.doc] = IF c.does = "delete" THEN Absent ELSE c.body]
                    ELSE stored
  BY <1>0, HeardIs
<1>11. ETypeOK'
  <2>1. marks' \in 1..MaxMark
    BY <1>1, <1>2
  <2> QED
    BY <1>0, <1>8, <1>10, <2>1 DEF ETypeOK
<1>12. FilesOK'
  <2>1. calls \ {c} \subseteq calls' /\ \A e \in calls' : e \in calls \/ (e.at \in {"sent", "failed"} /\ e.does # "pin")
    BY <1>6, <1>9
  <2> QED
    BY <1>0, <1>8, <1>10, <2>1, FilesHeard
<1>13. OffersOK'
  <2>1. \A e \in calls' : e.by = "page" => e \in calls \/ (e.does # "restart" /\ c.does # "restart")
    BY <1>0, <1>6, <1>9
  <2> QED
    BY <1>0, <1>8, <2>1, OffersHeard
<1>14. Unseen'
  <2>1. \A m \in 0..MaxMark : Known(m)' => Known(m) \/ m \in {Absent, Shipped} \/ (marks' = marks + 1 /\ m = marks')
    BY <1>0, <1>4, <1>6, <1>9 DEF Known
  <2> QED
    BY <1>0, <1>1, <2>1, UnseenAside
<1>15. Editing'
  BY <1>0 DEF Editing
<1> QED
  BY <1>8, <1>11, <1>12, <1>13, <1>14, <1>15 DEF EInv

LEMMA PageHearsErrorKeeps ==
  ASSUME EInv, NEW c \in calls, PageHearsError(c)
  PROVE EInv'
<1>0. /\ ETypeOK /\ CallsOK /\ FilesOK /\ OffersOK /\ Unseen /\ Editing
      /\ c.at = "failed" /\ calls' = calls \ {c}
      /\ UNCHANGED <<disk, torn, made, marks, page, opened, dirty, needsRestart, entry, restarting,
                     unapplied, stored, raced, overwritten, muddled, cancelled, discarded>>
  BY DEF EInv, PageHearsError, told
<1>1. ETypeOK'
  BY <1>0 DEF ETypeOK
<1>2. CallsOK'
  BY <1>0, EndCounts
<1>3. FilesOK'
  BY <1>0, FilesAside
<1>4. OffersOK'
  BY <1>0, OffersAside
<1>5. Unseen'
  <2>1. \A m \in 0..MaxMark : Known(m)' => Known(m)
    BY <1>0 DEF Known
  <2> QED
    BY <1>0, <2>1, UnseenAside
<1>6. Editing'
  BY <1>0 DEF Editing
<1> QED
  BY <1>1, <1>2, <1>3, <1>4, <1>5, <1>6 DEF EInv

LEMMA PageLoadsAgainKeeps ==
  ASSUME EInv, PageLoadsAgain
  PROVE EInv'
<1>0. /\ ETypeOK /\ CallsOK /\ FilesOK /\ OffersOK /\ Unseen /\ Editing
      /\ CallsOf("page") = {} /\ page' = [d \in Doc |-> IF d \notin torn THEN Read(d) ELSE IF d = Default THEN Shipped ELSE Absent]
      /\ opened' = Nowhere /\ dirty' = FALSE /\ needsRestart' = FALSE
      /\ muddled' = (muddled \/ unapplied # {})
      /\ UNCHANGED <<disk, torn, calls, made, marks, entry, restarting,
                     unapplied, stored, raced, overwritten, cancelled, discarded>>
  BY DEF EInv, PageLoadsAgain
<1>1. \A d \in Doc : page'[d] \in 0..MaxMark /\ page'[d] \in {Shipped, Absent, disk[d]}
  BY <1>0, MarksAre, ReadIs
<1>2. ETypeOK'
  <2>1. page' \in [Doc -> 0..MaxMark]
    BY <1>0, <1>1
  <2>2. muddled' \in BOOLEAN
    BY <1>0
  <2> QED
    BY <1>0, <2>1, <2>2 DEF ETypeOK
<1>3. CallsOK'
  BY <1>0, EndCounts
<1>4. FilesOK'
  BY <1>0, FilesAside
<1>5. OffersOK'
  BY <1>0 DEF OffersOK, Orders, RestartIsOffered, CallsOf
<1>6. Unseen'
  <2>1. \A m \in 0..MaxMark : Known(m)' => Known(m) \/ m \in {Absent, Shipped}
    BY <1>0, <1>1 DEF Known
  <2> QED
    BY <1>0, <2>1, UnseenAside
<1>7. Editing'
  BY <1>0 DEF Editing
<1> QED
  BY <1>2, <1>3, <1>4, <1>5, <1>6, <1>7 DEF EInv

----------------------------------------------------------------------------
(* The terminal.                                                           *)

(* The editor's draft is opened, changed, dropped. *)
LEMMA TermEntryKeeps ==
  ASSUME EInv, TermEdits \/ TermDrops \/ \E d \in Doc : TermOpens(d)
  PROVE EInv'
<1>0. /\ ETypeOK /\ CallsOK /\ FilesOK /\ OffersOK /\ Unseen /\ Editing
      /\ UNCHANGED <<disk, torn, calls, made, page, opened, dirty, needsRestart, restarting,
                     unapplied, stored, raced, overwritten, muddled, discarded>>
  BY DEF EInv, TermEdits, TermDrops, TermOpens, told
<1>1. /\ entry \in [doc : Doc \cup {Nowhere}, content : 0..MaxMark, own : BOOLEAN]
      /\ marks \in 1..MaxMark /\ MaxMark \in Nat /\ Shipped = 1 /\ Absent = 0 /\ cancelled \subseteq 1..MaxMark
  BY <1>0, MarksAre DEF ETypeOK
<1>2. \A m \in Secret : m \in 2..marks /\ m \in 1..MaxMark /\ ~Known(m)
  BY <1>0, <1>1 DEF Unseen
<1>3. Known(1)' = Known(1) /\ \A m : Known(m)' <=> Known(m)
  BY <1>0 DEF Known
<1>4. ASSUME marks' \in 1..MaxMark, cancelled' \subseteq 1..MaxMark,
             entry' \in [doc : Doc \cup {Nowhere}, content : 0..MaxMark, own : BOOLEAN],
             entry' # NoEntry => entry'.doc \in Doc, Unseen'
      PROVE EInv'
  <2>1. ETypeOK'
    BY <1>0, <1>4 DEF ETypeOK
  <2>2. CallsOK' /\ FilesOK' /\ OffersOK'
    BY <1>0, EndCounts, FilesAside, OffersAside
  <2>3. Editing'
    BY <1>0, <1>4 DEF Editing
  <2> QED
    BY <1>4, <2>1, <2>2, <2>3 DEF EInv
<1>5. CASE TermEdits
  <2>1. /\ entry # NoEntry /\ marks < MaxMark /\ marks' = marks + 1
        /\ entry' = [entry EXCEPT !.content = marks + 1, !.own = TRUE]
        /\ cancelled' = Secret
    BY <1>5 DEF TermEdits, Secret
  <2>2. /\ entry' \in [doc : Doc \cup {Nowhere}, content : 0..MaxMark, own : BOOLEAN]
        /\ entry'.doc = entry.doc /\ entry'.content = marks + 1 /\ entry'.own = TRUE
    <3>1. marks + 1 \in 0..MaxMark /\ TRUE \in BOOLEAN
      BY <1>1, <2>1
    <3> DEFINE m == marks + 1
    <3> HIDE DEF m
    <3>2. m \in 0..MaxMark /\ entry' = [entry EXCEPT !.content = m, !.own = TRUE]
      BY <2>1, <3>1 DEF m
    <3>3. /\ entry' \in [doc : Doc \cup {Nowhere}, content : 0..MaxMark, own : BOOLEAN]
          /\ entry'.doc = entry.doc /\ entry'.content = m /\ entry'.own = TRUE
      BY <1>1, <3>2
    <3> QED
      BY <3>3 DEF m
  <2>3. entry.doc \in Doc
    BY <1>0, <2>1 DEF Editing
  <2>4. Secret' = Secret \cup {marks + 1}
    BY <2>1, <2>2 DEF Secret
  <2>5. marks + 1 \in 0..MaxMark /\ ~Known(marks + 1)
    <3>1. marks + 1 \in 0..MaxMark /\ ~(marks + 1 <= marks)
      BY <1>1, <2>1
    <3> QED
      BY <1>0, <3>1 DEF Unseen
  <2>6. Unseen'
    <3>1. \A m \in Secret' : m \in (Shipped + 1)..marks' /\ ~Known(m)'
      BY <1>1, <1>2, <1>3, <2>1, <2>4, <2>5
    <3>2. entry'.content \notin cancelled' /\ entry'.content <= marks'
      BY <1>1, <1>2, <2>1, <2>2
    <3>3. \A m \in 0..MaxMark : Known(m)' => m <= marks'
      BY <1>0, <1>1, <1>3, <2>1 DEF Unseen
    <3> QED
      BY <3>1, <3>2, <3>3 DEF Unseen
  <2> QED
    BY <1>1, <1>2, <1>4, <2>1, <2>2, <2>3, <2>6
<1>6. CASE TermDrops
  <2>1. entry' = NoEntry /\ marks' = marks /\ cancelled' = Secret
    BY <1>6 DEF TermDrops, Secret
  <2>2. cancelled \subseteq Secret
    BY DEF Secret
  <2>3. Unseen'
    BY <1>0, <1>3, <2>1, <2>2, UnseenEntry
  <2>4. entry' \in [doc : Doc \cup {Nowhere}, content : 0..MaxMark, own : BOOLEAN]
    BY <1>1, <2>1 DEF NoEntry
  <2> QED
    BY <1>1, <1>2, <1>4, <2>1, <2>3, <2>4
<1>7. ASSUME NEW d \in Doc, TermOpens(d) PROVE EInv'
  <2>1. entry' = [doc |-> d, content |-> Read(d), own |-> FALSE] /\ marks' = marks /\ cancelled' = cancelled
    BY <1>7 DEF TermOpens, told
  <2>2. Read(d) \in 0..MaxMark /\ (Read(d) = Shipped \/ Known(Read(d)))
    BY <1>0, ReadIs, KnownAre
  <2>3. /\ entry' \in [doc : Doc \cup {Nowhere}, content : 0..MaxMark, own : BOOLEAN]
        /\ entry'.doc = d /\ entry'.content = Read(d) /\ ~entry'.own
    BY <2>1, <2>2
  <2>4. cancelled \subseteq Secret
    BY DEF Secret
  <2>5. Unseen'
    BY <1>0, <1>3, <2>1, <2>2, <2>3, <2>4, UnseenEntry
  <2> QED
    BY <1>1, <1>4, <2>1, <2>3, <2>5
<1> QED
  BY <1>5, <1>6, <1>7

(* The terminal makes a call, in place of the one it follows from. *)
LEMMA TermCallsKeeps ==
  ASSUME EInv, NEW old \in SUBSET calls, NEW p, IsNew(p), Made(old, p), made + 1 \in 0..MaxCall,
         p.by = "terminal", marks' \in 1..MaxMark, entry' \in {entry, NoEntry}, stored' \in [Doc -> 0..MaxMark],
         UNCHANGED <<disk, torn, page, opened, dirty, needsRestart, restarting, unapplied, overwritten, cancelled, discarded>>,
         FilesOK', Unseen'
  PROVE EInv'
<1>0. ETypeOK /\ CallsOK /\ OffersOK /\ Editing
  BY DEF EInv
<1>3. /\ calls' \subseteq Call /\ made' \in 0..MaxCall /\ raced' \subseteq Doc
      /\ muddled' \in BOOLEAN /\ (muddled => muddled') /\ CallsOK'
  BY <1>0, PlaceCounts
<1>4. calls' = (calls \ old) \cup {p}
  BY DEF Made
<1>5. ETypeOK'
  <2>1. CASE entry' = entry
    BY <1>0, <1>3, <2>1 DEF ETypeOK
  <2>2. CASE entry' = NoEntry
    <3>1. NoEntry \in [doc : Doc \cup {Nowhere}, content : 0..MaxMark, own : BOOLEAN]
      BY MarksAre DEF NoEntry
    <3> QED
      BY <1>0, <1>3, <2>2, <3>1 DEF ETypeOK
  <2> QED
    BY <2>1, <2>2
<1>7. OffersOK'
  <2>1. \A e \in calls' : e.by = "page" => e \in calls
    BY <1>4
  <2> QED
    BY <1>0, <1>3, <2>1, OffersAside
<1>9. Editing'
  BY <1>0 DEF Editing
<1> QED
  BY <1>3, <1>5, <1>7, <1>9 DEF EInv

(* A call of the terminal that follows from none. *)
LEMMA TermStartsKeeps ==
  ASSUME EInv, NEW for, for \in {"itself", "setup"}, NEW does, does \in {"put", "delete", "create"},
         NEW doc, doc \in Doc, NEW body,
         \/ entry' = entry /\ body = Absent
         \/ entry' = NoEntry /\ body = entry.content,
         TermCalls({}, for, does, doc, body), marks' = marks, stored' = stored
  PROVE EInv'
<1>0. /\ ETypeOK /\ FilesOK /\ Unseen /\ Placed({}, "terminal", for, does, doc, body)
      /\ UNCHANGED <<disk, torn, page, opened, dirty, needsRestart, restarting, unapplied, overwritten, cancelled, discarded>>
  BY DEF EInv, TermCalls
<1>1. body \in 0..MaxMark /\ entry' \in {entry, NoEntry} /\ for \in {"itself", "new", "setup"}
      /\ marks \in 1..MaxMark /\ stored \in [Doc -> 0..MaxMark]
  BY <1>0, MarksAre DEF ETypeOK
<1> DEFINE p == NewCall("terminal", for, does, doc, body)
<1>2. IsNew(p) /\ Made({}, p) /\ made + 1 \in 0..MaxCall
  BY <1>0, <1>1, PlacedIs
<1>3. p.by = "terminal" /\ p.body = body /\ p.does # "pin"
  BY DEF NewCall
<1> HIDE DEF p
<1>4. calls' = calls \cup {p} /\ p.at = "sent" /\ raced \subseteq raced' /\ {} \in SUBSET calls
  BY <1>2 DEF Made, IsNew
<1>5. FilesOK'
  BY <1>0, <1>3, <1>4, FilesAside
<1>6. \A m \in 0..MaxMark : Known(m)' => Known(m) \/ m = body
  BY <1>0, <1>3, <1>4 DEF Known
<1>7. Unseen'
  <2>1. CASE entry' = entry /\ body = Absent
    BY <1>0, <1>6, <2>1, UnseenAside
  <2>2. CASE entry' = NoEntry /\ body = entry.content
    <3>1. cancelled \subseteq Secret
      BY DEF Secret
    <3> QED
      BY <1>0, <1>6, <2>2, <3>1, UnseenEntry
  <2> QED
    BY <2>1, <2>2
<1> QED
  BY <1>0, <1>1, <1>2, <1>3, <1>4, <1>5, <1>7, TermCallsKeeps

LEMMA TermSendsKeeps ==
  ASSUME EInv,
         \/ TermSaves
         \/ \E d \in Id : TermDeletes(d) \/ TermCreates(d, "itself") \/ TermCreates(d, "setup")
  PROVE EInv'
<1>1. CASE TermSaves
  <2>1. /\ entry' = NoEntry /\ TermCalls({}, "itself", "put", entry.doc, entry.content)
        /\ marks' = marks /\ stored' = stored /\ entry.doc \in Doc
    BY <1>1 DEF TermSaves, EInv, Editing
  <2> QED
    BY <2>1, TermStartsKeeps
<1>2. ASSUME NEW d \in Id, TermDeletes(d) PROVE EInv'
  <2>1. /\ entry' = entry /\ TermCalls({}, "itself", "delete", d, Absent)
        /\ marks' = marks /\ stored' = stored /\ d \in Doc
    BY <1>2 DEF TermDeletes, Doc
  <2> QED
    BY <2>1, TermStartsKeeps
<1>3. ASSUME NEW d \in Id, NEW for \in {"itself", "setup"}, TermCreates(d, for) PROVE EInv'
  <2>1. /\ entry' = entry /\ TermCalls({}, for, "create", d, Absent)
        /\ marks' = marks /\ stored' = stored /\ d \in Doc /\ for \in {"itself", "setup"}
    BY <1>3 DEF TermCreates, Doc
  <2> QED
    BY <2>1, TermStartsKeeps
<1> QED
  BY <1>1, <1>2, <1>3

(* The terminal hears of the end of its call: of the two ways it is heard   *)
(* of, what it stores is the same.                                         *)
LEMMA TermHearsKeeps ==
  ASSUME EInv, NEW c \in calls, TermHears(c)
  PROVE EInv'
<1>0. /\ ETypeOK /\ CallsOK /\ FilesOK /\ OffersOK /\ Unseen /\ Editing
      /\ c.by = "terminal" /\ c.at \in {"landed", "failed"} /\ (c.at = "landed" => c.does # "get")
      /\ calls' = calls \ {c}
      /\ stored' = (IF c.at = "landed" THEN Ended(c) ELSE stored)
      /\ UNCHANGED <<disk, torn, made, marks, page, opened, dirty, needsRestart, entry, restarting,
                     unapplied, raced, overwritten, muddled, cancelled, discarded>>
  BY DEF EInv, TermHears
<1>1. c \in Call /\ c.does # "restart" /\ c.body \in 0..MaxMark /\ Absent \in 0..MaxMark
  BY <1>0, MarksAre, CallFields DEF ETypeOK, CallsOK, Numbered
<1>2. ETypeOK'
  <2>1. stored' \in [Doc -> 0..MaxMark]
    BY <1>0, <1>1 DEF ETypeOK, Ended
  <2> QED
    BY <1>0, <2>1 DEF ETypeOK
<1>3. CallsOK'
  BY <1>0, EndCounts
<1>4. FilesOK'
  <2>1. CASE c.at = "landed"
    <3>1. stored' = IF Changes(c) THEN [stored EXCEPT ![c.doc] = IF c.does = "delete" THEN Absent ELSE c.body]
                    ELSE stored
      BY <1>0, <2>1 DEF Ended
    <3> QED
      BY <1>0, <2>1, <3>1, FilesHeard
  <2>2. CASE c.at # "landed"
    BY <1>0, <2>2, FilesAside
  <2> QED
    BY <2>1, <2>2
<1>5. OffersOK'
  BY <1>0, OffersAside
<1>6. Unseen'
  <2>1. \A m \in 0..MaxMark : Known(m)' => Known(m)
    BY <1>0 DEF Known
  <2> QED
    BY <1>0, <2>1, UnseenAside
<1>7. Editing'
  BY <1>0 DEF Editing
<1> QED
  BY <1>2, <1>3, <1>4, <1>5, <1>6, <1>7 DEF EInv

LEMMA TermGoesOnKeeps ==
  ASSUME EInv, NEW c \in calls, TermGoesOn(c)
  PROVE EInv'
<1>0. /\ ETypeOK /\ CallsOK /\ FilesOK /\ OffersOK /\ Unseen /\ Editing
      /\ c.by = "terminal" /\ c.at = "landed" /\ entry' = entry
      /\ UNCHANGED <<disk, torn, page, opened, dirty, needsRestart, restarting, unapplied, overwritten, cancelled, discarded>>
  BY DEF EInv, TermGoesOn, TermCalls
<1>1. /\ c \in Call /\ marks \in 1..MaxMark /\ c.body \in 0..MaxMark
      /\ MaxMark \in Nat /\ Absent = 0 /\ stored \in [Doc -> 0..MaxMark]
  BY <1>0, MarksAre, CallFields DEF ETypeOK
<1>2. PICK does \in {"get", "put"}, body \in {Absent, marks + 1} :
        /\ Placed({c}, "terminal", "setup", does, c.doc, body)
        /\ marks' = marks \/ (marks' = marks + 1 /\ marks < MaxMark)
        /\ body = marks + 1 => marks' = marks + 1 /\ marks < MaxMark
  <2>1. CASE c.does = "create"
    <3>1. Placed({c}, "terminal", "setup", "get", c.doc, Absent) /\ marks' = marks
      BY <2>1 DEF TermGoesOn, TermCalls
    <3>2. Absent # marks + 1
      BY <1>1
    <3> QED
      BY <3>1, <3>2
  <2>2. CASE c.does = "get"
    <3>1. Placed({c}, "terminal", "setup", "put", c.doc, marks + 1) /\ marks' = marks + 1 /\ marks < MaxMark
      BY <2>2 DEF TermGoesOn, TermCalls
    <3> QED
      BY <3>1
  <2> QED
    BY <2>1, <2>2 DEF TermGoesOn
<1>3. c.does \in {"create", "get"} /\ c.doc \in Doc
  <2>1. c.does \in {"create", "get"}
    BY DEF TermGoesOn
  <2> QED
    BY <1>0, <1>1, <2>1, CallFields DEF CallsOK, Numbered
<1>4. body \in 0..MaxMark /\ (body = Absent \/ (body = marks' /\ marks' = marks + 1))
  BY <1>1, <1>2
<1>5. stored' = IF Changes(c) THEN [stored EXCEPT ![c.doc] = IF c.does = "delete" THEN Absent ELSE c.body]
                ELSE stored
  BY DEF TermGoesOn, Changes
<1>6. stored' \in [Doc -> 0..MaxMark]
  BY <1>1, <1>3, <1>5
<1> DEFINE p == NewCall("terminal", "setup", does, c.doc, body)
<1>7. IsNew(p) /\ Made({c}, p) /\ made + 1 \in 0..MaxCall
  BY <1>0, <1>2, <1>3, <1>4, PlacedIs
<1>8. p.by = "terminal" /\ p.body = body /\ p.does # "pin"
  BY DEF NewCall
<1> HIDE DEF p
<1>9. calls' = (calls \ {c}) \cup {p} /\ p.at = "sent" /\ raced \subseteq raced' /\ {c} \in SUBSET calls
  BY <1>7 DEF Made, IsNew
<1>10. FilesOK'
  <2>1. calls \ {c} \subseteq calls' /\ \A e \in calls' : e \in calls \/ (e.at \in {"sent", "failed"} /\ e.does # "pin")
    BY <1>8, <1>9
  <2> QED
    BY <1>0, <1>5, <1>9, <2>1, FilesHeard
<1>11. Unseen'
  <2>1. \A m \in 0..MaxMark : Known(m)' => Known(m) \/ m \in {Absent, Shipped} \/ (marks' = marks + 1 /\ m = marks')
    BY <1>0, <1>4, <1>8, <1>9 DEF Known
  <2> QED
    BY <1>0, <1>2, <2>1, UnseenAside
<1>12. marks' \in 1..MaxMark
  BY <1>1, <1>2
<1> QED
  BY <1>0, <1>6, <1>7, <1>8, <1>9, <1>10, <1>11, <1>12, TermCallsKeeps

----------------------------------------------------------------------------
(* The settings, whoever edits.                                            *)

LEMMA EditorsStart ==
  ASSUME EFresh, made \in 0..MaxCall, marks \in 1..MaxMark
  PROVE EInv
<1>0. /\ disk = [d \in Doc |-> Absent] /\ page = [d \in Doc |-> Read(d)] /\ stored = disk /\ calls = {} /\ torn = {}
      /\ opened = Nowhere /\ dirty = FALSE /\ needsRestart = FALSE /\ entry = NoEntry /\ restarting = FALSE
      /\ unapplied = {} /\ raced = {} /\ overwritten = {} /\ muddled = FALSE
      /\ cancelled = {} /\ discarded = {}
  BY DEF EFresh
<1>1. \A d \in Doc : disk[d] = Absent /\ Read(d) \in {Absent, Shipped} /\ page[d] = Read(d)
  BY <1>0 DEF Read
<1>2. NoEntry.content = Absent /\ NoEntry.own = FALSE
      /\ NoEntry \in [doc : Doc \cup {Nowhere}, content : 0..MaxMark, own : BOOLEAN]
  BY MarksAre DEF NoEntry
<1>3. ETypeOK
  <2>1. disk \in [Doc -> 0..MaxMark] /\ page \in [Doc -> 0..MaxMark] /\ stored \in [Doc -> 0..MaxMark]
    BY <1>0, <1>1, MarksAre
  <2> QED
    BY <1>0, <1>2, <2>1 DEF ETypeOK
<1>4. CallsOK
  BY <1>0 DEF CallsOK, Numbered, Looked
<1>5. FilesOK
  BY <1>0 DEF FilesOK, InPlace, Pinning, StoredStands, CreationKeeps
<1>6. OffersOK
  BY <1>0 DEF OffersOK, Orders, CallsOf, RestartIsOffered
<1>7. Unseen
  <2>1. Secret = {}
    BY <1>0, <1>2 DEF Secret
  <2>2. \A m \in 0..MaxMark : Known(m) => m \in {Absent, Shipped}
    BY <1>0, <1>1 DEF Known
  <2>3. \A m \in {Absent, Shipped} : m <= marks
    BY MarksAre
  <2> QED
    BY <1>0, <1>2, <2>1, <2>2, <2>3 DEF Unseen
<1>8. Editing
  BY <1>0 DEF Editing
<1> QED
  BY <1>3, <1>4, <1>5, <1>6, <1>7, <1>8 DEF EInv

LEMMA EditorsRest == ASSUME EInv, UNCHANGED evars PROVE EInv'
<1>0. UNCHANGED <<disk, torn, calls, made, marks, page, opened, dirty, needsRestart, entry, restarting,
                  unapplied, stored, raced, overwritten, muddled, cancelled, discarded>>
  BY DEF evars
<1>1. ETypeOK' /\ Editing'
  BY <1>0 DEF EInv, ETypeOK, Editing
<1>2. CallsOK' /\ FilesOK' /\ OffersOK'
  BY <1>0, EndCounts, FilesAside, OffersAside DEF EInv
<1>3. Unseen'
  <2>1. \A m : Known(m)' => Known(m)
    BY <1>0 DEF Known
  <2> QED
    BY <1>0, <2>1, UnseenAside DEF EInv
<1> QED
  BY <1>1, <1>2, <1>3 DEF EInv

LEMMA EditorsStep == EInv /\ [ENext]_evars => EInv'
<1> SUFFICES ASSUME EInv, [ENext]_evars PROVE EInv'
  OBVIOUS
<1>1. CASE UNCHANGED evars
  BY <1>1, EditorsRest
<1>2. CASE OpsStep
  BY <1>2, RuntimeReadsKeeps, OpsKeep, WritesKeeps, LosesAnswerKeeps DEF OpsStep
<1>5. CASE PinStep
  BY <1>5, CommandKeeps
<1>3. CASE SettingsPage
  BY <1>3, PageEditsKeeps, PageSendsKeeps, PageHearsKeeps, PageGoesOnKeeps, PageHearsErrorKeeps,
     PageLoadsAgainKeeps DEF SettingsPage
<1>4. CASE SettingsTerminal
  BY <1>4, TermEntryKeeps, TermSendsKeeps, TermHearsKeeps, TermGoesOnKeeps DEF SettingsTerminal
<1> QED
  BY <1>1, <1>2, <1>3, <1>4, <1>5 DEF ENext

(* The inductive invariant of the settings: the calls that cross, what they *)
(* have written, whether they reported it or not, what the commands pin     *)
(* beside them, and what the terminal keeps to itself.                     *)
THEOREM SettingsInvariant == ESpec => []EInv
<1>1. EInit => EInv
  BY MarksAre, EditorsStart DEF EInit
<1>2. EInv /\ [ENext]_evars => EInv'
  BY EditorsStep
<1> QED
  BY <1>1, <1>2, PTL DEF ESpec

LEMMA EditorsHold == EInv => EditorsAreHonest
<1> SUFFICES ASSUME EInv PROVE EditorsAreHonest
  OBVIOUS
<1>1. RestartIsOffered
  BY DEF EInv, OffersOK
<1>2. CancelledStaysOut
  BY DEF EInv, Unseen, Secret, Known, CancelledStaysOut
<1> QED
  BY <1>1, <1>2 DEF EditorsAreHonest

LEMMA ReportsHold == EInv /\ CInv => ReportedIsKept
<1> SUFFICES ASSUME EInv, CInv PROVE ReportedIsKept
  OBVIOUS
<1>1. StoredStands /\ CreationKeeps
  BY DEF EInv, FilesOK
<1>2. SavedStays /\ DefaultExists
  BY DEF CInv, AllBacked, Backed, DefaultExists
<1> QED
  BY <1>1, <1>2 DEF ReportedIsKept

(* What the editors of the settings say is true, however their calls, the  *)
(* restarts and the two editors interleave.                                *)
THEOREM EditorsHonest == ESpec => []EditorsAreHonest
BY SettingsInvariant, EditorsHold, PTL

----------------------------------------------------------------------------
(* Everything an operator works with, as the run `operator' composes it.   *)

(* The five inductive invariants, side by side.                            *)
THEOREM OperatorInvariant == OperatorSpec => [](PRInv /\ EInv /\ CInv /\ SFInv /\ TInv)
<1>1. OperatorInit => PRInv /\ EInv /\ CInv /\ SFInv /\ TInv
  <2>1. OperatorInit => ProcessesAtFirst /\ EFresh /\ made \in 0..MaxCall /\ marks \in 1..MaxMark
                        /\ CInit /\ SFInit /\ TabsInit
    BY MarksAre DEF OperatorInit
  <2> QED
    BY <2>1, ProcessesInit, EditorsStart, CatalogueInit, SurfacesInit, TabsStart
<1>2. [OperatorNext]_operatorVars =>
        [PRNext]_prvars /\ [ENext]_evars /\ [CNext]_cvars /\ [SFNext]_svars /\ [TabsNext]_tvars
  BY DEF OperatorNext, operatorVars
<1>3. PRInv /\ EInv /\ CInv /\ SFInv /\ TInv /\ [OperatorNext]_operatorVars =>
        (PRInv /\ EInv /\ CInv /\ SFInv /\ TInv)'
  BY <1>2, ProcessesStep, EditorsStep, CatalogueStep, SurfacesStep, TabsStep
<1> QED
  BY <1>1, <1>3, PTL DEF OperatorSpec

(* Every part keeps its types, whichever is the subject.                   *)
THEOREM OperatorTypes == OperatorSpec => []OperatorTypeOK
<1>1. CInv => CTypeOK
  <2> SUFFICES ASSUME CInv PROVE CTypeOK
    OBVIOUS
  <2>1. Content \in Catalogues
    BY DEF CInv, CatalogueTyped, Content, Catalogues
  <2> QED
    BY <2>1 DEF CInv, CatalogueTyped, CTypeOK, EditorType, PutType
<1>2. TInv => TabsTypeOK
  <2> SUFFICES ASSUME TabsTyped PROVE TabsTypeOK
    BY DEF TInv
  <2>1. tabs.made \in 0..MaxTab /\ MaxTab \in Nat
    BY TabsAssumption DEF TabsTyped
  <2>2. meant \in 0..MaxTab
    BY <2>1 DEF TabsTyped
  <2>3. ASSUME NEW u \in Use
        PROVE /\ use[u].tool \in Tool \cup {"none"} /\ use[u].tab \in 0..MaxTab
              /\ use[u].at \in {"idle", "listing", "listed", "making", "attach", "command", "poll",
                                "asking", "done", "failed"}
              /\ use[u].targets \subseteq Tab /\ use[u].got \in Seq(0..MaxPage)
    BY <2>3 DEF TabsTyped, UseType
  <2> QED
    BY <2>1, <2>2, <2>3 DEF TabsTyped, TabsTypeOK
<1>3. PRInv /\ EInv /\ CInv /\ SFInv /\ TInv => OperatorTypeOK
  BY <1>1, <1>2 DEF PRInv, EInv, SFInv, OperatorTypeOK
<1> QED
  BY <1>3, OperatorInvariant, PTL

(* What was reported as saved is what the files hold - settings, services, *)
(* the default service, the agents that were there - whoever edits beside. *)
THEOREM ReportsAreKept == OperatorSpec => []ReportedIsKept
BY OperatorInvariant, ReportsHold, PTL

(* The rest of what the run checks: the daemons are recorded, alone and     *)
(* down when killed, and the editors are honest.                           *)
THEOREM OperatorIsServed == OperatorSpec => [](DaemonsKept /\ KilledStaysDown /\ EditorsAreHonest)
<1>1. PRInv /\ EInv => DaemonsKept /\ KilledStaysDown /\ EditorsAreHonest
  BY InvariantKeeps, EditorsHold DEF PRInv
<1> QED
  BY <1>1, OperatorInvariant, PTL
=============================================================================
