--------------------------- MODULE CollectProofs ---------------------------
(***************************************************************************)
(* Proofs about Collect for any clients, songs and bounds: its types, with *)
(* the foreign key of the songs of a list; that no second list comes to be *)
(* while no statement fails; and, while one login at a time is at work,    *)
(* the order of the list, the hearts and the page. For the types the       *)
(* handler must know that the list it has found is still there; for the    *)
(* second, that after the attempt to create the default list there is one, *)
(* whoever did it; for the order, that what a handler has read is still    *)
(* so; and for the hearts and the page, what the requests, the handler and *)
(* the answers on their way will make of them.                             *)
(***************************************************************************)
EXTENDS Collect, FiniteSetTheorems, SequenceTheorems, TLAPS

\* A handler at work on the songs of a list has found it.
ListFound == \A c \in Client :
    job[c].at \in {"count", "max", "insert", "delete", "order", "renumber"} => job[c].list \in lists

\* Without a failure the default list is there once the handler has tried to
\* create it, and the other one is never called for.
OnlyDefault == NoFaultYet =>
    /\ "plain" \notin lists
    /\ \A c \in Client : /\ job[c].cover
                         /\ job[c].at # "insert plain"
                         /\ job[c].at = "select any" => lists # {}

Inv == TypeOK /\ ListFound /\ OnlyDefault

LEMMA InitInv == Init => Inv
<1> SUFFICES ASSUME Init PROVE Inv
  OBVIOUS
<1> USE CollectAssumption
<1>1. Cardinality(Song) \in Nat
  BY FS_CardinalityType
<1>2. pos \in [List -> [Song -> Nat]]
  BY <1>1 DEF Init
<1>3. Idle \in Job
  BY DEF Idle, Job, Step, List
<1>4. job \in [Client -> Job] /\ \A c \in Client : job[c].at = "idle" /\ job[c].cover
  BY <1>3 DEF Init, Idle
<1>5. heart \in [Client -> SUBSET Song] /\ page \in [Client -> SUBSET Song]
  BY DEF Init, Liked, Songs
<1>6. /\ req \in [Client -> Seq(Request)] /\ rsp \in [Client -> Seq(Response)]
      /\ up \in [Client -> BOOLEAN] /\ token \in Client /\ fresh \in [Client -> BOOLEAN]
  BY DEF Init
<1>7. lists \subseteq List /\ "plain" \notin lists /\ overlap \in BOOLEAN
  BY DEF Init, List
<1>8. /\ clicks \in 0..MaxClicks /\ opens \in 0..MaxOpens
      /\ logins \in 0..MaxLogins /\ faultsLeft \in 0..MaxFaults
  BY DEF Init
<1>9. \A l \in List \ lists : Songs(l) = {}
  BY DEF Init
<1>10. TypeOK
  BY <1>2, <1>4, <1>5, <1>6, <1>7, <1>8, <1>9 DEF TypeOK, SongSteps
<1>11. ListFound /\ OnlyDefault
  BY <1>4, <1>7 DEF ListFound, OnlyDefault
<1> QED BY <1>10, <1>11 DEF Inv

\* What sending, answering and taking do to the queues.
LEMMA SendType ==
    ASSUME TypeOK, NEW c \in Client, NEW kind, NEW s,
           [kind |-> kind, song |-> s] \in Request, Send(c, kind, s)
    PROVE  req' \in [Client -> Seq(Request)]
BY AppendProperties DEF TypeOK, Send

LEMMA AnswerType ==
    ASSUME TypeOK, NEW c \in Client, NEW kind \in {"like", "unlike", "info", "songs"},
           NEW s \in Song \cup {None}, NEW error \in {"success", "token", "other"},
           NEW songs \in SUBSET Song, (s \in Song) <=> (kind \in {"like", "unlike"}),
           Answer(c, kind, s, error, songs)
    PROVE  rsp' \in [Client -> Seq(Response)]
<1>1. [kind |-> kind, song |-> s, error |-> error, songs |-> songs] \in Response
  BY DEF Response
<1> QED BY <1>1, AppendProperties DEF TypeOK, Answer

LEMMA TakeType ==
    ASSUME NEW S, NEW q \in Seq(S), q # <<>>
    PROVE  Head(q) \in S /\ Tail(q) \in Seq(S)
BY HeadTailProperties

\* A fault ends what holds without one.
LEMMA FaultsLeft ==
    ASSUME TypeOK, Fault \/ NoFault
    PROVE  /\ faultsLeft' \in 0..MaxFaults
           /\ Fault => ~NoFaultYet'
           /\ NoFault => (NoFaultYet' <=> NoFaultYet)
BY CollectAssumption DEF TypeOK, Fault, NoFault, NoFaultYet

\* The steps of the client and of the logins leave the handlers and the lists.
LEMMA ClientStep ==
    ASSUME Inv, NEW c \in Client,
           \/ Open(c) \/ \E s \in Song : Click(c, s)
           \/ ReceiveCollect(c) \/ ReceiveInfo(c) \/ ReceiveSongs(c)
           \/ InsertToken(c) \/ Login(c) \/ Kick(c)
    PROVE  Inv'
<1> USE CollectAssumption
<1>0. TypeOK
  BY DEF Inv
<1>1. /\ job' = job /\ lists' = lists /\ pos' = pos /\ faultsLeft' = faultsLeft
      /\ overlap' \in BOOLEAN
  BY <1>0 DEF Open, Click, ReceiveCollect, ReceiveInfo, ReceiveSongs, InsertToken, Login, Kick,
              db, session, TypeOK
<1>2. ListFound' /\ OnlyDefault'
  BY <1>1 DEF Inv, ListFound, OnlyDefault, NoFaultYet
<1>3. (pos \in [List -> [Song -> Nat]] /\ \A l \in List \ lists : Songs(l) = {})'
  BY <1>0, <1>1 DEF TypeOK, Songs
<1>4. CASE Open(c)
  <2>1. req' \in [Client -> Seq(Request)]
    BY <1>0, <1>4, SendType DEF Open, Request
  <2>2. opens' \in 0..MaxOpens
    BY <1>0, <1>4 DEF Open, TypeOK
  <2> QED BY <1>0, <1>1, <1>2, <1>3, <1>4, <2>1, <2>2 DEF Open, Inv, TypeOK, session, ui
<1>5. ASSUME NEW s \in Song, Click(c, s) PROVE Inv'
  <2>1. req' \in [Client -> Seq(Request)]
    BY <1>0, <1>5, SendType DEF Click, Request
  <2>2. clicks' \in 0..MaxClicks
    BY <1>0, <1>5 DEF Click, TypeOK
  <2>3. heart' \in [Client -> SUBSET Song] /\ fresh' \in [Client -> BOOLEAN]
    BY <1>0, <1>5 DEF Click, TypeOK
  <2> QED BY <1>0, <1>1, <1>2, <1>3, <1>5, <2>1, <2>2, <2>3 DEF Click, Inv, TypeOK, session
<1>6. ASSUME rsp[c] # <<>>, Received(c)
      PROVE  rsp' \in [Client -> Seq(Response)] /\ Head(rsp[c]) \in Response
  BY <1>0, <1>6, TakeType DEF TypeOK, Received
<1>7. CASE ReceiveCollect(c)
  <2>1. rsp' \in [Client -> Seq(Response)] /\ Head(rsp[c]) \in Response
    BY <1>6, <1>7 DEF ReceiveCollect
  <2>2. heart' \in [Client -> SUBSET Song]
    <3> DEFINE a == Head(rsp[c])
    <3>1. heart' = [heart EXCEPT ![c] = IF a.error # "other" THEN @
                        ELSE IF a.kind = "like" THEN @ \ {a.song} ELSE @ \cup {a.song}]
          /\ a.kind \in {"like", "unlike"}
      BY <1>7 DEF ReceiveCollect
    <3>2. a.error = "other" => a.song \in Song
      BY <2>1, <3>1 DEF Response
    <3> QED BY <1>0, <3>1, <3>2 DEF TypeOK
  <2> QED BY <1>0, <1>1, <1>2, <1>3, <1>7, <2>1, <2>2 DEF ReceiveCollect, Inv, TypeOK, session, bounds
<1>8. CASE ReceiveInfo(c)
  <2>1. rsp' \in [Client -> Seq(Response)]
    BY <1>6, <1>8 DEF ReceiveInfo
  <2>2. req' \in [Client -> Seq(Request)] /\ fresh' \in [Client -> BOOLEAN]
    BY <1>0, <1>8, SendType DEF ReceiveInfo, Request, TypeOK
  <2> QED BY <1>0, <1>1, <1>2, <1>3, <1>8, <2>1, <2>2 DEF ReceiveInfo, Inv, TypeOK, session, bounds
<1>9. CASE ReceiveSongs(c)
  <2>1. rsp' \in [Client -> Seq(Response)] /\ Head(rsp[c]).songs \in SUBSET Song
    BY <1>6, <1>9 DEF ReceiveSongs, Response
  <2>2. page' \in [Client -> SUBSET Song]
    BY <1>0, <1>9, <2>1 DEF ReceiveSongs, TypeOK
  <2> QED BY <1>0, <1>1, <1>2, <1>3, <1>9, <2>1, <2>2 DEF ReceiveSongs, Inv, TypeOK, session, bounds
<1>10. CASE InsertToken(c)
  BY <1>0, <1>1, <1>2, <1>3, <1>10 DEF InsertToken, Inv, TypeOK, ui
<1>11. CASE Login(c)
  <2>1. heart' \in [Client -> SUBSET Song]
    BY <1>0, <1>11 DEF Login, Liked, Songs, TypeOK
  <2> QED BY <1>0, <1>1, <1>2, <1>3, <1>11, <2>1 DEF Login, Inv, TypeOK, bounds
<1>12. CASE Kick(c)
  BY <1>0, <1>1, <1>2, <1>3, <1>12 DEF Kick, Inv, TypeOK, ui, bounds
<1> QED BY <1>4, <1>5, <1>7, <1>8, <1>9, <1>10, <1>11, <1>12

\* A handler that goes on to j keeps what is known of the handlers.
LEMMA JobStep ==
    ASSUME Inv, NEW c \in Client, NEW j \in Job, job' = [job EXCEPT ![c] = j],
           j.at \in SongSteps => j.song \in Song,
           lists \subseteq lists',
           j.at \in {"count", "max", "insert", "delete", "order", "renumber"} => j.list \in lists',
           NoFaultYet' => NoFaultYet,
           NoFaultYet' => /\ "plain" \notin lists'
                          /\ j.cover /\ j.at # "insert plain"
                          /\ j.at = "select any" => lists' # {}
    PROVE  /\ job' \in [Client -> Job]
           /\ \A d \in Client : job'[d].at \in SongSteps => job'[d].song \in Song
           /\ ListFound' /\ OnlyDefault'
<1>1. job \in [Client -> Job]
  BY DEF Inv, TypeOK
<1>2. job'[c] = j /\ \A d \in Client \ {c} : job'[d] = job[d]
  BY <1>1
<1>3. job' \in [Client -> Job]
  BY <1>1
<1>4. \A d \in Client : job'[d].at \in SongSteps => job'[d].song \in Song
  BY <1>2 DEF Inv, TypeOK
<1>5. ListFound'
  BY <1>2 DEF Inv, ListFound
<1>6. OnlyDefault'
  <2> SUFFICES ASSUME NoFaultYet', NEW d \in Client
               PROVE  /\ "plain" \notin lists'
                      /\ job'[d].cover /\ job'[d].at # "insert plain"
                      /\ job'[d].at = "select any" => lists' # {}
    BY DEF OnlyDefault
  <2>1. CASE d = c
    BY <1>2, <2>1
  <2>2. CASE d # c
    BY <1>2, <2>2 DEF Inv, OnlyDefault
  <2> QED BY <2>1, <2>2
<1> QED BY <1>3, <1>4, <1>5, <1>6

\* What is left to show of a step of a worker that is not its end.
LEMMA WorkerKeeps ==
    ASSUME Inv, UNCHANGED <<session, ui, bounds>>,
           req' \in [Client -> Seq(Request)], rsp' \in [Client -> Seq(Response)],
           faultsLeft' \in 0..MaxFaults,
           job' \in [Client -> Job],
           \A d \in Client : job'[d].at \in SongSteps => job'[d].song \in Song,
           lists' \subseteq List, pos' \in [List -> [Song -> Nat]],
           \A l \in List \ lists' : \A s \in Song : pos'[l][s] = 0,
           ListFound', OnlyDefault'
    PROVE  Inv'
<1>1. (\A l \in List \ lists : Songs(l) = {})'
  BY DEF Songs
<1> QED BY <1>1 DEF Inv, TypeOK, session, ui, bounds

\* Goto leaves the list.
LEMMA GotoSame ==
    ASSUME Inv, NEW c \in Client, NEW step \in Step, Goto(c, step)
    PROVE  job' = [job EXCEPT ![c].at = step, ![c].list = job[c].list]
BY DEF Inv, TypeOK, Job, Goto

\* It goes on with a list it may not have found, or has.
LEMMA Going ==
    ASSUME Inv, NEW c \in Client, job[c].at \in SongSteps, NEW step \in SongSteps, NEW l \in List,
           job' = [job EXCEPT ![c].at = step, ![c].list = l],
           lists \subseteq lists',
           step \in {"count", "max", "insert", "delete", "order", "renumber"} => l \in lists',
           NoFaultYet' => NoFaultYet,
           NoFaultYet' => /\ "plain" \notin lists' /\ step # "insert plain"
                          /\ step = "select any" => lists' # {}
    PROVE  /\ job' \in [Client -> Job]
           /\ \A d \in Client : job'[d].at \in SongSteps => job'[d].song \in Song
           /\ ListFound' /\ OnlyDefault'
<1>1. job \in [Client -> Job] /\ step \in Step
  BY DEF Inv, TypeOK, SongSteps
<1> DEFINE j == [job[c] EXCEPT !.at = step, !.list = l]
<1>2. /\ j \in Job /\ job' = [job EXCEPT ![c] = j]
      /\ j.at = step /\ j.list = l /\ j.song = job[c].song /\ j.cover = job[c].cover
  BY <1>1 DEF Job
<1> HIDE DEF j
<1>3. j.song \in Song /\ (NoFaultYet => j.cover)
  BY <1>2 DEF Inv, TypeOK, OnlyDefault
<1> QED BY <1>2, <1>3, JobStep

LEMMA IdleJob == Idle \in Job /\ Idle.at = "idle" /\ Idle.cover
BY DEF Idle, Job, Step, List

\* It is done.
LEMMA Ending ==
    ASSUME Inv, NEW c \in Client, job' = [job EXCEPT ![c] = Idle],
           lists \subseteq lists', NoFaultYet' => NoFaultYet, NoFaultYet' => "plain" \notin lists'
    PROVE  /\ job' \in [Client -> Job]
           /\ \A d \in Client : job'[d].at \in SongSteps => job'[d].song \in Song
           /\ ListFound' /\ OnlyDefault'
BY IdleJob, JobStep DEF SongSteps

LEMMA Finishing ==
    ASSUME Inv, NEW c \in Client, job[c].at \in SongSteps, NEW kind \in {"like", "unlike"},
           Finish(c, kind),
           lists \subseteq lists', NoFaultYet' => NoFaultYet, NoFaultYet' => "plain" \notin lists'
    PROVE  /\ job' \in [Client -> Job] /\ rsp' \in [Client -> Seq(Response)]
           /\ \A d \in Client : job'[d].at \in SongSteps => job'[d].song \in Song
           /\ ListFound' /\ OnlyDefault'
<1>1. job[c].song \in Song /\ TypeOK
  BY DEF Inv, TypeOK
<1>2. rsp' \in [Client -> Seq(Response)]
  BY <1>1, AnswerType DEF Finish
<1> QED BY <1>2, Ending DEF Finish

\* The lists and their songs after a step are typed, and faults are counted.
DbStep ==
    /\ Fault \/ NoFault
    /\ UNCHANGED <<session, ui, bounds, req>>
    /\ lists \subseteq lists' /\ lists' \subseteq List
    /\ pos' \in [List -> [Song -> Nat]]
    /\ \A l \in List \ lists' : \A s \in Song : pos'[l][s] = 0

LEMMA GoesOn ==
    ASSUME Inv, NEW c \in Client, job[c].at \in SongSteps, NEW step \in SongSteps, NEW l \in List,
           job' = [job EXCEPT ![c].at = step, ![c].list = l], rsp' = rsp, DbStep,
           step \in {"count", "max", "insert", "delete", "order", "renumber"} => l \in lists',
           NoFaultYet' => /\ "plain" \notin lists' /\ step # "insert plain"
                          /\ step = "select any" => lists' # {}
    PROVE  Inv'
<1>1. TypeOK
  BY DEF Inv
<1>2. faultsLeft' \in 0..MaxFaults /\ (NoFaultYet' => NoFaultYet)
  BY <1>1, FaultsLeft DEF DbStep
<1>3. /\ job' \in [Client -> Job]
      /\ \A d \in Client : job'[d].at \in SongSteps => job'[d].song \in Song
      /\ ListFound' /\ OnlyDefault'
  BY <1>2, Going DEF DbStep
<1>4. req' \in [Client -> Seq(Request)] /\ rsp' \in [Client -> Seq(Response)]
  BY <1>1 DEF TypeOK, DbStep
<1> QED BY <1>2, <1>3, <1>4, WorkerKeeps DEF DbStep

LEMMA Ends ==
    ASSUME Inv, NEW c \in Client, job[c].at \in SongSteps, NEW kind \in {"like", "unlike"},
           Finish(c, kind), DbStep, NoFaultYet' => "plain" \notin lists'
    PROVE  Inv'
<1>1. TypeOK
  BY DEF Inv
<1>2. faultsLeft' \in 0..MaxFaults /\ (NoFaultYet' => NoFaultYet)
  BY <1>1, FaultsLeft DEF DbStep
<1>3. /\ job' \in [Client -> Job] /\ rsp' \in [Client -> Seq(Response)]
      /\ \A d \in Client : job'[d].at \in SongSteps => job'[d].song \in Song
      /\ ListFound' /\ OnlyDefault'
  BY <1>2, Finishing DEF DbStep
<1>4. req' \in [Client -> Seq(Request)]
  BY <1>1 DEF TypeOK, DbStep
<1> QED BY <1>2, <1>3, <1>4, WorkerKeeps DEF DbStep

\* The handlers of the page only answer.
LEMMA PageEnds ==
    ASSUME Inv, NEW c \in Client, NEW kind \in {"info", "songs"}, NEW error \in {"success", "other"},
           NEW songs \in SUBSET Song, Answer(c, kind, None, error, songs),
           job' = [job EXCEPT ![c] = Idle], Fault \/ NoFault, UNCHANGED <<session, ui, req, db, bounds>>
    PROVE  Inv'
<1>1. TypeOK /\ None \notin Song
  BY CollectAssumption DEF Inv
<1>2. faultsLeft' \in 0..MaxFaults /\ (NoFaultYet' => NoFaultYet)
  BY <1>1, FaultsLeft
<1>3. rsp' \in [Client -> Seq(Response)]
  BY <1>1, AnswerType
<1>4. lists' = lists /\ pos' = pos /\ (NoFaultYet => "plain" \notin lists)
  BY DEF db, Inv, OnlyDefault
<1>5. /\ job' \in [Client -> Job]
      /\ \A d \in Client : job'[d].at \in SongSteps => job'[d].song \in Song
      /\ ListFound' /\ OnlyDefault'
  BY <1>2, <1>4, Ending
<1>6. /\ req' \in [Client -> Seq(Request)]
      /\ lists' \subseteq List /\ pos' \in [List -> [Song -> Nat]]
      /\ \A l \in List \ lists' : \A s \in Song : pos'[l][s] = 0
  BY <1>1, <1>4 DEF TypeOK, Songs
<1> QED BY <1>2, <1>3, <1>5, <1>6, WorkerKeeps

LEMMA FirstSteps ==
    /\ FirstStep["like"] = "cover" /\ FirstStep["unlike"] = "find"
    /\ FirstStep["info"] = "info" /\ FirstStep["songs"] = "songs"
BY DEF FirstStep

LEMMA WorkerStep ==
    ASSUME Inv, NEW c \in Client, Worker(c)
    PROVE  Inv'
<1> USE CollectAssumption
<1>a. /\ TypeOK /\ job[c] \in Job
      /\ req \in [Client -> Seq(Request)] /\ rsp \in [Client -> Seq(Response)]
      /\ job \in [Client -> Job]
      /\ job[c].at \in SongSteps => job[c].song \in Song
      /\ job[c].list \in List
  BY DEF Inv, TypeOK, Job
<1>b. /\ lists \subseteq List /\ pos \in [List -> [Song -> Nat]]
      /\ \A l \in List \ lists : \A s \in Song : pos[l][s] = 0
  BY DEF Inv, TypeOK, Songs
<1>c. /\ NoFaultYet => "plain" \notin lists
      /\ NoFaultYet => /\ job[c].cover /\ job[c].at # "insert plain"
                       /\ job[c].at = "select any" => lists # {}
  BY DEF Inv, OnlyDefault
<1>d. Fault \/ NoFault => faultsLeft' \in 0..MaxFaults
  BY <1>a, FaultsLeft
<1>e. /\ Fault => ~NoFaultYet'
      /\ NoFault => (NoFaultYet' <=> NoFaultYet)
  BY <1>a, FaultsLeft
<1>2. CASE Take(c)
  <2>1. Head(req[c]) \in Request /\ req' \in [Client -> Seq(Request)] /\ At(c, "idle")
    BY <1>a, <1>2, TakeType DEF Take
  <2>2. /\ UNCHANGED <<session, ui, bounds>> /\ lists' = lists /\ pos' = pos
        /\ Handle(c, Head(req[c]))
    BY <1>2 DEF Take, db
  <2> DEFINE r == Head(req[c])
  <2>3. /\ r.kind \in {"like", "unlike", "info", "songs"} /\ r.song \in Song \cup {None}
        /\ r.song \in Song <=> r.kind \in {"like", "unlike"}
    BY <2>1 DEF Request
  <2> HIDE DEF r
  <2>4. CASE /\ TokenIsValid(c) /\ NoFault
             /\ job' = [job EXCEPT ![c] = [Idle EXCEPT !.at = FirstStep[r.kind], !.song = r.song]]
             /\ UNCHANGED rsp
    <3> DEFINE j == [Idle EXCEPT !.at = FirstStep[r.kind], !.song = r.song]
    <3>1. /\ FirstStep[r.kind] \in {"cover", "find", "info", "songs"}
          /\ FirstStep[r.kind] \in SongSteps => r.song \in Song
      BY <2>3, FirstSteps DEF SongSteps, Step
    <3>2. j \in Job /\ j.at = FirstStep[r.kind] /\ j.song = r.song /\ j.cover
      BY <2>3, <3>1 DEF Idle, Job, Step, List
    <3> HIDE DEF j
    <3>3. job' = [job EXCEPT ![c] = j]
      BY <2>4 DEF j
    <3>4. /\ job' \in [Client -> Job]
          /\ \A d \in Client : job'[d].at \in SongSteps => job'[d].song \in Song
          /\ ListFound' /\ OnlyDefault'
      <4>1. /\ lists \subseteq lists' /\ (NoFaultYet' <=> NoFaultYet)
            /\ NoFaultYet' => "plain" \notin lists'
        BY <1>c, <1>e, <2>2, <2>4
      <4> QED BY <3>1, <3>2, <3>3, <4>1, JobStep
    <3> QED BY <1>b, <1>d, <2>1, <2>2, <2>4, <3>4, <1>a, WorkerKeeps
  <2>5. CASE /\ \/ ~TokenIsValid(c) /\ NoFault
                \/ Fault
             /\ Answer(c, r.kind, r.song, "token", {})
             /\ UNCHANGED job
    <3>1. rsp' \in [Client -> Seq(Response)]
      BY <1>a, <2>3, <2>5, AnswerType
    <3>2. /\ ListFound' /\ OnlyDefault' /\ job' \in [Client -> Job]
          /\ \A d \in Client : job'[d].at \in SongSteps => job'[d].song \in Song
      BY <1>a, <1>e, <2>2, <2>5 DEF Inv, TypeOK, ListFound, OnlyDefault
    <3> QED BY <1>a, <1>b, <1>d, <2>1, <2>2, <2>5, <3>1, <3>2, WorkerKeeps
  <2> QED BY <2>2, <2>4, <2>5 DEF Handle, r
<1>3. CASE GetCoverUrlId(c)
  <2>1. PICK ok \in BOOLEAN : /\ IF ok THEN NoFault ELSE Fault
                              /\ job' = [job EXCEPT ![c].at = "select default", ![c].cover = ok]
    BY <1>a, <1>3 DEF GetCoverUrlId
  <2> DEFINE j == [job[c] EXCEPT !.at = "select default", !.cover = ok]
  <2>2. /\ j \in Job /\ job' = [job EXCEPT ![c] = j]
        /\ j.at = "select default" /\ j.song = job[c].song /\ j.cover = ok
    BY <1>a, <2>1 DEF Job, Step
  <2> HIDE DEF j
  <2>3. /\ UNCHANGED <<session, ui, bounds>> /\ req' = req /\ rsp' = rsp /\ lists' = lists /\ pos' = pos
        /\ job[c].song \in Song
    BY <1>a, <1>3 DEF GetCoverUrlId, db, At, SongSteps, Step
  <2>4. /\ job' \in [Client -> Job]
        /\ \A d \in Client : job'[d].at \in SongSteps => job'[d].song \in Song
        /\ ListFound' /\ OnlyDefault'
    BY <1>c, <1>e, <2>1, <2>2, <2>3, JobStep
  <2> QED BY <1>a, <1>b, <1>d, <2>1, <2>3, <2>4, WorkerKeeps
<1>4. CASE SelectDefault(c)
  <2>1. DbStep /\ job[c].at \in SongSteps /\ lists' = lists
    BY <1>a, <1>b, <1>4 DEF SelectDefault, DbStep, db, At, SongSteps, Step
  <2>2. CASE lists # {} /\ NoFault /\ Goto(c, "select any")
    <3>1. "select any" \in SongSteps /\ "select any" \in Step
      BY DEF SongSteps, Step
    <3>2. job' = [job EXCEPT ![c].at = "select any", ![c].list = job[c].list] /\ rsp' = rsp
      BY <2>2, <3>1, GotoSame DEF Goto
    <3>3. NoFaultYet' => "plain" \notin lists' /\ lists' # {}
      BY <1>c, <1>e, <2>1, <2>2
    <3>4. "select any" \notin {"count", "max", "insert", "delete", "order", "renumber", "insert plain"}
      OBVIOUS
    <3>5. job[c].list \in List
      BY <1>a
    <3> QED BY <2>1, <3>1, <3>2, <3>3, <3>4, <3>5, GoesOn
  <2>3. CASE lists = {} /\ NoFault /\ Goto(c, "insert default")
    <3>1. "insert default" \in SongSteps /\ "insert default" \in Step
      BY DEF SongSteps, Step
    <3>2. job' = [job EXCEPT ![c].at = "insert default", ![c].list = job[c].list] /\ rsp' = rsp
      BY <2>3, <3>1, GotoSame DEF Goto
    <3> QED BY ZenonT(30), <1>a, <1>c, <1>e, <2>1, <2>3, <3>1, <3>2, GoesOn
  <2>4. CASE Fault /\ Goto(c, "insert default")
    <3>1. "insert default" \in SongSteps /\ "insert default" \in Step
      BY DEF SongSteps, Step
    <3>2. job' = [job EXCEPT ![c].at = "insert default", ![c].list = job[c].list] /\ rsp' = rsp
      BY <2>4, <3>1, GotoSame DEF Goto
    <3> QED BY <1>a, <1>c, <1>e, <2>1, <2>4, <3>1, <3>2, GoesOn
  <2> QED BY <1>4, <2>2, <2>3, <2>4 DEF SelectDefault
<1>5. CASE InsertDefault(c)
  <2>1. /\ DbStep /\ job[c].at \in SongSteps
        /\ "select any" \in SongSteps /\ "select any" \in Step
    BY <1>a, <1>b, <1>5 DEF InsertDefault, CanInsert, DbStep, At, SongSteps, Step, List
  <2>2. job' = [job EXCEPT ![c].at = "select any", ![c].list = job[c].list] /\ rsp' = rsp
    BY <1>5, <2>1, GotoSame DEF InsertDefault, Goto
  <2>3. ASSUME NoFaultYet' PROVE "plain" \notin lists' /\ lists' # {}
    <3>1. /\ "plain" \notin lists /\ job[c].cover
          /\ \/ lists' = lists \cup {"default"}
             \/ "default" \in lists /\ lists' = lists
      BY <1>c, <1>e, <1>5, <2>3 DEF InsertDefault, CanInsert
    <3> QED BY <3>1
  <2>4. job[c].list \in List
    BY <1>a
  <2>5. "select any" \notin {"count", "max", "insert", "delete", "order", "renumber", "insert plain"}
    OBVIOUS
  <2> QED BY <2>1, <2>2, <2>3, <2>4, <2>5, GoesOn
<1>6. CASE SelectAny(c)
  <2>1. DbStep /\ job[c].at \in SongSteps /\ lists' = lists /\ job[c].at = "select any"
    BY <1>a, <1>b, <1>6 DEF SelectAny, DbStep, db, At, SongSteps, Step
  <2>2. ASSUME NEW l \in lists, NoFault, WithList(c, l, "count") PROVE Inv'
    <3>1. "count" \in SongSteps /\ l \in List
      BY <1>b DEF SongSteps, Step
    <3> QED BY <1>a, <1>c, <1>e, <2>1, <2>2, <3>1, GoesOn DEF WithList
  <2>3. CASE lists = {} /\ NoFault /\ Goto(c, "insert plain")
    <3>1. "insert plain" \in SongSteps /\ "insert plain" \in Step
      BY DEF SongSteps, Step
    <3>2. job' = [job EXCEPT ![c].at = "insert plain", ![c].list = job[c].list] /\ rsp' = rsp
      BY <2>3, <3>1, GotoSame DEF Goto
    <3> QED BY <1>a, <1>c, <1>e, <2>1, <2>3, <3>1, <3>2, GoesOn
  <2>4. CASE Fault /\ Goto(c, "insert plain")
    <3>1. "insert plain" \in SongSteps /\ "insert plain" \in Step
      BY DEF SongSteps, Step
    <3>2. job' = [job EXCEPT ![c].at = "insert plain", ![c].list = job[c].list] /\ rsp' = rsp
      BY <2>4, <3>1, GotoSame DEF Goto
    <3> QED BY <1>a, <1>c, <1>e, <2>1, <2>4, <3>1, <3>2, GoesOn
  <2> QED BY <1>6, <2>2, <2>3, <2>4 DEF SelectAny
<1>7. CASE InsertPlain(c)
  <2>1. /\ DbStep /\ job[c].at \in SongSteps /\ job[c].at = "insert plain"
        /\ "count" \in SongSteps /\ "plain" \in List /\ "plain" \in lists'
    BY <1>a, <1>b, <1>7 DEF InsertPlain, DbStep, At, SongSteps, Step, List
  <2>2. ~NoFaultYet'
    BY <1>c, <1>e, <1>7, <2>1 DEF InsertPlain
  <2> QED BY <1>a, <1>7, <2>1, <2>2, GoesOn DEF InsertPlain, WithList
<1>8. CASE Abort(c)
  <2>a. <<>> \in Seq(Request) /\ <<>> \in Seq(Response)
    OBVIOUS
  <2>b. req' \in [Client -> Seq(Request)]
    BY <1>a, <1>8, <2>a DEF Abort
  <2>c. rsp' \in [Client -> Seq(Response)]
    BY <1>a, <1>8, <2>a DEF Abort
  <2>1. /\ req' \in [Client -> Seq(Request)] /\ rsp' \in [Client -> Seq(Response)]
        /\ up' \in [Client -> BOOLEAN] /\ lists' = lists /\ pos' = pos
        /\ Fault \/ NoFault
    BY <1>a, <1>8, <2>b, <2>c DEF Abort, db, TypeOK
  <2>2. ~NoFaultYet'
    BY <1>c, <1>e, <1>8 DEF Abort, At
  <2>3. /\ job' \in [Client -> Job]
        /\ \A d \in Client : job'[d].at \in SongSteps => job'[d].song \in Song
        /\ ListFound' /\ OnlyDefault'
    BY <1>8, <2>1, <2>2, Ending DEF Abort
  <2>4. (\A l \in List \ lists : Songs(l) = {})'
    BY <1>b, <2>1 DEF Songs
  <2> QED BY <1>a, <1>b, <1>d, <1>8, <2>1, <2>3, <2>4 DEF Abort, Inv, TypeOK, ui, bounds
<1>9. CASE CountSong(c)
  <2>1. DbStep /\ job[c].at \in SongSteps /\ lists' = lists /\ job[c].list \in lists
    BY <1>a, <1>b, <1>9 DEF CountSong, DbStep, db, At, SongSteps, Step, Inv, ListFound
  <2>2. CASE pos[job[c].list][job[c].song] = 0 /\ NoFault /\ Goto(c, "max")
    <3>1. "max" \in SongSteps /\ "max" \in Step
      BY DEF SongSteps, Step
    <3>2. job' = [job EXCEPT ![c].at = "max", ![c].list = job[c].list] /\ rsp' = rsp
      BY <2>2, <3>1, GotoSame DEF Goto
    <3> QED BY <1>a, <1>c, <1>e, <2>1, <2>2, <3>1, <3>2, GoesOn
  <2>3. CASE pos[job[c].list][job[c].song] # 0 /\ NoFault /\ Finish(c, "like")
    BY <1>c, <1>e, <2>1, <2>3, Ends
  <2>4. CASE Fault /\ Finish(c, "like")
    BY <1>c, <1>e, <2>1, <2>4, Ends
  <2> QED BY <1>9, <2>2, <2>3, <2>4 DEF CountSong
<1>10. CASE MaxPosition(c)
  <2>1. /\ DbStep /\ job[c].at \in SongSteps /\ lists' = lists /\ pos' = pos
        /\ req' = req /\ UNCHANGED <<session, ui, bounds>> /\ job[c].list \in lists
    BY <1>a, <1>b, <1>10 DEF MaxPosition, DbStep, db, At, SongSteps, Step, Inv, ListFound
  <2>2. ASSUME NoFault, NEW p \in NextPosition(job[c].list), rsp' = rsp,
               job' = [job EXCEPT ![c].at = "insert", ![c].place = p]
        PROVE  Inv'
    <3>1. pos[job[c].list] \in [Song -> Nat]
      BY <1>a, <1>b
    <3>2. \A m \in {0} \cup {pos[job[c].list][s] : s \in Song} : m \in Nat
      BY <3>1
    <3>3. PICK m \in {0} \cup {pos[job[c].list][s] : s \in Song} : p = m + 1
      BY <2>2 DEF NextPosition, Last
    <3>4. p \in Nat
      BY <3>2, <3>3
    <3> DEFINE j == [job[c] EXCEPT !.at = "insert", !.place = p]
    <3>5. /\ j \in Job /\ job' = [job EXCEPT ![c] = j]
          /\ j.at = "insert" /\ j.song = job[c].song /\ j.cover = job[c].cover /\ j.list = job[c].list
      BY <1>a, <2>2, <3>4 DEF Job, Step
    <3> HIDE DEF j
    <3>6. /\ job' \in [Client -> Job]
          /\ \A d \in Client : job'[d].at \in SongSteps => job'[d].song \in Song
          /\ ListFound' /\ OnlyDefault'
      <4>1. /\ lists \subseteq lists' /\ (NoFaultYet' => NoFaultYet)
            /\ NoFaultYet' => "plain" \notin lists' /\ j.cover
        BY <1>c, <1>e, <2>1, <2>2, <3>5
      <4>2. j.song \in Song /\ j.list \in lists'
        BY <1>a, <2>1, <3>5
      <4> QED BY <3>5, <4>1, <4>2, JobStep
    <3> QED BY <1>a, <1>b, <1>d, <2>1, <2>2, <3>6, WorkerKeeps
  <2>3. CASE Fault /\ Finish(c, "like")
    BY <1>c, <1>e, <2>1, <2>3, Ends
  <2> QED BY <1>10, <2>1, <2>2, <2>3 DEF MaxPosition
<1>11. CASE InsertSong(c)
  <2>1. job[c].at \in SongSteps /\ job[c].list \in lists /\ job[c].song \in Song /\ job[c].place \in Nat
    BY <1>a, <1>11 DEF InsertSong, At, SongSteps, Step, Inv, ListFound, Job
  <2>2. /\ pos' \in [List -> [Song -> Nat]]
        /\ \A l \in List \ lists : pos'[l] = pos[l]
    <3>1. pos[job[c].list] \in [Song -> Nat] /\ job[c].list \in List
      BY <1>b, <2>1
    <3>2. CASE pos' = pos
      BY <1>b, <3>2
    <3>3. CASE pos' = [pos EXCEPT ![job[c].list][job[c].song] = job[c].place]
      <4>1. [pos[job[c].list] EXCEPT ![job[c].song] = job[c].place] \in [Song -> Nat]
        BY <2>1, <3>1
      <4> QED BY <1>b, <2>1, <3>1, <3>3, <4>1
    <3> QED BY <1>11, <3>2, <3>3 DEF InsertSong
  <2>3. DbStep /\ Finish(c, "like") /\ lists' = lists
    BY <1>b, <1>11, <2>2 DEF InsertSong, DbStep
  <2> QED BY <1>c, <1>e, <2>1, <2>3, Ends DEF DbStep
<1>12. CASE GetPlaylistId(c)
  <2>1. DbStep /\ job[c].at \in SongSteps /\ lists' = lists
    BY <1>a, <1>b, <1>12 DEF GetPlaylistId, DbStep, db, At, SongSteps, Step
  <2>2. ASSUME NEW l \in lists, NoFault, WithList(c, l, "delete") PROVE Inv'
    <3>1. "delete" \in SongSteps /\ l \in List
      BY <1>b DEF SongSteps, Step
    <3> QED BY <1>a, <1>c, <1>e, <2>1, <2>2, <3>1, GoesOn DEF WithList
  <2>3. CASE Finish(c, "unlike")
    BY <1>c, <1>e, <2>1, <2>3, Ends DEF DbStep
  <2> QED BY <1>12, <2>2, <2>3 DEF GetPlaylistId
<1>13. CASE DeleteSong(c)
  <2>1. job[c].at \in SongSteps /\ job[c].list \in lists /\ job[c].song \in Song
    BY <1>a, <1>13 DEF DeleteSong, At, SongSteps, Step, Inv, ListFound
  <2>2. /\ pos' \in [List -> [Song -> Nat]]
        /\ \A l \in List \ lists : pos'[l] = pos[l]
    <3>1. pos[job[c].list] \in [Song -> Nat] /\ job[c].list \in List
      BY <1>b, <2>1
    <3>2. CASE pos' = pos
      BY <1>b, <3>2
    <3>3. CASE pos' = [pos EXCEPT ![job[c].list][job[c].song] = 0]
      <4>1. [pos[job[c].list] EXCEPT ![job[c].song] = 0] \in [Song -> Nat]
        BY <2>1, <3>1
      <4> QED BY <1>b, <2>1, <3>1, <3>3, <4>1
    <3> QED BY <1>13, <3>2, <3>3 DEF DeleteSong
  <2>3. DbStep /\ lists' = lists
    BY <1>b, <1>13, <2>2 DEF DeleteSong, DbStep
  <2>4. CASE Goto(c, "order") /\ NoFault
    <3>1. "order" \in SongSteps /\ "order" \in Step
      BY DEF SongSteps, Step
    <3>2. job' = [job EXCEPT ![c].at = "order", ![c].list = job[c].list] /\ rsp' = rsp
      BY <2>4, <3>1, GotoSame DEF Goto
    <3> QED BY <1>a, <1>c, <1>e, <2>1, <2>3, <2>4, <3>1, <3>2, GoesOn
  <2>5. CASE Finish(c, "unlike")
    BY <1>c, <1>e, <2>1, <2>3, <2>5, Ends DEF DbStep
  <2> QED BY <1>13, <2>4, <2>5 DEF DeleteSong
<1>14. CASE SelectOrder(c)
  <2>1. /\ DbStep /\ job[c].at \in SongSteps /\ lists' = lists /\ pos' = pos
        /\ req' = req /\ UNCHANGED <<session, ui, bounds>> /\ job[c].list \in lists
    BY <1>a, <1>b, <1>14 DEF SelectOrder, DbStep, db, At, SongSteps, Step, Inv, ListFound
  <2>2. CASE /\ NoFault /\ rsp' = rsp
             /\ job' = [job EXCEPT ![c].at = "renumber", ![c].order = pos[job[c].list]]
    <3>1. pos[job[c].list] \in [Song -> Nat]
      BY <1>a, <1>b
    <3> DEFINE j == [job[c] EXCEPT !.at = "renumber", !.order = pos[job[c].list]]
    <3>5. /\ j \in Job /\ job' = [job EXCEPT ![c] = j]
          /\ j.at = "renumber" /\ j.song = job[c].song /\ j.cover = job[c].cover /\ j.list = job[c].list
      BY <1>a, <2>2, <3>1 DEF Job, Step
    <3> HIDE DEF j
    <3>6. /\ job' \in [Client -> Job]
          /\ \A d \in Client : job'[d].at \in SongSteps => job'[d].song \in Song
          /\ ListFound' /\ OnlyDefault'
      <4>1. /\ lists \subseteq lists' /\ (NoFaultYet' => NoFaultYet)
            /\ NoFaultYet' => "plain" \notin lists' /\ j.cover
        BY <1>c, <1>e, <2>1, <2>2, <3>5
      <4>2. j.song \in Song /\ j.list \in lists'
        BY <1>a, <2>1, <3>5
      <4> QED BY <3>5, <4>1, <4>2, JobStep
    <3> QED BY <1>a, <1>b, <1>d, <2>1, <2>2, <3>6, WorkerKeeps
  <2>3. CASE Fault /\ Finish(c, "unlike")
    BY <1>c, <1>e, <2>1, <2>3, Ends
  <2> QED BY <1>14, <2>2, <2>3 DEF SelectOrder
<1>15. CASE Renumber(c)
  <2>1. job[c].at \in SongSteps /\ job[c].list \in lists
    BY <1>a, <1>15 DEF Renumber, At, SongSteps, Step, Inv, ListFound
  <2>2. /\ pos' \in [List -> [Song -> Nat]]
        /\ \A l \in List \ lists : pos'[l] = pos[l]
    <3>1. CASE UNCHANGED pos
      BY <1>b, <3>1
    <3>2. ASSUME NEW rank \in [Song -> 0..Cardinality(Song)],
                 pos' = [pos EXCEPT ![job[c].list] = [s \in Song |->
                        IF job[c].order[s] \in {0, rank[s]} \/ @[s] = 0 THEN @[s] ELSE rank[s]]]
          PROVE  /\ pos' \in [List -> [Song -> Nat]]
                 /\ \A l \in List \ lists : pos'[l] = pos[l]
      <4>1. rank \in [Song -> Nat]
        <5>1. Cardinality(Song) \in Nat
          BY FS_CardinalityType
        <5> QED BY <5>1
      <4>2. [s \in Song |-> IF job[c].order[s] \in {0, rank[s]} \/ pos[job[c].list][s] = 0
                            THEN pos[job[c].list][s] ELSE rank[s]] \in [Song -> Nat]
        BY <1>a, <1>b, <4>1
      <4> QED BY <1>b, <2>1, <3>2, <4>2
    <3> QED BY <1>15, <3>1, <3>2 DEF Renumber
  <2>3. DbStep /\ Finish(c, "unlike") /\ lists' = lists
    BY <1>b, <1>15, <2>2 DEF Renumber, DbStep
  <2> QED BY <1>c, <1>e, <2>1, <2>3, Ends DEF DbStep
<1>16. CASE PageInfo(c)
  <2>1. /\ job' = [job EXCEPT ![c] = Idle] /\ (Fault \/ NoFault) /\ UNCHANGED <<session, ui, req, db, bounds>>
        /\ \/ Answer(c, "info", None, "success", {})
           \/ Answer(c, "info", None, "other", {})
    BY <1>16 DEF PageInfo
  <2>2. {} \in SUBSET Song
    OBVIOUS
  <2>3. CASE Answer(c, "info", None, "success", {})
    BY <2>1, <2>2, <2>3, PageEnds
  <2>4. CASE Answer(c, "info", None, "other", {})
    BY <2>1, <2>2, <2>4, PageEnds
  <2> QED BY <2>1, <2>3, <2>4
<1>17. CASE PageSongs(c)
  <2>1. /\ job' = [job EXCEPT ![c] = Idle] /\ (Fault \/ NoFault) /\ UNCHANGED <<session, ui, req, db, bounds>>
    BY <1>17 DEF PageSongs
  <2>2. ASSUME NEW l \in lists,
               Answer(c, "songs", None, IF Songs(l) # {} THEN "success" ELSE "other", Songs(l))
        PROVE  Inv'
    <3>1. Songs(l) \in SUBSET Song
      BY DEF Songs
    <3>2. (IF Songs(l) # {} THEN "success" ELSE "other") \in {"success", "other"}
      OBVIOUS
    <3>3. Answer(c, "songs", None, "success", Songs(l)) \/ Answer(c, "songs", None, "other", Songs(l))
      BY <2>2, <3>2
    <3>4. CASE Answer(c, "songs", None, "success", Songs(l))
      BY <2>1, <3>1, <3>4, PageEnds
    <3>5. CASE Answer(c, "songs", None, "other", Songs(l))
      BY <2>1, <3>1, <3>5, PageEnds
    <3> QED BY <3>3, <3>4, <3>5
  <2>3. CASE Answer(c, "songs", None, "other", {})
    <3>1. {} \in SUBSET Song
      OBVIOUS
    <3> QED BY <2>1, <2>3, <3>1, PageEnds
  <2> QED BY <1>17, <2>2, <2>3 DEF PageSongs
<1> QED BY <1>2, <1>3, <1>4, <1>5, <1>6, <1>7, <1>8, <1>9, <1>10, <1>11, <1>12, <1>13,
           <1>14, <1>15, <1>16, <1>17 DEF Worker

LEMMA StepInv == Inv /\ [Next]_vars => Inv'
<1>1. CASE UNCHANGED vars
  BY <1>1 DEF vars, session, ui, db, bounds, Inv, TypeOK, ListFound, OnlyDefault, NoFaultYet, Songs
<1>2. ASSUME Inv, NEW c \in Client, Worker(c) PROVE Inv'
  BY <1>2, WorkerStep
<1>3. ASSUME Inv, NEW c \in Client,
             \/ Open(c) \/ \E s \in Song : Click(c, s)
             \/ ReceiveCollect(c) \/ ReceiveInfo(c) \/ ReceiveSongs(c)
             \/ InsertToken(c) \/ Login(c) \/ Kick(c)
      PROVE  Inv'
  BY <1>3, ClientStep
<1> QED BY <1>1, <1>2, <1>3 DEF Next

LEMMA Invariance == Spec => []Inv
BY InitInv, StepInv, PTL DEF Spec

\* The types of Collect, and that a song is in no list that is not there.
THEOREM TypeCorrect == Spec => []TypeOK
<1>1. Inv => TypeOK
  BY DEF Inv
<1> QED BY <1>1, Invariance, PTL

\* As long as no statement fails the liked songs are in one list, whatever
\* servers do it at the same time.
THEOREM LikedInOneList == Spec => []OneList
<1>1. Inv => OneList
  BY DEF Inv, OnlyDefault, OneList
<1> QED BY <1>1, Invariance, PTL
-----------------------------------------------------------------------------
(* Without an overlap one handler at most is at work, and no other client is *)
(* logged in that could start one.  So what a handler has read stays true.   *)

OneAtWork == ~overlap => \A c \in Client : job[c].at # "idle" =>
    \A d \in Client : d # c => job[d].at = "idle" /\ ~TokenIsValid(d)

PlaceIsLast == ~overlap => \A c \in Client : job[c].at = "insert" =>
    \A s \in Song : pos[job[c].list][s] < job[c].place

OrderIsRead == ~overlap => \A c \in Client : job[c].at = "renumber" =>
    job[c].order = pos[job[c].list]

IdleIsIdle == \A c \in Client : job[c].at = "idle" => job[c] = Idle

Undisturbed == OneAtWork /\ PlaceIsLast /\ OrderIsRead /\ IdleIsIdle

\* The steps of a worker change its own handler, and the positions only where a
\* song is inserted, deleted or renumbered.
LEMMA WorkerShape ==
    ASSUME TypeOK, NEW c \in Client, Worker(c)
    PROVE  /\ \A d \in Client \ {c} : job'[d] = job[d] /\ up'[d] = up[d]
           /\ up'[c] => up[c]
           /\ token' = token /\ overlap' = overlap /\ UNCHANGED <<heart, page, fresh>>
           /\ pos' = pos \/ InsertSong(c) \/ DeleteSong(c) \/ Renumber(c)
           /\ job[c].at = "idle" => Take(c)
<1>1. \A d \in Client \ {c} : job'[d] = job[d] /\ up'[d] = up[d]
  BY DEF TypeOK, Worker, Take, Handle, GetCoverUrlId, SelectDefault, InsertDefault, SelectAny,
         InsertPlain, Abort, CountSong, MaxPosition, InsertSong, GetPlaylistId, DeleteSong,
         SelectOrder, Renumber, PageInfo, PageSongs, Goto, WithList, Finish, session
<1>2. /\ up'[c] => up[c]
      /\ token' = token /\ overlap' = overlap /\ UNCHANGED <<heart, page, fresh>>
  BY DEF TypeOK, Worker, Take, GetCoverUrlId, SelectDefault, InsertDefault, SelectAny,
         InsertPlain, Abort, CountSong, MaxPosition, InsertSong, GetPlaylistId, DeleteSong,
         SelectOrder, Renumber, PageInfo, PageSongs, session, ui
<1>3. pos' = pos \/ InsertSong(c) \/ DeleteSong(c) \/ Renumber(c)
  BY DEF Worker, Take, GetCoverUrlId, SelectDefault, InsertDefault, SelectAny,
         InsertPlain, Abort, CountSong, MaxPosition, GetPlaylistId,
         SelectOrder, PageInfo, PageSongs, db
<1>4. job[c].at = "idle" => Take(c)
  BY DEF Worker, GetCoverUrlId, SelectDefault, InsertDefault, SelectAny,
         InsertPlain, Abort, CountSong, MaxPosition, InsertSong, GetPlaylistId, DeleteSong,
         SelectOrder, Renumber, PageInfo, PageSongs, At
<1> QED BY <1>1, <1>2, <1>3, <1>4

\* A worker takes a message of the client whose login is valid, or refuses it.
LEMMA TakeShape ==
    ASSUME TypeOK, NEW c \in Client, Take(c)
    PROVE  /\ \/ /\ TokenIsValid(c) /\ NoFault /\ rsp' = rsp
                 /\ job' = [job EXCEPT ![c] = [Idle EXCEPT !.at = FirstStep[Head(req[c]).kind],
                                                          !.song = Head(req[c]).song]]
              \/ /\ ~TokenIsValid(c) \/ Fault
                 /\ job' = job
                 /\ Answer(c, Head(req[c]).kind, Head(req[c]).song, "token", {})
           /\ pos' = pos /\ up' = up /\ token' = token /\ overlap' = overlap
           /\ req[c] # <<>> /\ req' = [req EXCEPT ![c] = Tail(@)]
           /\ job[c].at = "idle"
BY DEF Take, Handle, TokenIsValid, db, session, At

\* A handler is idle when it is done, and its place and its order are fresh.
LEMMA HandlerShape ==
    ASSUME TypeOK, NEW c \in Client, Worker(c), job[c].at # "idle"
    PROVE  /\ job'[c] = Idle \/ job'[c].at # "idle"
           /\ job'[c].at = "insert" => MaxPosition(c)
           /\ job'[c].at = "order" => DeleteSong(c)
           /\ job'[c].at = "renumber" => SelectOrder(c)
<1> USE DEF TypeOK, Goto, WithList, Finish
<1>1. job[c] \in Job /\ Idle.at = "idle"
  BY IdleJob
<1>2. CASE job'[c] = Idle
  BY <1>1, <1>2
<1>3. CASE GetCoverUrlId(c)
  <2>1. PICK ok \in BOOLEAN : job' = [job EXCEPT ![c].at = "select default", ![c].cover = ok]
    BY <1>3 DEF GetCoverUrlId
  <2> QED BY <1>1, <2>1 DEF Job
<1>7. CASE SelectDefault(c) \/ InsertDefault(c)
  <2>1. PICK step \in {"select any", "insert default"} : job' = [job EXCEPT ![c].at = step]
    BY <1>7 DEF SelectDefault, InsertDefault
  <2> QED BY <1>1, <2>1 DEF Job
<1>9. CASE SelectAny(c) \/ InsertPlain(c)
  <2>1. ASSUME job' = [job EXCEPT ![c].at = "insert plain"]
        PROVE  job'[c].at = "insert plain"
    BY <1>1, <2>1 DEF Job
  <2>2. ASSUME NEW l \in List, job' = [job EXCEPT ![c].at = "count", ![c].list = l]
        PROVE  job'[c].at = "count"
    BY <1>1, <2>2 DEF Job
  <2>3. \/ job' = [job EXCEPT ![c].at = "insert plain"]
        \/ \E l \in List : job' = [job EXCEPT ![c].at = "count", ![c].list = l]
    BY <1>9 DEF SelectAny, InsertPlain, List
  <2>4. job'[c].at = "insert plain" \/ job'[c].at = "count"
    BY <2>1, <2>2, <2>3
  <2> QED BY <2>4
<1>4. CASE Abort(c) \/ PageInfo(c) \/ PageSongs(c)
  <2>1. job' = [job EXCEPT ![c] = Idle]
    BY <1>4 DEF Abort, PageInfo, PageSongs
  <2> QED BY <1>1, <2>1
<1>8. ~Take(c)
  BY DEF Take, At
<1>5. CASE CountSong(c) \/ MaxPosition(c) \/ InsertSong(c)
  BY <1>1, <1>5 DEF CountSong, MaxPosition, InsertSong, Job
<1>6. CASE GetPlaylistId(c) \/ DeleteSong(c) \/ SelectOrder(c) \/ Renumber(c)
  BY SMTT(30), <1>1, <1>6 DEF GetPlaylistId, DeleteSong, SelectOrder, Renumber, Job
<1> QED BY <1>3, <1>4, <1>5, <1>6, <1>7, <1>8, <1>9 DEF Worker

LEMMA UndisturbedInit == Init => Undisturbed
BY IdleJob DEF Init, Undisturbed, OneAtWork, PlaceIsLast, OrderIsRead, IdleIsIdle

LEMMA UndisturbedStep == TypeOK /\ TypeOK' /\ Undisturbed /\ [Next]_vars => Undisturbed'
<1> SUFFICES ASSUME TypeOK, TypeOK', Undisturbed, [Next]_vars PROVE Undisturbed'
  OBVIOUS
<1>1. ASSUME UNCHANGED <<job, pos>>, overlap => overlap',
             ~overlap' => \A d \in Client : TokenIsValid(d)' =>
                    TokenIsValid(d) \/ \A e \in Client : job[e].at = "idle" \/ e = d
      PROVE  Undisturbed'
  <2>1. OneAtWork'
    BY <1>1 DEF Undisturbed, OneAtWork
  <2>2. PlaceIsLast' /\ OrderIsRead' /\ IdleIsIdle'
    BY <1>1 DEF Undisturbed, PlaceIsLast, OrderIsRead, IdleIsIdle
  <2> QED BY <2>1, <2>2 DEF Undisturbed
<1>2. ASSUME NEW c \in Client,
             \/ Open(c) \/ \E s \in Song : Click(c, s)
             \/ ReceiveCollect(c) \/ ReceiveInfo(c) \/ ReceiveSongs(c)
      PROVE  Undisturbed'
  <2>1. UNCHANGED <<job, pos, overlap, up, token>>
    BY <1>2 DEF Open, Click, ReceiveCollect, ReceiveInfo, ReceiveSongs, db, session
  <2> QED BY <1>1, <2>1 DEF TokenIsValid
<1>3. ASSUME NEW c \in Client, InsertToken(c) PROVE Undisturbed'
  BY <1>1, <1>3 DEF InsertToken, TokenIsValid, db
<1>4. ASSUME NEW c \in Client, Login(c) PROVE Undisturbed'
  <2>1. UNCHANGED <<job, pos>> /\ (overlap => overlap')
    BY <1>4 DEF Login, db
  <2>2. ~overlap' => \A e \in Client : job[e].at = "idle"
    BY <1>4, IdleJob DEF Login
  <2> QED BY <1>1, <2>1, <2>2
<1>5. ASSUME NEW c \in Client, Kick(c) PROVE Undisturbed'
  BY <1>1, <1>5 DEF Kick, TokenIsValid, db, TypeOK
<1>6. ASSUME NEW c \in Client, Worker(c) PROVE Undisturbed'
  <2>1. /\ \A d \in Client \ {c} : job'[d] = job[d] /\ up'[d] = up[d]
        /\ up'[c] => up[c]
        /\ token' = token /\ overlap' = overlap
        /\ pos' = pos \/ InsertSong(c) \/ DeleteSong(c) \/ Renumber(c)
        /\ job[c].at = "idle" => Take(c)
    BY <1>6, WorkerShape
  <2>2. \A d \in Client : TokenIsValid(d)' => TokenIsValid(d)
    BY <2>1 DEF TokenIsValid
  <2>3. CASE job' = job /\ pos' = pos
    BY <1>1, <2>1, <2>2, <2>3
  <2>4. CASE job[c].at = "idle" /\ job' # job
    <3>1. /\ TokenIsValid(c) /\ pos' = pos
          /\ job'[c] = [Idle EXCEPT !.at = FirstStep[Head(req[c]).kind], !.song = Head(req[c]).song]
      <4>1. /\ TokenIsValid(c) /\ pos' = pos
            /\ job' = [job EXCEPT ![c] = [Idle EXCEPT !.at = FirstStep[Head(req[c]).kind],
                                                     !.song = Head(req[c]).song]]
        BY <2>1, <2>4, TakeShape
      <4> QED BY <4>1 DEF TypeOK
    <3>2. job'[c].at \in {"cover", "find", "info", "songs"}
      <4>1. Head(req[c]) \in Request
        BY <2>1, <2>4, TakeShape, TakeType DEF TypeOK
      <4> QED BY <3>1, <4>1, FirstSteps, IdleJob DEF Request, Job
    <3>3. ~overlap => \A d \in Client \ {c} : job[d].at = "idle" /\ ~TokenIsValid(d)
      BY <3>1 DEF Undisturbed, OneAtWork, TokenIsValid
    <3>4. OneAtWork'
      BY <2>1, <2>2, <3>3 DEF OneAtWork
    <3>5. PlaceIsLast' /\ OrderIsRead' /\ IdleIsIdle'
      BY <2>1, <3>1, <3>2 DEF Undisturbed, PlaceIsLast, OrderIsRead, IdleIsIdle
    <3> QED BY <3>4, <3>5 DEF Undisturbed
  <2>5. CASE job[c].at # "idle"
    <3>1. ~overlap => \A d \in Client \ {c} : job[d].at = "idle" /\ ~TokenIsValid(d)
      BY <2>5 DEF Undisturbed, OneAtWork
    <3>2. /\ job'[c] = Idle \/ job'[c].at # "idle"
          /\ job'[c].at = "insert" => MaxPosition(c)
          /\ job'[c].at = "renumber" => SelectOrder(c)
      BY <1>6, <2>5, HandlerShape
    <3>3. OneAtWork' /\ IdleIsIdle'
      BY <2>1, <2>2, <3>1, <3>2 DEF Undisturbed, OneAtWork, IdleIsIdle
    <3>4. PlaceIsLast'
      <4> SUFFICES ASSUME ~overlap, job'[c].at = "insert", NEW s \in Song
                   PROVE  pos'[job'[c].list][s] < job'[c].place
        BY <2>1, <3>1 DEF PlaceIsLast
      <4>1. MaxPosition(c) /\ job[c] \in Job /\ Idle.at = "idle"
        BY <3>2, IdleJob DEF TypeOK
      <4>2. PICK p \in NextPosition(job[c].list) :
                job' = [job EXCEPT ![c].at = "insert", ![c].place = p]
        BY <4>1 DEF MaxPosition, Finish, TypeOK
      <4>3. job'[c].list = job[c].list /\ job'[c].place = p /\ pos' = pos
        <5>1. job' = [job EXCEPT ![c] = [job[c] EXCEPT !.at = "insert", !.place = p]]
          BY <4>2
        <5>2. job'[c] = [job[c] EXCEPT !.at = "insert", !.place = p]
          BY <5>1 DEF TypeOK
        <5>3. pos' = pos
          BY <4>1 DEF MaxPosition, db
        <5> QED BY <4>1, <5>2, <5>3 DEF Job
      <4>4. job[c].list \in List /\ pos[job[c].list] \in [Song -> Nat]
        BY <4>1 DEF TypeOK, Job
      <4>5. PICK m \in Last({0} \cup {pos[job[c].list][t] : t \in Song}) : p = m + 1
        BY DEF NextPosition
      <4>6. m \in Nat /\ pos[job[c].list][s] <= m
        BY <4>4, <4>5 DEF Last
      <4>7. pos[job[c].list][s] < p
        BY <4>4, <4>5, <4>6
      <4> QED BY <4>3, <4>7
    <3>5. OrderIsRead'
      <4> SUFFICES ASSUME ~overlap, job'[c].at = "renumber"
                   PROVE  job'[c].order = pos'[job'[c].list]
        BY <2>1, <3>1 DEF OrderIsRead
      <4>1. SelectOrder(c) /\ job[c] \in Job /\ Idle.at = "idle"
        BY <3>2, IdleJob DEF TypeOK
      <4>2. job' = [job EXCEPT ![c].at = "renumber", ![c].order = pos[job[c].list]]
        BY <4>1 DEF SelectOrder, Finish, TypeOK
      <4> QED BY <4>1, <4>2 DEF TypeOK, Job, SelectOrder, db
    <3> QED BY <3>3, <3>4, <3>5 DEF Undisturbed
  <2>6. CASE job[c].at = "idle" /\ job' = job
    <3>1. pos' = pos
      BY <2>1, <2>6, TakeShape
    <3> QED BY <2>3, <2>6, <3>1
  <2> QED BY <2>4, <2>5, <2>6
<1>7. CASE UNCHANGED vars
  BY <1>1, <1>7 DEF vars, session, db, TokenIsValid
<1> QED BY <1>2, <1>3, <1>4, <1>5, <1>6, <1>7 DEF Next

\* The steps of the client and of the logins leave the handlers and the lists.
LEMMA ClientShape ==
    ASSUME NEW c \in Client,
           \/ Open(c) \/ \E s \in Song : Click(c, s)
           \/ ReceiveCollect(c) \/ ReceiveInfo(c) \/ ReceiveSongs(c)
           \/ InsertToken(c) \/ Login(c) \/ Kick(c)
    PROVE  job' = job /\ pos' = pos /\ lists' = lists /\ faultsLeft' = faultsLeft /\ (overlap => overlap')
<1>1. CASE Login(c)
  BY <1>1 DEF Login, db
<1>2. CASE ~Login(c)
  BY <1>2 DEF Open, Click, ReceiveCollect, ReceiveInfo, ReceiveSongs, InsertToken, Kick, db, session
<1> QED BY <1>1, <1>2

\* What ListInOrder says of a step.
KeptInOrder == \A l \in List : \A s \in Songs(l) : \A t \in Song \ {s} :
    pos'[l][s] # 0 /\ pos'[l][t] # 0 /\ (pos[l][t] = 0 \/ pos[l][s] < pos[l][t])
        => pos'[l][s] < pos'[l][t]

LEMMA InsertedLast ==
    ASSUME TypeOK, Undisturbed, ~overlap, NEW c \in Client, InsertSong(c)
    PROVE  KeptInOrder
<1> DEFINE j == job[c]
<1>1. /\ j \in Job /\ j.list \in List /\ j.song \in Song /\ j.place \in Nat
      /\ \A s \in Song : pos[j.list][s] < j.place
  BY DEF TypeOK, Job, InsertSong, At, SongSteps, Step, Undisturbed, PlaceIsLast
<1>2. \/ pos' = pos
      \/ pos[j.list][j.song] = 0 /\ pos' = [pos EXCEPT ![j.list][j.song] = j.place]
  BY DEF InsertSong
<1>3. pos \in [List -> [Song -> Nat]]
  BY DEF TypeOK
<1> HIDE DEF j
<1>4. CASE pos' = pos
  BY <1>4 DEF KeptInOrder
<1>5. CASE pos[j.list][j.song] = 0 /\ pos' = [pos EXCEPT ![j.list][j.song] = j.place]
  <2>1. \A l \in List, s \in Song :
            pos'[l][s] = IF l = j.list /\ s = j.song THEN j.place ELSE pos[l][s]
    BY <1>1, <1>3, <1>5
  <2> SUFFICES ASSUME NEW l \in List, NEW s \in Songs(l), NEW t \in Song \ {s},
                      pos'[l][s] # 0, pos'[l][t] # 0, pos[l][t] = 0 \/ pos[l][s] < pos[l][t]
               PROVE  pos'[l][s] < pos'[l][t]
    BY DEF KeptInOrder
  <2>2. s \in Song /\ pos'[l][s] = pos[l][s]
    BY <1>1, <1>5, <2>1 DEF Songs
  <2>3. CASE l = j.list /\ t = j.song
    BY <1>1, <2>1, <2>2, <2>3
  <2>4. CASE ~(l = j.list /\ t = j.song)
    BY <2>1, <2>2, <2>4
  <2> QED BY <2>3, <2>4
<1> QED BY <1>2, <1>4, <1>5

LEMMA OthersStay ==
    ASSUME TypeOK, NEW c \in Client, DeleteSong(c)
    PROVE  KeptInOrder
<1> DEFINE j == job[c]
<1>1. pos' = pos \/ pos' = [pos EXCEPT ![j.list][j.song] = 0]
  BY DEF DeleteSong
<1>2. pos \in [List -> [Song -> Nat]]
  BY DEF TypeOK
<1> HIDE DEF j
<1>3. \A l \in List, s \in Song : pos'[l][s] # 0 => pos'[l][s] = pos[l][s]
  BY <1>1, <1>2
<1> QED BY <1>3 DEF KeptInOrder, Songs

LEMMA RenumberedInOrder ==
    ASSUME TypeOK, Undisturbed, ~overlap, NEW c \in Client, Renumber(c)
    PROVE  KeptInOrder
<1> DEFINE j == job[c]
<1>1. j \in Job /\ j.list \in List /\ j.order = pos[j.list]
  BY DEF TypeOK, Job, Renumber, At, Undisturbed, OrderIsRead
<1>2. pos \in [List -> [Song -> Nat]]
  BY DEF TypeOK
<1>3. CASE pos' = pos
  BY <1>3 DEF KeptInOrder
<1>4. ASSUME NEW rank \in [Song -> 0..Cardinality(Song)], IsRank(rank, j.order),
             pos' = [pos EXCEPT ![j.list] = [s \in Song |->
                        IF j.order[s] \in {0, rank[s]} \/ @[s] = 0 THEN @[s] ELSE rank[s]]]
      PROVE  KeptInOrder
  <2> HIDE DEF j
  <2>1. \A s \in Song : pos'[j.list][s] = IF pos[j.list][s] = 0 THEN 0 ELSE rank[s]
    BY <1>1, <1>2, <1>4
  <2>2. \A l \in List \ {j.list} : pos'[l] = pos[l]
    BY <1>1, <1>2, <1>4
  <2>3. \A s, t \in Song : pos[j.list][s] # 0 /\ pos[j.list][t] # 0 =>
                              (pos[j.list][s] < pos[j.list][t] => rank[s] < rank[t])
    BY <1>1, <1>4 DEF IsRank
  <2> SUFFICES ASSUME NEW l \in List, NEW s \in Songs(l), NEW t \in Song \ {s},
                      pos'[l][s] # 0, pos'[l][t] # 0, pos[l][t] = 0 \/ pos[l][s] < pos[l][t]
               PROVE  pos'[l][s] < pos'[l][t]
    BY DEF KeptInOrder
  <2>4. CASE l = j.list
    BY <2>1, <2>3, <2>4 DEF Songs
  <2>5. CASE l # j.list
    BY <2>2, <2>5 DEF Songs
  <2> QED BY <2>4, <2>5
<1>5. \/ pos' = pos
      \/ \E rank \in [Song -> 0..Cardinality(Song)] :
            /\ IsRank(rank, j.order)
            /\ pos' = [pos EXCEPT ![j.list] = [s \in Song |->
                    IF j.order[s] \in {0, rank[s]} \/ @[s] = 0 THEN @[s] ELSE rank[s]]]
  BY DEF Renumber
<1> QED BY <1>3, <1>4, <1>5

LEMMA OrderStep ==
    ASSUME TypeOK, Undisturbed, [Next]_vars
    PROVE  ~overlap => KeptInOrder \/ pos' = pos
<1>1. ASSUME NEW c \in Client, Worker(c) PROVE pos' = pos \/ InsertSong(c) \/ DeleteSong(c) \/ Renumber(c)
  BY <1>1, WorkerShape
<1>2. ASSUME NEW c \in Client,
             \/ Open(c) \/ \E s \in Song : Click(c, s)
             \/ ReceiveCollect(c) \/ ReceiveInfo(c) \/ ReceiveSongs(c)
             \/ InsertToken(c) \/ Login(c) \/ Kick(c)
      PROVE  pos' = pos
  BY <1>2, ClientShape
<1>3. UNCHANGED vars => pos' = pos
  BY DEF vars, db
<1> QED BY <1>1, <1>2, <1>3, InsertedLast, OthersStay, RenumberedInOrder DEF Next

\* Without two logins at work at once, songs that are liked come after the
\* others, and the others keep their order, also when statements fail.
THEOREM OrderKept == Spec => ListInOrder
<1>1. Init => Undisturbed
  BY UndisturbedInit
<1>2. Inv /\ Inv' /\ Undisturbed /\ [Next]_vars => Undisturbed'
  BY UndisturbedStep DEF Inv
<1>3. Inv /\ Undisturbed /\ [Next]_vars => [~overlap => KeptInOrder]_pos
  BY OrderStep DEF Inv
<1>4. Spec => [][~overlap => KeptInOrder]_pos
  BY <1>1, <1>2, <1>3, Invariance, PTL DEF Spec
<1> QED BY <1>4 DEF ListInOrder, KeptInOrder

-----------------------------------------------------------------------------
(* The heart of a song is what the last request for it says; with none on    *)
(* its way, what the handler at work will have done; with none at work, what *)
(* the database says.                                                        *)

Likes == {"cover", "select default", "insert default", "select any", "insert plain",
          "count", "max", "insert"}
Unlikes == {"find", "delete", "order", "renumber"}

Will(c, s) ==
    IF job[c].song = s /\ job[c].at \in Likes \cup Unlikes
      THEN job[c].at \in Likes
      ELSE pos["default"][s] # 0

LastFor(c, s, i) == req[c][i].song = s /\ \A k \in (i + 1)..Len(req[c]) : req[c][k].song # s

HeartIs(c, s) ==
    /\ \A i \in 1..Len(req[c]) : LastFor(c, s, i) => (s \in heart[c] <=> req[c][i].kind = "like")
    /\ (\A i \in 1..Len(req[c]) : req[c][i].song # s) => (s \in heart[c] <=> Will(c, s))

Gone == ~overlap => \A c \in Client : job[c].at \in {"order", "renumber"} =>
    pos[job[c].list][job[c].song] = 0

Hearts == NoFaultYet /\ ~overlap => \A c \in Client : TokenIsValid(c) => \A s \in Song : HeartIs(c, s)

\* An answer for a heart is a success, or says that the token is invalid.
Fine(q) == \A i \in 1..Len(q) : q[i].kind \in {"like", "unlike"} => q[i].error # "other"
NoError == \A c \in Client : Fine(rsp[c])

\* What was deleted is gone while the others are renumbered.
LEMMA GoneStep ==
    ASSUME TypeOK, Undisturbed, Gone, [Next]_vars
    PROVE  Gone'
<1>1. ASSUME job' = job, pos' = pos, overlap => overlap' PROVE Gone'
  BY <1>1 DEF Gone
<1>2. ASSUME NEW c \in Client,
             \/ Open(c) \/ \E s \in Song : Click(c, s)
             \/ ReceiveCollect(c) \/ ReceiveInfo(c) \/ ReceiveSongs(c)
             \/ InsertToken(c) \/ Login(c) \/ Kick(c)
      PROVE  Gone'
  <2>1. job' = job /\ pos' = pos /\ (overlap => overlap')
    BY <1>2, ClientShape
  <2> QED BY <1>1, <2>1
<1>3. CASE UNCHANGED vars
  BY <1>1, <1>3 DEF vars, session, db
<1>4. ASSUME NEW c \in Client, Worker(c) PROVE Gone'
  <2>1. /\ \A d \in Client \ {c} : job'[d] = job[d]
        /\ overlap' = overlap
        /\ job[c].at = "idle" => Take(c)
    BY <1>4, WorkerShape
  <2>2. CASE Take(c)
    <3>1. pos' = pos
      BY <2>2, TakeShape
    <3>2. CASE job' = job
      BY <1>1, <2>1, <3>1, <3>2
    <3>3. CASE job' # job
      <4>1. job' = [job EXCEPT ![c] = [Idle EXCEPT !.at = FirstStep[Head(req[c]).kind],
                                                  !.song = Head(req[c]).song]]
        BY <2>2, <3>3, TakeShape
      <4>2. job'[c] = [Idle EXCEPT !.at = FirstStep[Head(req[c]).kind], !.song = Head(req[c]).song]
        BY <4>1 DEF TypeOK
      <4>3. Head(req[c]) \in Request
        BY <2>2, TakeShape, TakeType DEF TypeOK
      <4>4. job'[c].at \in {"cover", "find", "info", "songs"}
        BY <4>2, <4>3, FirstSteps, IdleJob DEF Request, Job
      <4> QED BY <2>1, <3>1, <4>4 DEF Gone
    <3> QED BY <3>2, <3>3
  <2>3. CASE ~Take(c)
    <3> SUFFICES ASSUME ~overlap, NEW d \in Client, job'[d].at \in {"order", "renumber"}
                 PROVE  pos'[job'[d].list][job'[d].song] = 0
      BY <2>1 DEF Gone
    <3>1. d = c
      BY <2>1, <2>3 DEF Undisturbed, OneAtWork
    <3>2. job[c] \in Job /\ job \in [Client -> Job] /\ Idle.at = "idle" /\ job[c].list \in List
      BY IdleJob DEF TypeOK, Job
    <3>3. CASE DeleteSong(c)
      <4>1. job' = [job EXCEPT ![c].at = "order"] /\ pos' = [pos EXCEPT ![job[c].list][job[c].song] = 0]
        BY <3>1, <3>2, <3>3 DEF DeleteSong, Finish, Goto
      <4>2. job[c].song \in Song
        BY <3>3 DEF DeleteSong, At, TypeOK, SongSteps, Step
      <4>3. job'[c].list = job[c].list /\ job'[c].song = job[c].song
        BY <3>2, <4>1 DEF Job
      <4>4. pos \in [List -> [Song -> Nat]]
        BY DEF TypeOK
      <4> QED BY <3>1, <3>2, <4>1, <4>2, <4>3, <4>4
    <3>4. CASE SelectOrder(c)
      <4>1. /\ job' = [job EXCEPT ![c].at = "renumber", ![c].order = pos[job[c].list]]
            /\ pos' = pos /\ job[c].at = "order"
        BY <3>1, <3>2, <3>4 DEF SelectOrder, Finish, db, At
      <4>2. job'[c].list = job[c].list /\ job'[c].song = job[c].song
        BY <3>2, <4>1 DEF Job
      <4> QED BY <3>1, <4>1, <4>2 DEF Gone
    <3>5. DeleteSong(c) \/ SelectOrder(c)
      BY <1>4, <2>1, <2>3, <3>1, HandlerShape
    <3> QED BY <3>3, <3>4, <3>5
  <2> QED BY <2>2, <2>3
<1> QED BY <1>2, <1>3, <1>4 DEF Next

LEMMA FineTail ==
    ASSUME NEW q \in Seq(Response), q # <<>>, Fine(q)
    PROVE  Fine(Tail(q))
<1>1. /\ Tail(q) \in Seq(Response) /\ Len(Tail(q)) = Len(q) - 1 /\ Len(q) \in Nat
      /\ \A i \in 1..Len(Tail(q)) : Tail(q)[i] = q[i + 1]
  BY HeadTailProperties
<1>2. \A i \in 1..Len(Tail(q)) : i + 1 \in 1..Len(q)
  BY <1>1
<1> QED BY <1>1, <1>2 DEF Fine

LEMMA FineAnswer ==
    ASSUME TypeOK, NoError, NEW c \in Client, NEW kind, NEW s, NEW error, NEW songs,
           Answer(c, kind, s, error, songs), kind \in {"like", "unlike"} => error # "other"
    PROVE  NoError'
<1> DEFINE a == [kind |-> kind, song |-> s, error |-> error, songs |-> songs]
<1>1. a.kind \in {"like", "unlike"} => a.error # "other"
  OBVIOUS
<1>2. rsp' = rsp \/ rsp' = [rsp EXCEPT ![c] = Append(@, a)]
  BY DEF Answer
<1> HIDE DEF a
<1>3. CASE rsp' = rsp
  BY <1>3 DEF NoError
<1>4. CASE rsp' = [rsp EXCEPT ![c] = Append(@, a)]
  <2>1. rsp[c] \in Seq(Response) /\ Fine(rsp[c])
    BY DEF TypeOK, NoError
  <2>2. Fine(Append(rsp[c], a))
    <3>1. /\ Len(Append(rsp[c], a)) = Len(rsp[c]) + 1 /\ Len(rsp[c]) \in Nat
          /\ \A i \in 1..Len(rsp[c]) : Append(rsp[c], a)[i] = rsp[c][i]
          /\ Append(rsp[c], a)[Len(rsp[c]) + 1] = a
      BY <2>1
    <3>2. \A i \in 1..(Len(rsp[c]) + 1) : i \in 1..Len(rsp[c]) \/ i = Len(rsp[c]) + 1
      BY <3>1
    <3> QED BY <1>1, <2>1, <3>1, <3>2 DEF Fine
  <2>3. rsp'[c] = Append(rsp[c], a) /\ \A d \in Client \ {c} : rsp'[d] = rsp[d]
    BY <1>4 DEF TypeOK
  <2> QED BY <2>2, <2>3 DEF NoError
<1> QED BY <1>2, <1>3, <1>4

LEMMA NoErrorStep ==
    ASSUME TypeOK, NoError, [Next]_vars
    PROVE  NoError'
<1>1. ASSUME rsp' = rsp PROVE NoError'
  BY <1>1 DEF NoError
<1>2. ASSUME NEW c \in Client, rsp[c] # <<>>, Received(c) PROVE NoError'
  <2>1. Fine(Tail(rsp[c]))
    BY <1>2, FineTail DEF NoError, TypeOK
  <2> QED BY <1>2, <2>1 DEF NoError, Received, TypeOK
<1>3. ASSUME NEW c \in Client, rsp' = [rsp EXCEPT ![c] = <<>>] PROVE NoError'
  <2>1. Fine(<<>>)
    BY DEF Fine
  <2> QED BY <1>3, <2>1 DEF NoError, TypeOK
<1>4. ASSUME NEW c \in Client,
             \/ Open(c) \/ \E s \in Song : Click(c, s)
             \/ ReceiveCollect(c) \/ ReceiveInfo(c) \/ ReceiveSongs(c)
             \/ InsertToken(c) \/ Login(c) \/ Kick(c)
      PROVE  NoError'
  <2>1. \/ rsp' = rsp \/ rsp' = [rsp EXCEPT ![c] = <<>>]
        \/ rsp[c] # <<>> /\ Received(c)
    BY <1>4 DEF Open, Click, ReceiveCollect, ReceiveInfo, ReceiveSongs, InsertToken, Login, Kick
  <2> QED BY <1>1, <1>2, <1>3, <2>1
<1>5. ASSUME NEW c \in Client, Worker(c) PROVE NoError'
  <2>1. ASSUME NEW kind \in {"like", "unlike"}, Finish(c, kind) PROVE NoError'
    BY <2>1, FineAnswer DEF Finish
  <2>2. CASE Take(c)
    <3>1. rsp' = rsp \/ Answer(c, Head(req[c]).kind, Head(req[c]).song, "token", {})
      BY <2>2, TakeShape
    <3> QED BY <1>1, <3>1, FineAnswer
  <2>3. CASE Abort(c)
    BY <1>3, <2>3 DEF Abort
  <2>4. CASE PageInfo(c)
    <3>1. \E error \in {"success", "other"} : Answer(c, "info", None, error, {})
      BY <2>4 DEF PageInfo
    <3> QED BY <3>1, FineAnswer
  <2>5. CASE PageSongs(c)
    <3>1. \E error \in {"success", "other"} : \E S \in SUBSET Song : Answer(c, "songs", None, error, S)
      BY <2>5 DEF PageSongs, Songs
    <3> QED BY <3>1, FineAnswer
  <2>6. CASE \/ GetCoverUrlId(c) \/ SelectDefault(c) \/ InsertDefault(c)
             \/ SelectAny(c) \/ InsertPlain(c)
    <3>1. rsp' = rsp
      BY <2>6 DEF GetCoverUrlId, SelectDefault, InsertDefault, SelectAny, InsertPlain, Goto, WithList
    <3> QED BY <1>1, <3>1
  <2>7. CASE \/ CountSong(c) \/ MaxPosition(c) \/ InsertSong(c)
             \/ GetPlaylistId(c) \/ DeleteSong(c) \/ SelectOrder(c) \/ Renumber(c)
    <3>1. rsp' = rsp \/ \E kind \in {"like", "unlike"} : Finish(c, kind)
      BY <2>7 DEF CountSong, MaxPosition, InsertSong, GetPlaylistId, DeleteSong, SelectOrder,
                  Renumber, Goto, WithList
    <3> QED BY <1>1, <2>1, <3>1
  <2> QED BY <1>5, <2>2, <2>3, <2>4, <2>5, <2>6, <2>7 DEF Worker
<1>6. CASE UNCHANGED vars
  BY <1>1, <1>6 DEF vars
<1> QED BY <1>4, <1>5, <1>6 DEF Next

\* How a step keeps the heart of a song true.
LEMMA HeartSame ==
    ASSUME NEW c \in Client, NEW s \in Song, HeartIs(c, s), req'[c] = req[c],
           s \in heart'[c] <=> s \in heart[c], Will(c, s)' <=> Will(c, s)
    PROVE  HeartIs(c, s)'
BY DEF HeartIs, LastFor

LEMMA Appended ==
    ASSUME NEW S, NEW q \in Seq(S), NEW r \in S
    PROVE  /\ Len(Append(q, r)) = Len(q) + 1 /\ Len(q) \in Nat
           /\ \A i \in 1..Len(q) : Append(q, r)[i] = q[i]
           /\ Append(q, r)[Len(q) + 1] = r
           /\ \A i \in 1..(Len(q) + 1) : i \in 1..Len(q) \/ i = Len(q) + 1
<1>1. Len(q) \in Nat
  OBVIOUS
<1> QED BY <1>1

LEMMA HeartOther ==
    ASSUME TypeOK, NEW c \in Client, NEW s \in Song, HeartIs(c, s),
           NEW r \in Request, req'[c] = Append(req[c], r), r.song # s,
           s \in heart'[c] <=> s \in heart[c], Will(c, s)' <=> Will(c, s)
    PROVE  HeartIs(c, s)'
<1> DEFINE q == req[c]
<1>1. /\ Len(req'[c]) = Len(q) + 1 /\ Len(q) \in Nat
      /\ \A i \in 1..Len(q) : req'[c][i] = q[i]
      /\ req'[c][Len(q) + 1] = r
      /\ \A i \in 1..(Len(q) + 1) : i \in 1..Len(q) \/ i = Len(q) + 1
  BY Appended DEF TypeOK
<1>2. ASSUME NEW i \in 1..Len(req'[c]), LastFor(c, s, i)' PROVE s \in heart'[c] <=> req'[c][i].kind = "like"
  <2>1. i \in 1..Len(q) /\ req'[c][i] = q[i]
    BY <1>1, <1>2 DEF LastFor
  <2>2. \A k \in (i + 1)..Len(q) : k \in 1..Len(q) /\ k \in (i + 1)..(Len(q) + 1)
    BY <1>1, <2>1
  <2>3. LastFor(c, s, i)
    BY <1>1, <1>2, <2>1, <2>2 DEF LastFor
  <2> QED BY <2>1, <2>3 DEF HeartIs
<1>3. ASSUME \A i \in 1..Len(req'[c]) : req'[c][i].song # s PROVE s \in heart'[c] <=> Will(c, s)'
  <2>1. \A i \in 1..Len(q) : q[i].song # s
    <3>1. \A i \in 1..Len(q) : i \in 1..(Len(q) + 1)
      BY <1>1
    <3> QED BY <1>1, <1>3, <3>1
  <2> QED BY <2>1 DEF HeartIs
<1> QED BY <1>2, <1>3 DEF HeartIs

LEMMA HeartAsked ==
    ASSUME TypeOK, NEW c \in Client, NEW s \in Song,
           NEW r \in Request, req'[c] = Append(req[c], r), r.song = s,
           s \in heart'[c] <=> r.kind = "like"
    PROVE  HeartIs(c, s)'
<1> DEFINE q == req[c]
<1>1. /\ Len(req'[c]) = Len(q) + 1 /\ Len(q) \in Nat
      /\ req'[c][Len(q) + 1] = r
      /\ \A i \in 1..(Len(q) + 1) : i \in 1..Len(q) \/ i = Len(q) + 1
  BY Appended DEF TypeOK
<1>2. \A i \in 1..Len(q) : Len(q) + 1 \in (i + 1)..(Len(q) + 1)
  BY <1>1
<1>3. \A i \in 1..Len(req'[c]) : LastFor(c, s, i)' => i = Len(q) + 1
  BY <1>1, <1>2 DEF LastFor
<1>4. Len(q) + 1 \in 1..Len(req'[c])
  BY <1>1
<1> QED BY <1>1, <1>3, <1>4 DEF HeartIs

LEMMA HeartTaken ==
    ASSUME TypeOK, NEW c \in Client, NEW s \in Song, HeartIs(c, s),
           req[c] # <<>>, req'[c] = Tail(req[c]), heart' = heart,
           Head(req[c]).song # s => (Will(c, s)' <=> Will(c, s)),
           Head(req[c]).song = s => (Will(c, s)' <=> Head(req[c]).kind = "like")
    PROVE  HeartIs(c, s)'
<1> DEFINE q == req[c]
<1>1. /\ Len(req'[c]) = Len(q) - 1 /\ Len(q) \in Nat /\ Len(q) > 0
      /\ \A i \in 1..Len(req'[c]) : req'[c][i] = q[i + 1]
      /\ Head(q) = q[1]
  BY HeadTailProperties DEF TypeOK
<1>2. ASSUME NEW i \in 1..Len(req'[c]), LastFor(c, s, i)' PROVE s \in heart'[c] <=> req'[c][i].kind = "like"
  <2>1. i + 1 \in 1..Len(q) /\ req'[c][i] = q[i + 1]
    BY <1>1
  <2>2. \A k \in (i + 2)..Len(q) : k - 1 \in (i + 1)..Len(req'[c]) /\ k - 1 \in 1..Len(req'[c])
                                   /\ (k - 1) + 1 = k
    BY <1>1
  <2>3. \A k \in ((i + 1) + 1)..Len(q) : q[k].song # s
    BY SMTT(30), <1>1, <1>2, <2>2 DEF LastFor
  <2>4. LastFor(c, s, i + 1)
    BY <1>2, <2>1, <2>3 DEF LastFor
  <2> QED BY <2>1, <2>4 DEF HeartIs
<1>3. ASSUME \A i \in 1..Len(req'[c]) : req'[c][i].song # s PROVE s \in heart'[c] <=> Will(c, s)'
  <2>1. \A k \in 2..Len(q) : q[k].song # s
    <3>1. \A k \in 2..Len(q) : k - 1 \in 1..Len(req'[c]) /\ (k - 1) + 1 = k
      BY <1>1
    <3> QED BY <1>1, <1>3, <3>1
  <2>2. 1 \in 1..Len(q) /\ \A i \in 1..Len(q) : i = 1 \/ i \in 2..Len(q)
    BY <1>1
  <2>3. CASE Head(q).song = s
    <3>1. LastFor(c, s, 1)
      BY <1>1, <2>1, <2>3 DEF LastFor
    <3> QED BY <1>1, <2>2, <2>3, <3>1 DEF HeartIs
  <2>4. CASE Head(q).song # s
    <3>1. \A i \in 1..Len(q) : q[i].song # s
      BY <1>1, <2>1, <2>2, <2>4
    <3> QED BY <2>4, <3>1 DEF HeartIs
  <2> QED BY <2>3, <2>4
<1> QED BY <1>2, <1>3 DEF HeartIs

\* How a handler keeps what it will have done.
LEMMA WillSame ==
    ASSUME NEW c \in Client, NEW s \in Song, job[c].at \in Likes \cup Unlikes,
           \A t \in Song \ {job[c].song} : pos'["default"][t] # 0 <=> pos["default"][t] # 0,
           \/ /\ job'[c].song = job[c].song /\ job'[c].at \in Likes \cup Unlikes
              /\ job'[c].at \in Likes <=> job[c].at \in Likes
           \/ job'[c] = Idle /\ (pos'["default"][job[c].song] # 0 <=> job[c].at \in Likes)
    PROVE  Will(c, s)' <=> Will(c, s)
<1>1. Idle.at \notin Likes \cup Unlikes
  BY IdleJob DEF Likes, Unlikes
<1>2. CASE s = job[c].song
  BY <1>1, <1>2 DEF Will
<1>3. CASE s # job[c].song
  BY <1>1, <1>3 DEF Will
<1> QED BY <1>2, <1>3

LEMMA WillStep ==
    ASSUME Inv, Undisturbed, Gone, ~overlap, NoFaultYet, NoFault,
           NEW c \in Client, Worker(c), job[c].at # "idle", NEW s \in Song
    PROVE  /\ req' = req
           /\ Will(c, s)' <=> Will(c, s)
<1>0. CollectAssumption /\ TypeOK
  BY CollectAssumption DEF Inv
<1>1. ~Fault
  BY <1>0 DEF Fault, NoFault, TypeOK
<1>2. /\ job[c] \in Job /\ job \in [Client -> Job] /\ pos \in [List -> [Song -> Nat]]
      /\ "default" \in List
      /\ job[c].at \in SongSteps => job[c].song \in Song
      /\ "plain" \notin lists /\ job[c].at # "insert plain"
      /\ job[c].at \in {"count", "max", "insert", "delete", "order", "renumber"} => job[c].list = "default"
      /\ \A l \in List \ lists : \A t \in Song : pos[l][t] = 0
  BY <1>0 DEF Inv, TypeOK, OnlyDefault, ListFound, List, Songs
<1>3. ~Take(c) /\ ~InsertPlain(c) /\ ~Abort(c)
  BY <1>2 DEF Take, InsertPlain, Abort, At
<1>4. req' = req
  BY <1>3 DEF Worker, GetCoverUrlId, SelectDefault, InsertDefault, SelectAny, CountSong, MaxPosition,
              InsertSong, GetPlaylistId, DeleteSong, SelectOrder, Renumber, PageInfo, PageSongs
<1> USE DEF Likes, Unlikes
<1>5. CASE GetCoverUrlId(c) \/ SelectDefault(c) \/ InsertDefault(c)
  <2>1. /\ pos' = pos
        /\ \/ \E step \in {"select any", "insert default"} : job' = [job EXCEPT ![c].at = step]
           \/ \E ok \in BOOLEAN : job' = [job EXCEPT ![c].at = "select default", ![c].cover = ok]
        /\ job[c].at \in {"cover", "select default", "insert default"}
    BY <1>5 DEF GetCoverUrlId, SelectDefault, InsertDefault, Goto, db, At
  <2>2. job'[c].song = job[c].song /\ job'[c].at \in {"select default", "select any", "insert default"}
    <3>1. ASSUME NEW step \in {"select any", "insert default"}, job' = [job EXCEPT ![c].at = step]
          PROVE  job'[c].song = job[c].song /\ job'[c].at \in {"select any", "insert default"}
      BY <1>2, <3>1 DEF Job
    <3>2. ASSUME NEW ok \in BOOLEAN, job' = [job EXCEPT ![c].at = "select default", ![c].cover = ok]
          PROVE  job'[c].song = job[c].song /\ job'[c].at = "select default"
      BY <1>2, <3>2 DEF Job
    <3> QED BY <2>1, <3>1, <3>2
  <2> QED BY <1>4, <2>1, <2>2, WillSame
<1>6. CASE SelectAny(c)
  <2>1. pos' = pos /\ job[c].at = "select any" /\ lists # {}
    BY <1>0, <1>6 DEF SelectAny, db, At, Inv, OnlyDefault
  <2>2. PICK l \in lists : job' = [job EXCEPT ![c].at = "count", ![c].list = l]
    BY <1>1, <1>6, <2>1 DEF SelectAny, WithList
  <2>3. job'[c].song = job[c].song /\ job'[c].at = "count"
    BY <1>2, <2>2 DEF Job
  <2> QED BY <1>4, <2>1, <2>3, WillSame
<1>7. CASE CountSong(c)
  <2>1. pos' = pos /\ job[c].at = "count" /\ job[c].list = "default"
    BY <1>2, <1>7 DEF CountSong, db, At
  <2>2. CASE Goto(c, "max")
    <3>1. job'[c].song = job[c].song /\ job'[c].at = "max"
      BY <1>2, <2>2 DEF Job, Goto
    <3> QED BY <1>4, <2>1, <3>1, WillSame
  <2>3. CASE pos[job[c].list][job[c].song] # 0 /\ Finish(c, "like")
    <3>1. job'[c] = Idle
      BY <1>2, <2>3 DEF Finish
    <3> QED BY <1>4, <2>1, <2>3, <3>1, WillSame
  <2> QED BY <1>1, <1>7, <2>2, <2>3 DEF CountSong
<1>8. CASE MaxPosition(c)
  <2>1. pos' = pos /\ job[c].at = "max"
    BY <1>8 DEF MaxPosition, db, At
  <2>2. PICK p \in NextPosition(job[c].list) : job' = [job EXCEPT ![c].at = "insert", ![c].place = p]
    BY <1>1, <1>8 DEF MaxPosition
  <2>3. job'[c].song = job[c].song /\ job'[c].at = "insert"
    BY <1>2, <2>2 DEF Job
  <2> QED BY <1>4, <2>1, <2>3, WillSame
<1>9. CASE InsertSong(c)
  <2>1. /\ job[c].at = "insert" /\ job[c].list = "default" /\ job[c].song \in Song
        /\ job[c].place \in Nat /\ pos["default"][job[c].song] < job[c].place
    BY <1>2, <1>9 DEF InsertSong, At, SongSteps, Step, Undisturbed, PlaceIsLast, Job
  <2>2. job'[c] = Idle
    BY <1>2, <1>9 DEF InsertSong, Finish
  <2>3. pos' = IF pos["default"][job[c].song] = 0
               THEN [pos EXCEPT !["default"][job[c].song] = job[c].place] ELSE pos
    BY <1>1, <1>9, <2>1 DEF InsertSong
  <2>4. job[c].place # 0
    BY <1>2, <2>1
  <2>5. /\ pos'["default"][job[c].song] # 0
        /\ \A t \in Song \ {job[c].song} : pos'["default"][t] = pos["default"][t]
    BY <1>2, <2>1, <2>3, <2>4
  <2> QED BY <1>4, <2>1, <2>2, <2>5, WillSame
<1>10. CASE GetPlaylistId(c)
  <2>1. pos' = pos /\ job[c].at = "find" /\ job[c].song \in Song
    BY <1>2, <1>10 DEF GetPlaylistId, db, At, SongSteps, Step
  <2>2. ASSUME NEW l \in lists, WithList(c, l, "delete")
        PROVE  job'[c].song = job[c].song /\ job'[c].at = "delete"
    BY <1>2, <2>2 DEF Job, WithList
  <2>3. CASE lists = {} /\ Finish(c, "unlike")
    <3>1. job'[c] = Idle /\ pos["default"][job[c].song] = 0
      BY <1>2, <2>1, <2>3 DEF Finish
    <3> QED BY <1>4, <2>1, <3>1, WillSame
  <2>4. CASE \E l \in lists : WithList(c, l, "delete")
    BY <1>4, <2>1, <2>2, <2>4, WillSame
  <2> QED BY <1>1, <1>10, <2>3, <2>4 DEF GetPlaylistId
<1>11. CASE DeleteSong(c)
  <2>1. job[c].at = "delete" /\ job[c].list = "default" /\ job[c].song \in Song
    BY <1>2, <1>11 DEF DeleteSong, At, SongSteps, Step
  <2>2. CASE pos["default"][job[c].song] = 0 /\ Finish(c, "unlike") /\ pos' = pos
    <3>1. job'[c] = Idle
      BY <1>2, <2>2 DEF Finish
    <3> QED BY <1>4, <2>1, <2>2, <3>1, WillSame
  <2>3. CASE pos' = [pos EXCEPT !["default"][job[c].song] = 0] /\ Goto(c, "order")
    <3>1. job'[c].song = job[c].song /\ job'[c].at = "order"
      BY <1>2, <2>3 DEF Job, Goto
    <3>2. \A t \in Song \ {job[c].song} : pos'["default"][t] = pos["default"][t]
      BY <1>2, <2>3
    <3> QED BY <1>4, <2>1, <3>1, <3>2, WillSame
  <2> QED BY <1>1, <1>11, <2>1, <2>2, <2>3 DEF DeleteSong
<1>12. CASE SelectOrder(c)
  <2>1. pos' = pos /\ job[c].at = "order"
    BY <1>12 DEF SelectOrder, db, At
  <2>2. job' = [job EXCEPT ![c].at = "renumber", ![c].order = pos[job[c].list]]
    BY <1>1, <1>12 DEF SelectOrder
  <2>3. job'[c].song = job[c].song /\ job'[c].at = "renumber"
    BY <1>2, <2>2 DEF Job
  <2> QED BY <1>4, <2>1, <2>3, WillSame
<1>13. CASE Renumber(c)
  <2>1. /\ job[c].at = "renumber" /\ job[c].list = "default" /\ job[c].song \in Song
        /\ job[c].order = pos["default"] /\ pos["default"][job[c].song] = 0
    BY <1>2, <1>13 DEF Renumber, At, SongSteps, Step, Undisturbed, OrderIsRead, Gone
  <2>2. job'[c] = Idle
    BY <1>2, <1>13 DEF Renumber, Finish
  <2>3. PICK rank \in [Song -> 0..Cardinality(Song)] :
            /\ IsRank(rank, pos["default"])
            /\ pos' = [pos EXCEPT !["default"] = [t \in Song |->
                    IF pos["default"][t] \in {0, rank[t]} \/ @[t] = 0 THEN @[t] ELSE rank[t]]]
    BY <1>1, <1>13, <2>1 DEF Renumber
  <2>4. \A t \in Song : pos["default"][t] # 0 => rank[t] # 0
    <3> DEFINE there == {t \in Song : pos["default"][t] # 0}
    <3>1. \A t \in there : rank[t] \in 1..Cardinality(there)
      BY <2>3 DEF IsRank
    <3>2. Cardinality(there) \in Nat
      <4>1. there \subseteq Song
        OBVIOUS
      <4> HIDE DEF there
      <4> QED BY <1>0, <4>1, FS_Subset, FS_CardinalityType DEF CollectAssumption
    <3> HIDE DEF there
    <3>3. \A t \in there : rank[t] # 0
      BY <3>1, <3>2
    <3> QED BY <3>3 DEF there
  <2>5. \A t \in Song : pos'["default"][t] # 0 <=> pos["default"][t] # 0
    <3>1. \A t \in Song : pos'["default"][t] =
            IF pos["default"][t] \in {0, rank[t]} \/ pos["default"][t] = 0 THEN pos["default"][t] ELSE rank[t]
      BY <1>2, <2>3
    <3> QED BY <2>4, <3>1
  <2> QED BY <1>4, <2>1, <2>2, <2>5, WillSame
<1>14. CASE PageInfo(c) \/ PageSongs(c)
  <2>1. /\ pos' = pos /\ job[c].at \in {"info", "songs"}
        /\ job'[c] = Idle
    BY <1>2, <1>14 DEF PageInfo, PageSongs, db, At
  <2> QED BY <1>4, <2>1, IdleJob DEF Will
<1> QED BY <1>3, <1>5, <1>6, <1>7, <1>8, <1>9, <1>10, <1>11, <1>12, <1>13, <1>14 DEF Worker

LEMMA WorkerFaults ==
    ASSUME NEW c \in Client, Worker(c)
    PROVE  Fault \/ NoFault
BY DEF Worker, Take, Handle, GetCoverUrlId, SelectDefault, InsertDefault, SelectAny, InsertPlain,
       Abort, CountSong, MaxPosition, InsertSong, GetPlaylistId, DeleteSong, SelectOrder,
       Renumber, PageInfo, PageSongs

LEMMA HeartsStep ==
    ASSUME Inv, Undisturbed, Gone, NoError, Hearts, [Next]_vars
    PROVE  Hearts'
<1> USE CollectAssumption
<1>0. TypeOK /\ job \in [Client -> Job]
  BY DEF Inv, TypeOK
<1>1. ASSUME \A d \in Client : TokenIsValid(d)' => TokenIsValid(d),
             overlap' = overlap, faultsLeft' = faultsLeft,
             \A d \in Client : TokenIsValid(d) =>
                heart'[d] = heart[d] /\ req'[d] = req[d] /\ job'[d] = job[d],
             pos' = pos
      PROVE  Hearts'
  <2>1. \A d \in Client, s \in Song : TokenIsValid(d) => (Will(d, s)' <=> Will(d, s))
    BY <1>1 DEF Will
  <2> QED BY <1>1, <2>1, HeartSame DEF Hearts, NoFaultYet
<1>2. ASSUME NEW c \in Client, NEW r \in Request, req' = [req EXCEPT ![c] = Append(@, r)],
             UNCHANGED <<up, token, overlap, job, pos, faultsLeft>>,
             \A d \in Client \ {c} : heart'[d] = heart[d],
             \A s \in Song : \/ s # r.song /\ (s \in heart'[c] <=> s \in heart[c])
                             \/ s = r.song /\ (s \in heart'[c] <=> r.kind = "like")
      PROVE  Hearts'
  <2> SUFFICES ASSUME NoFaultYet, ~overlap, NEW d \in Client, TokenIsValid(d), NEW s \in Song
               PROVE  HeartIs(d, s)'
    BY <1>2 DEF Hearts, NoFaultYet, TokenIsValid
  <2>1. HeartIs(d, s) /\ (Will(d, s)' <=> Will(d, s))
    BY <1>2 DEF Hearts, Will
  <2>2. /\ req'[c] = Append(req[c], r)
        /\ d # c => req'[d] = req[d]
    BY <1>0, <1>2 DEF TypeOK
  <2>3. CASE d # c
    BY <1>2, <2>1, <2>2, <2>3, HeartSame
  <2>4. CASE d = c /\ s # r.song
    BY <1>0, <1>2, <2>1, <2>2, <2>4, HeartOther
  <2>5. CASE d = c /\ s = r.song
    BY <1>0, <1>2, <2>2, <2>5, HeartAsked
  <2> QED BY <2>3, <2>4, <2>5
<1>3. ASSUME NEW c \in Client, Open(c) PROVE Hearts'
  <2> DEFINE r == [kind |-> "info", song |-> None]
  <2>1. /\ r \in Request /\ r.song \notin Song
        /\ req' = [req EXCEPT ![c] = Append(@, r)]
        /\ UNCHANGED <<up, token, overlap, job, pos, faultsLeft, heart>>
    BY <1>3 DEF Open, Send, Request, session, db, ui
  <2> HIDE DEF r
  <2> QED BY <1>2, <2>1
<1>4. ASSUME NEW c \in Client, NEW t \in Song, Click(c, t) PROVE Hearts'
  <2> DEFINE r == [kind |-> IF t \in heart[c] THEN "unlike" ELSE "like", song |-> t]
  <2>1. /\ r \in Request /\ r.song = t /\ r.kind = IF t \in heart[c] THEN "unlike" ELSE "like"
        /\ req' = [req EXCEPT ![c] = Append(@, r)]
        /\ UNCHANGED <<up, token, overlap, job, pos, faultsLeft>>
    BY <1>4 DEF Click, Send, Request, session, db
  <2>2. heart' = [heart EXCEPT ![c] = IF t \in @ THEN @ \ {t} ELSE @ \cup {t}]
    BY <1>4 DEF Click
  <2>3. /\ heart'[c] = IF t \in heart[c] THEN heart[c] \ {t} ELSE heart[c] \cup {t}
        /\ \A d \in Client \ {c} : heart'[d] = heart[d]
    BY <1>0, <2>2 DEF TypeOK
  <2> HIDE DEF r
  <2>4. \A s \in Song : \/ s # r.song /\ (s \in heart'[c] <=> s \in heart[c])
                        \/ s = r.song /\ (s \in heart'[c] <=> r.kind = "like")
    BY <2>1, <2>3
  <2> QED BY <1>2, <2>1, <2>3, <2>4
<1>5. ASSUME NEW c \in Client, ReceiveCollect(c) PROVE Hearts'
  <2>1. Head(rsp[c]).error # "other"
    <3>1. rsp[c] # <<>> /\ Head(rsp[c]).kind \in {"like", "unlike"} /\ rsp[c] \in Seq(Response)
      BY <1>0, <1>5 DEF ReceiveCollect, TypeOK
    <3>2. Head(rsp[c]) = rsp[c][1] /\ 1 \in 1..Len(rsp[c])
      BY <3>1
    <3> QED BY <3>1, <3>2 DEF NoError, Fine
  <2>2. heart' = [heart EXCEPT ![c] = heart[c]] /\ heart = [heart EXCEPT ![c] = heart[c]]
    BY <1>0, <1>5, <2>1 DEF ReceiveCollect, TypeOK
  <2>3. heart' = heart /\ UNCHANGED <<up, token, overlap, job, pos, faultsLeft, req>>
    BY <1>5, <2>2 DEF ReceiveCollect, session, db
  <2> QED BY <1>1, <2>3 DEF TokenIsValid
<1>6. ASSUME NEW c \in Client, ReceiveInfo(c) PROVE Hearts'
  <2> DEFINE r == [kind |-> "songs", song |-> None]
  <2>1. /\ r \in Request /\ r.song \notin Song
        /\ req' = [req EXCEPT ![c] = Append(@, r)] \/ req' = req
        /\ UNCHANGED <<up, token, overlap, job, pos, faultsLeft, heart>>
    BY <1>6 DEF ReceiveInfo, Send, Request, session, db
  <2> HIDE DEF r
  <2>2. CASE req' = req
    BY <1>1, <2>1, <2>2 DEF TokenIsValid
  <2> QED BY <1>2, <2>1, <2>2
<1>7. ASSUME NEW c \in Client, ReceiveSongs(c) PROVE Hearts'
  <2>1. UNCHANGED <<up, token, overlap, job, pos, faultsLeft, heart, req>>
    BY <1>7 DEF ReceiveSongs, session, db
  <2> QED BY <1>1, <2>1 DEF TokenIsValid
<1>8. ASSUME NEW c \in Client, InsertToken(c) PROVE Hearts'
  <2>1. \A d \in Client : ~TokenIsValid(d)'
    BY <1>8 DEF InsertToken, TokenIsValid
  <2> QED BY <2>1 DEF Hearts
<1>9. ASSUME NEW c \in Client, Login(c) PROVE Hearts'
  <2>1. /\ \A d \in Client : TokenIsValid(d)' => d = c
        /\ heart'[c] = Liked /\ req'[c] = <<>> /\ job'[c] = Idle /\ pos' = pos
    BY <1>0, <1>9 DEF Login, TokenIsValid, db, TypeOK
  <2>2. \A s \in Song : Will(c, s)' <=> s \in Liked
    BY <2>1, IdleJob DEF Will, Likes, Unlikes, Liked, Songs
  <2>3. Len(req'[c]) = 0
    BY <2>1
  <2>4. \A s \in Song : HeartIs(c, s)'
    BY <2>1, <2>2, <2>3 DEF HeartIs
  <2> QED BY <2>1, <2>4 DEF Hearts
<1>10. ASSUME NEW c \in Client, Kick(c) PROVE Hearts'
  <2>1. UNCHANGED <<token, overlap, job, pos, faultsLeft, heart, req>> /\ up' = [up EXCEPT ![c] = FALSE]
    BY <1>10 DEF Kick, ui, db
  <2>2. \A d \in Client : up'[d] => up[d]
    BY <1>0, <2>1 DEF TypeOK
  <2> QED BY <1>1, <2>1, <2>2 DEF TokenIsValid
<1>11. ASSUME NEW c \in Client, Worker(c) PROVE Hearts'
  <2>1. /\ \A d \in Client \ {c} : job'[d] = job[d] /\ up'[d] = up[d]
        /\ up'[c] => up[c]
        /\ token' = token /\ overlap' = overlap /\ heart' = heart
        /\ job[c].at = "idle" => Take(c)
    BY <1>0, <1>11, WorkerShape
  <2>2. \A d \in Client : TokenIsValid(d)' => TokenIsValid(d)
    BY <2>1 DEF TokenIsValid
  <2>3. Fault \/ NoFault
    BY <1>0, <1>11, WorkerFaults
  <2> SUFFICES ASSUME NoFaultYet', ~overlap, NEW d \in Client, TokenIsValid(d), NEW s \in Song
               PROVE  HeartIs(d, s)'
    BY <2>1, <2>2 DEF Hearts
  <2>4. NoFaultYet /\ NoFault /\ ~Fault
    BY <1>0, <2>3, FaultsLeft DEF Fault, NoFault, NoFaultYet, TypeOK
  <2>5. HeartIs(d, s)
    BY <2>4 DEF Hearts
  <2>6. CASE Take(c)
    <3>1. /\ pos' = pos /\ req[c] # <<>> /\ req' = [req EXCEPT ![c] = Tail(@)] /\ job[c].at = "idle"
      BY <1>0, <2>6, TakeShape
    <3>2. CASE d # c
      <4>1. req'[d] = req[d] /\ job'[d] = job[d]
        BY <1>0, <2>1, <3>1, <3>2 DEF TypeOK
      <4> QED BY <2>1, <2>5, <3>1, <4>1, HeartSame DEF Will
    <3>3. CASE d = c
      <4> DEFINE r == Head(req[c])
      <4>1. job' = [job EXCEPT ![c] = [Idle EXCEPT !.at = FirstStep[r.kind], !.song = r.song]]
        BY <1>0, <2>4, <2>6, <3>3, TakeShape
      <4>2. r \in Request
        BY <1>0, <3>1, TakeType DEF TypeOK
      <4> HIDE DEF r
      <4>3. job'[c] = [Idle EXCEPT !.at = FirstStep[r.kind], !.song = r.song]
        BY <1>0, <4>1
      <4>4. job'[c].at = FirstStep[r.kind] /\ job'[c].song = r.song
        BY <4>3, IdleJob DEF Job
      <4>5. /\ Will(c, s) <=> pos["default"][s] # 0
        BY <3>1 DEF Will, Likes, Unlikes
      <4>6. r.song # s => (Will(c, s)' <=> Will(c, s))
        BY <3>1, <4>4, <4>5 DEF Will
      <4>7. r.song = s => (Will(c, s)' <=> r.kind = "like")
        <5>1. r.song = s => r.kind \in {"like", "unlike"}
          BY <4>2 DEF Request
        <5> QED BY <4>4, <5>1, FirstSteps DEF Will, Likes, Unlikes
      <4>8. req'[c] = Tail(req[c])
        BY <1>0, <3>1 DEF TypeOK
      <4> QED BY <1>0, <2>1, <2>5, <3>1, <3>3, <4>6, <4>7, <4>8, HeartTaken DEF r
    <3> QED BY <3>2, <3>3
  <2>7. CASE ~Take(c)
    <3>1. job[c].at # "idle" /\ d = c
      BY <2>1, <2>7 DEF Undisturbed, OneAtWork
    <3>2. req' = req /\ (Will(c, s)' <=> Will(c, s))
      BY <1>11, <2>4, <3>1, WillStep
    <3> QED BY <2>1, <2>5, <3>1, <3>2, HeartSame
  <2> QED BY <2>6, <2>7
<1>12. CASE UNCHANGED vars
  <2>1. UNCHANGED <<up, token, overlap, job, pos, faultsLeft, heart, req>>
    BY <1>12 DEF vars, session, db, ui
  <2> QED BY <1>1, <2>1 DEF TokenIsValid
<1> QED BY <1>3, <1>4, <1>5, <1>6, <1>7, <1>8, <1>9, <1>10, <1>11, <1>12 DEF Next

HeartInv == Undisturbed /\ Gone /\ NoError /\ Hearts

LEMMA HeartInvInit == Init => HeartInv
<1> SUFFICES ASSUME Init PROVE HeartInv
  OBVIOUS
<1>1. Undisturbed
  BY UndisturbedInit
<1>2. \A c \in Client : job[c].at = "idle"
  BY IdleJob DEF Init
<1>3. Gone
  BY <1>2 DEF Gone
<1>4. NoError
  BY DEF Init, NoError, Fine
<1>5. Hearts
  <2>1. \A c \in Client : TokenIsValid(c) => heart[c] = Liked /\ req[c] = <<>>
    BY DEF Init, TokenIsValid
  <2>2. \A c \in Client, s \in Song : Will(c, s) <=> s \in Liked
    BY <1>2 DEF Will, Likes, Unlikes, Liked, Songs
  <2>3. Len(<<>>) = 0
    OBVIOUS
  <2> QED BY <2>1, <2>2, <2>3 DEF Hearts, HeartIs
<1> QED BY <1>1, <1>3, <1>4, <1>5 DEF HeartInv

LEMMA HeartInvStep == Inv /\ Inv' /\ HeartInv /\ [Next]_vars => HeartInv'
BY UndisturbedStep, GoneStep, NoErrorStep, HeartsStep DEF HeartInv, Inv

\* The hearts of the client that is logged in are the liked songs of the
\* database once it is quiet, however often they were clicked, unless a statement
\* failed or two logins were at work at once.
THEOREM HeartsTrue == Spec => []HeartsAgree
<1>1. Inv /\ HeartInv => HeartsAgree
  <2> SUFFICES ASSUME Inv, HeartInv, NoFaultYet, ~overlap, NEW c \in Client, Quiet(c)
               PROVE  heart[c] = Liked
    BY DEF HeartsAgree
  <2>1. TokenIsValid(c) /\ Len(req[c]) = 0 /\ job[c].at = "idle"
    BY IdleJob DEF Quiet, TokenIsValid
  <2>2. \A s \in Song : s \in heart[c] <=> Will(c, s)
    BY <2>1 DEF HeartInv, Hearts, HeartIs
  <2>3. \A s \in Song : Will(c, s) <=> s \in Liked
    BY <2>1 DEF Will, Likes, Unlikes, Liked, Songs
  <2>4. heart[c] \subseteq Song /\ Liked \subseteq Song
    BY DEF Inv, TypeOK, Liked, Songs
  <2> QED BY <2>2, <2>3, <2>4
<1> QED BY <1>1, HeartInvInit, HeartInvStep, Invariance, PTL DEF Spec

-----------------------------------------------------------------------------
(* The songs that were asked for are those of the last request, answer or    *)
(* page, and no click is handled after that.                                 *)

Clicked(c, i) == \E k \in i..Len(req[c]) : req[c][k].kind \in {"like", "unlike"}
Asked(c) == \E i \in 1..Len(req[c]) : req[c][i].kind = "songs" /\ ~Clicked(c, i)
Shows(a) == IF a.error = "success" THEN a.songs = Liked ELSE Liked = {}
Answered(c) == \E i \in 1..Len(rsp[c]) :
    /\ rsp[c][i].kind = "songs" /\ Shows(rsp[c][i])
    /\ \A k \in (i + 1)..Len(rsp[c]) : rsp[c][k].kind # "songs"
NoAnswer(c) == \A i \in 1..Len(rsp[c]) : rsp[c][i].kind # "songs"

PageIs(c) ==
    \/ Asked(c)
    \/ ~Clicked(c, 1) /\ job[c].at = "songs"
    \/ /\ ~Clicked(c, 1) /\ job[c].at \notin SongSteps
       /\ \/ Answered(c)
          \/ NoAnswer(c) /\ (page[c] = Liked \/ Liked = {})

Pages == NoFaultYet /\ ~overlap => \A c \in Client : TokenIsValid(c) /\ fresh[c] => PageIs(c)

\* What the queues of requests and answers say of the page.
LEMMA PageSame ==
    ASSUME NEW c \in Client, PageIs(c), req'[c] = req[c], rsp'[c] = rsp[c], job'[c] = job[c],
           page'[c] = page[c], pos' = pos
    PROVE  PageIs(c)'
<1>1. Liked' = Liked
  BY DEF Liked, Songs
<1> QED BY <1>1 DEF PageIs, Asked, Clicked, Answered, NoAnswer, Shows

LEMMA InfoAsked ==
    ASSUME TypeOK, NEW c \in Client, NEW r \in Request, r.kind = "info",
           req'[c] = Append(req[c], r)
    PROVE  /\ Asked(c) => Asked(c)'
           /\ ~Clicked(c, 1) => ~Clicked(c, 1)'
<1> DEFINE q == req[c]
<1>1. /\ Len(req'[c]) = Len(q) + 1 /\ Len(q) \in Nat
      /\ \A i \in 1..Len(q) : req'[c][i] = q[i]
      /\ req'[c][Len(q) + 1] = r
  BY Appended DEF TypeOK
<1>2. ASSUME NEW i \in Nat \ {0}, ~Clicked(c, i) PROVE ~Clicked(c, i)'
  <2>1. \A k \in i..(Len(q) + 1) : (k \in i..Len(q) /\ k \in 1..Len(q)) \/ k = Len(q) + 1
    BY <1>1
  <2> QED BY <1>1, <1>2, <2>1 DEF Clicked
<1>3. \A i \in 1..Len(q) : i \in Nat \ {0} /\ i \in 1..(Len(q) + 1)
  BY <1>1
<1> QED BY <1>1, <1>2, <1>3 DEF Asked

LEMMA SongsAsked ==
    ASSUME TypeOK, NEW c \in Client, NEW r \in Request, r.kind = "songs",
           req'[c] = Append(req[c], r)
    PROVE  Asked(c)'
<1> DEFINE q == req[c]
<1>1. Len(req'[c]) = Len(q) + 1 /\ Len(q) \in Nat /\ req'[c][Len(q) + 1] = r
  BY Appended DEF TypeOK
<1>2. Len(q) + 1 \in 1..Len(req'[c]) /\ \A k \in (Len(q) + 1)..Len(req'[c]) : k = Len(q) + 1
  BY <1>1
<1> QED BY <1>1, <1>2 DEF Asked, Clicked

LEMMA RequestTaken ==
    ASSUME TypeOK, NEW c \in Client, req[c] # <<>>, req'[c] = Tail(req[c])
    PROVE  /\ Asked(c) => Asked(c)' \/ (Head(req[c]).kind = "songs" /\ ~Clicked(c, 1)')
           /\ ~Clicked(c, 1) => Head(req[c]).kind \notin {"like", "unlike"} /\ ~Clicked(c, 1)'
<1> DEFINE q == req[c]
<1>1. /\ Len(req'[c]) = Len(q) - 1 /\ Len(q) \in Nat /\ Len(q) > 0
      /\ \A i \in 1..Len(req'[c]) : req'[c][i] = q[i + 1]
      /\ Head(q) = q[1]
  BY HeadTailProperties DEF TypeOK
<1>2. ASSUME NEW i \in Nat \ {0}, ~Clicked(c, i) PROVE i > 1 => ~Clicked(c, i - 1)'
  <2>1. i > 1 => \A k \in (i - 1)..Len(req'[c]) : k \in 1..Len(req'[c]) /\ k + 1 \in i..Len(q)
    BY <1>1
  <2> QED BY <1>1, <1>2, <2>1 DEF Clicked
<1>3. ASSUME ~Clicked(c, 1) PROVE Head(q).kind \notin {"like", "unlike"} /\ ~Clicked(c, 1)'
  <2>1. 1 \in 1..Len(q) /\ \A k \in 1..Len(req'[c]) : k + 1 \in 1..Len(q)
    BY <1>1
  <2> QED BY <1>1, <1>3, <2>1 DEF Clicked
<1>4. ASSUME NEW i \in 1..Len(q), q[i].kind = "songs", ~Clicked(c, i)
      PROVE  Asked(c)' \/ (Head(q).kind = "songs" /\ ~Clicked(c, 1)')
  <2>1. CASE i = 1
    BY <1>1, <1>3, <1>4, <2>1
  <2>2. CASE i # 1
    <3>1. i - 1 \in 1..Len(req'[c]) /\ i \in Nat \ {0} /\ i > 1 /\ (i - 1) + 1 = i
      BY <1>1, <2>2
    <3>2. ~Clicked(c, i - 1)'
      BY <1>2, <1>4, <3>1
    <3>3. req'[c][i - 1].kind = "songs"
      BY <1>1, <1>4, <3>1
    <3> QED BY <3>1, <3>2, <3>3 DEF Asked
  <2> QED BY <2>1, <2>2
<1> QED BY <1>3, <1>4 DEF Asked

LEMMA AnswerReceived ==
    ASSUME TypeOK, NEW c \in Client, rsp[c] # <<>>, rsp'[c] = Tail(rsp[c]), Liked' = Liked
    PROVE  /\ Answered(c) => \/ Answered(c)'
                             \/ /\ Head(rsp[c]).kind = "songs" /\ Shows(Head(rsp[c]))
                                /\ NoAnswer(c)'
           /\ NoAnswer(c) => NoAnswer(c)' /\ Head(rsp[c]).kind # "songs"
<1> DEFINE q == rsp[c]
<1>1. /\ Len(rsp'[c]) = Len(q) - 1 /\ Len(q) \in Nat /\ Len(q) > 0
      /\ \A i \in 1..Len(rsp'[c]) : rsp'[c][i] = q[i + 1]
      /\ Head(q) = q[1]
  BY HeadTailProperties DEF TypeOK
<1>2. 1 \in 1..Len(q) /\ \A i \in 1..Len(rsp'[c]) : i + 1 \in 1..Len(q)
  BY <1>1
<1>3. NoAnswer(c) => NoAnswer(c)' /\ Head(q).kind # "songs"
  BY <1>1, <1>2 DEF NoAnswer
<1>4. ASSUME NEW i \in 1..Len(q), q[i].kind = "songs", Shows(q[i]),
             \A k \in (i + 1)..Len(q) : q[k].kind # "songs"
      PROVE  \/ Answered(c)'
             \/ Head(q).kind = "songs" /\ Shows(Head(q)) /\ NoAnswer(c)'
  <2>1. CASE i = 1
    <3>1. \A k \in 1..Len(rsp'[c]) : k + 1 \in (i + 1)..Len(q)
      BY <1>1, <2>1
    <3> QED BY <1>1, <1>4, <2>1, <3>1 DEF NoAnswer
  <2>2. CASE i # 1
    <3>1. /\ i - 1 \in 1..Len(rsp'[c]) /\ (i - 1) + 1 = i
          /\ \A k \in ((i - 1) + 1)..Len(rsp'[c]) : k \in 1..Len(rsp'[c]) /\ k + 1 \in (i + 1)..Len(q)
      BY <1>1, <2>2
    <3>2. rsp'[c][i - 1] = q[i] /\ \A k \in ((i - 1) + 1)..Len(rsp'[c]) : rsp'[c][k].kind # "songs"
      BY <1>1, <1>4, <3>1
    <3> QED BY <1>4, <3>1, <3>2 DEF Answered, Shows
  <2> QED BY <2>1, <2>2
<1> QED BY <1>3, <1>4 DEF Answered

LEMMA AnswerSent ==
    ASSUME TypeOK, NEW c \in Client, NEW a \in Response, rsp'[c] = Append(rsp[c], a), Liked' = Liked
    PROVE  /\ a.kind # "songs" => (Answered(c) => Answered(c)') /\ (NoAnswer(c) => NoAnswer(c)')
           /\ a.kind = "songs" /\ Shows(a) => Answered(c)'
<1> DEFINE q == rsp[c]
<1>1. /\ Len(rsp'[c]) = Len(q) + 1 /\ Len(q) \in Nat
      /\ \A i \in 1..Len(q) : rsp'[c][i] = q[i]
      /\ rsp'[c][Len(q) + 1] = a
      /\ \A i \in 1..(Len(q) + 1) : i \in 1..Len(q) \/ i = Len(q) + 1
  BY Appended DEF TypeOK
<1>2. a.kind # "songs" => (NoAnswer(c) => NoAnswer(c)')
  BY <1>1 DEF NoAnswer
<1>3. ASSUME a.kind # "songs", NEW i \in 1..Len(q), q[i].kind = "songs", Shows(q[i]),
             \A k \in (i + 1)..Len(q) : q[k].kind # "songs"
      PROVE  Answered(c)'
  <2>1. /\ i \in 1..Len(rsp'[c])
        /\ \A k \in (i + 1)..Len(rsp'[c]) : (k \in (i + 1)..Len(q) /\ k \in 1..Len(q)) \/ k = Len(q) + 1
    BY <1>1
  <2> QED BY <1>1, <1>3, <2>1 DEF Answered, Shows
<1>4. ASSUME a.kind = "songs", Shows(a) PROVE Answered(c)'
  <2>1. Len(q) + 1 \in 1..Len(rsp'[c]) /\ (Len(q) + 1) + 1 > Len(rsp'[c])
    BY <1>1
  <2>2. \A k \in ((Len(q) + 1) + 1)..Len(rsp'[c]) : FALSE
    BY <1>1
  <2> QED BY <1>1, <1>4, <2>1, <2>2 DEF Answered, Shows
<1> QED BY <1>2, <1>3, <1>4 DEF Answered

LEMMA PageAnswered ==
    ASSUME Inv, NoFaultYet, NoFault, NEW c \in Client, Worker(c), up[c], job[c].at \in {"info", "songs"}
    PROVE  /\ req' = req /\ page' = page /\ job'[c] = Idle /\ Liked' = Liked
           /\ job[c].at = "info" => (Answered(c) => Answered(c)') /\ (NoAnswer(c) => NoAnswer(c)')
           /\ job[c].at = "songs" => Answered(c)'
<1> USE CollectAssumption
<1>0. /\ TypeOK /\ ~Fault
  BY DEF Inv, Fault, NoFault, TypeOK
<1>1. /\ job[c].at = "info" => PageInfo(c)
      /\ job[c].at = "songs" => PageSongs(c)
  BY DEF Worker, Take, GetCoverUrlId, SelectDefault, InsertDefault, SelectAny, InsertPlain, Abort,
         CountSong, MaxPosition, InsertSong, GetPlaylistId, DeleteSong, SelectOrder, Renumber,
         PageInfo, PageSongs, At
<1>2. /\ req' = req /\ page' = page /\ pos' = pos /\ job' = [job EXCEPT ![c] = Idle]
  BY <1>1 DEF PageInfo, PageSongs, ui, db
<1>3. job'[c] = Idle /\ Liked' = Liked
  BY <1>0, <1>2 DEF TypeOK, Liked, Songs
<1>4. ASSUME job[c].at = "info"
      PROVE  (Answered(c) => Answered(c)') /\ (NoAnswer(c) => NoAnswer(c)')
  <2>1. PICK error \in {"success", "other"} : Answer(c, "info", None, error, {})
    BY <1>0, <1>1, <1>4 DEF PageInfo
  <2> DEFINE a == [kind |-> "info", song |-> None, error |-> error, songs |-> {}]
  <2>2. a \in Response /\ a.kind # "songs" /\ rsp' = [rsp EXCEPT ![c] = Append(@, a)]
    BY <2>1 DEF Answer, Response
  <2> HIDE DEF a
  <2>3. rsp'[c] = Append(rsp[c], a)
    BY <1>0, <2>2 DEF TypeOK
  <2> QED BY <1>0, <1>3, <2>2, <2>3, AnswerSent
<1>5. ASSUME job[c].at = "songs" PROVE Answered(c)'
  <2>1. PICK l \in lists : Answer(c, "songs", None, IF Songs(l) # {} THEN "success" ELSE "other", Songs(l))
    BY <1>0, <1>1, <1>5 DEF PageSongs
  <2>2. l = "default" /\ Songs(l) = Liked
    BY DEF Inv, OnlyDefault, TypeOK, List, Liked
  <2> DEFINE a == [kind |-> "songs", song |-> None,
                   error |-> IF Liked # {} THEN "success" ELSE "other", songs |-> Liked]
  <2>3. rsp' = [rsp EXCEPT ![c] = Append(@, a)]
    BY <2>1, <2>2 DEF Answer
  <2>4. Liked \in SUBSET Song
    BY DEF Liked, Songs
  <2>5. a \in Response
    BY <2>4 DEF Response
  <2>6. a.kind = "songs" /\ Shows(a)
    BY DEF Shows
  <2> HIDE DEF a
  <2>7. rsp'[c] = Append(rsp[c], a)
    BY <1>0, <2>3 DEF TypeOK
  <2> QED BY <1>0, <1>3, <2>5, <2>6, <2>7, AnswerSent
<1> QED BY <1>2, <1>3, <1>4, <1>5

LEMMA NotAborted ==
    ASSUME Inv, NoFaultYet, NEW c \in Client, Worker(c), ~Take(c)
    PROVE  req' = req
<1>1. ~Abort(c)
  BY DEF Inv, OnlyDefault, Abort, At
<1> QED BY <1>1 DEF Worker, GetCoverUrlId, SelectDefault, InsertDefault, SelectAny, InsertPlain,
                    CountSong, MaxPosition, InsertSong, GetPlaylistId, DeleteSong, SelectOrder,
                    Renumber, PageInfo, PageSongs

LEMMA PagesStep ==
    ASSUME Inv, Undisturbed, Pages, [Next]_vars
    PROVE  Pages'
<1> USE CollectAssumption
<1>0. TypeOK /\ job \in [Client -> Job] /\ \A d \in Client : job[d].at \in Step
  BY DEF Inv, TypeOK, Job
<1>a. Idle.at \notin SongSteps
  BY IdleJob DEF SongSteps
<1>1. ASSUME overlap' = overlap, faultsLeft' = faultsLeft, pos' = pos,
             \A d \in Client : TokenIsValid(d)' /\ fresh'[d] =>
                \/ /\ TokenIsValid(d) /\ fresh[d]
                   /\ req'[d] = req[d] /\ rsp'[d] = rsp[d] /\ job'[d] = job[d] /\ page'[d] = page[d]
                \/ NoFaultYet /\ ~overlap => PageIs(d)'
      PROVE  Pages'
  BY <1>1, PageSame DEF Pages, NoFaultYet
<1>2. ASSUME NEW c \in Client, Open(c) PROVE Pages'
  <2> DEFINE r == [kind |-> "info", song |-> None]
  <2>1. /\ r \in Request /\ r.kind = "info"
        /\ req' = [req EXCEPT ![c] = Append(@, r)]
        /\ UNCHANGED <<up, token, overlap, job, pos, faultsLeft, fresh, page, rsp>>
    BY <1>2 DEF Open, Send, Request, session, db, ui
  <2> HIDE DEF r
  <2>2. req'[c] = Append(req[c], r) /\ \A d \in Client \ {c} : req'[d] = req[d]
    BY <1>0, <2>1 DEF TypeOK
  <2>3. (Asked(c) => Asked(c)') /\ (~Clicked(c, 1) => ~Clicked(c, 1)')
    BY <1>0, <2>1, <2>2, InfoAsked
  <2>4. Liked' = Liked /\ (Answered(c) => Answered(c)') /\ (NoAnswer(c) => NoAnswer(c)')
    BY <2>1 DEF Liked, Songs, Answered, NoAnswer, Shows
  <2>5. PageIs(c) => PageIs(c)'
    BY <2>1, <2>3, <2>4 DEF PageIs
  <2>6. TokenIsValid(c)' /\ fresh'[c] => (NoFaultYet /\ ~overlap => PageIs(c)')
    BY <2>1, <2>5 DEF Pages, TokenIsValid
  <2> QED BY <1>1, <2>1, <2>2, <2>6 DEF TokenIsValid
<1>3. ASSUME NEW c \in Client, NEW t \in Song, Click(c, t) PROVE Pages'
  <2>1. /\ UNCHANGED <<up, token, overlap, job, pos, faultsLeft, page, rsp>>
        /\ fresh' = [fresh EXCEPT ![c] = FALSE]
    BY <1>3 DEF Click, session, db
  <2>2. /\ ~fresh'[c]
        /\ \A d \in Client \ {c} : req'[d] = req[d] /\ fresh'[d] = fresh[d]
    BY <1>0, <1>3, <2>1 DEF TypeOK, Click, Send
  <2> QED BY <1>1, <2>1, <2>2 DEF TokenIsValid
<1>4. ASSUME NEW c \in Client, rsp[c] # <<>>, Received(c), req' = req,
             UNCHANGED <<up, token, overlap, job, pos, faultsLeft, fresh>>,
             \A d \in Client \ {c} : page'[d] = page[d],
             \/ page'[c] = page[c] /\ Head(rsp[c]).kind # "songs"
             \/ /\ Head(rsp[c]).kind = "songs"
                /\ page'[c] = IF Head(rsp[c]).error = "success" THEN Head(rsp[c]).songs ELSE page[c]
      PROVE  Pages'
  <2>1. Liked' = Liked
    BY <1>4 DEF Liked, Songs
  <2>2. rsp'[c] = Tail(rsp[c]) /\ \A d \in Client \ {c} : rsp'[d] = rsp[d]
    BY <1>0, <1>4 DEF Received, TypeOK
  <2>3. /\ Answered(c) => \/ Answered(c)'
                          \/ Head(rsp[c]).kind = "songs" /\ Shows(Head(rsp[c])) /\ NoAnswer(c)'
        /\ NoAnswer(c) => NoAnswer(c)' /\ Head(rsp[c]).kind # "songs"
    BY <1>0, <1>4, <2>1, <2>2, AnswerReceived
  <2>4. Head(rsp[c]).kind = "songs" /\ Shows(Head(rsp[c])) => page'[c] = Liked \/ Liked = {}
    BY <1>4 DEF Shows
  <2>5. (Asked(c)' <=> Asked(c)) /\ (Clicked(c, 1)' <=> Clicked(c, 1))
    BY <1>4 DEF Asked, Clicked
  <2>6. PageIs(c) => PageIs(c)'
    BY <1>4, <2>1, <2>3, <2>4, <2>5 DEF PageIs
  <2>7. TokenIsValid(c)' /\ fresh'[c] => (NoFaultYet /\ ~overlap => PageIs(c)')
    BY <1>4, <2>6 DEF Pages, TokenIsValid
  <2> QED BY <1>1, <1>4, <2>2, <2>7 DEF TokenIsValid
<1>5. ASSUME NEW c \in Client, ReceiveCollect(c) PROVE Pages'
  <2>1. /\ rsp[c] # <<>> /\ Received(c) /\ Head(rsp[c]).kind # "songs"
        /\ UNCHANGED <<up, token, overlap, job, pos, faultsLeft, fresh, page, req>>
    BY <1>5 DEF ReceiveCollect, session, db
  <2> QED BY <1>4, <2>1
<1>6. ASSUME NEW c \in Client, ReceiveInfo(c) PROVE Pages'
  <2>1. /\ rsp[c] # <<>> /\ Received(c) /\ Head(rsp[c]).kind # "songs"
        /\ UNCHANGED <<up, token, overlap, job, pos, faultsLeft, page>>
    BY <1>6 DEF ReceiveInfo, session, db
  <2>2. CASE UNCHANGED <<req, fresh>>
    BY <1>4, <2>1, <2>2
  <2>3. CASE Send(c, "songs", None) /\ fresh' = [fresh EXCEPT ![c] = TRUE]
    <3> DEFINE r == [kind |-> "songs", song |-> None]
    <3>1. r \in Request /\ r.kind = "songs" /\ req' = [req EXCEPT ![c] = Append(@, r)]
      BY <2>3 DEF Send, Request
    <3> HIDE DEF r
    <3>2. /\ req'[c] = Append(req[c], r)
          /\ \A d \in Client \ {c} : req'[d] = req[d] /\ rsp'[d] = rsp[d] /\ fresh'[d] = fresh[d]
      BY <1>0, <2>1, <2>3, <3>1 DEF TypeOK, Received
    <3>3. PageIs(c)'
      BY <1>0, <3>1, <3>2, SongsAsked DEF PageIs
    <3> QED BY <1>1, <2>1, <3>2, <3>3 DEF TokenIsValid
  <2> QED BY <1>6, <2>2, <2>3 DEF ReceiveInfo
<1>7. ASSUME NEW c \in Client, ReceiveSongs(c) PROVE Pages'
  <2>1. /\ rsp[c] # <<>> /\ Received(c) /\ Head(rsp[c]).kind = "songs"
        /\ UNCHANGED <<up, token, overlap, job, pos, faultsLeft, fresh, req>>
        /\ page' = [page EXCEPT ![c] = IF Head(rsp[c]).error = "success" THEN Head(rsp[c]).songs ELSE @]
    BY <1>7 DEF ReceiveSongs, session, db
  <2>2. /\ page'[c] = IF Head(rsp[c]).error = "success" THEN Head(rsp[c]).songs ELSE page[c]
        /\ \A d \in Client \ {c} : page'[d] = page[d]
    BY <1>0, <2>1 DEF TypeOK
  <2> QED BY <1>4, <2>1, <2>2
<1>8. ASSUME NEW c \in Client, InsertToken(c) PROVE Pages'
  <2>1. \A d \in Client : ~TokenIsValid(d)'
    BY <1>8 DEF InsertToken, TokenIsValid
  <2> QED BY <2>1 DEF Pages
<1>9. ASSUME NEW c \in Client, Login(c) PROVE Pages'
  <2>1. \A d \in Client : TokenIsValid(d)' => d = c
    BY <1>9 DEF Login, TokenIsValid
  <2>2. ~fresh'[c]
    BY <1>0, <1>9 DEF Login, TypeOK
  <2> QED BY <2>1, <2>2 DEF Pages
<1>10. ASSUME NEW c \in Client, Kick(c) PROVE Pages'
  <2>1. /\ UNCHANGED <<token, overlap, job, pos, faultsLeft, fresh, page, req>>
        /\ up' = [up EXCEPT ![c] = FALSE] /\ rsp' = [rsp EXCEPT ![c] = <<>>]
    BY <1>10 DEF Kick, ui, db
  <2>2. ~up'[c] /\ \A d \in Client \ {c} : up'[d] = up[d] /\ rsp'[d] = rsp[d]
    BY <1>0, <2>1 DEF TypeOK
  <2> QED BY <1>1, <2>1, <2>2 DEF TokenIsValid
<1>11. ASSUME NEW c \in Client, Worker(c) PROVE Pages'
  <2>1. /\ \A d \in Client \ {c} : job'[d] = job[d] /\ up'[d] = up[d]
        /\ up'[c] => up[c]
        /\ token' = token /\ overlap' = overlap /\ page' = page /\ fresh' = fresh
        /\ job[c].at = "idle" => Take(c)
    BY <1>0, <1>11, WorkerShape
  <2>2. \A d \in Client : TokenIsValid(d)' => TokenIsValid(d)
    BY <2>1 DEF TokenIsValid
  <2>3. Fault \/ NoFault
    BY <1>11, WorkerFaults
  <2> SUFFICES ASSUME NoFaultYet', ~overlap, NEW d \in Client, TokenIsValid(d), fresh[d]
               PROVE  PageIs(d)'
    BY <2>1, <2>2 DEF Pages
  <2>4. NoFaultYet /\ NoFault /\ ~Fault
    BY <1>0, <2>3, FaultsLeft DEF Fault, NoFault, NoFaultYet, TypeOK
  <2>5. PageIs(d)
    BY <2>4 DEF Pages
  <2>6. CASE Take(c)
    <3>1. /\ pos' = pos /\ req[c] # <<>> /\ req' = [req EXCEPT ![c] = Tail(@)] /\ job[c].at = "idle"
      BY <1>0, <2>6, TakeShape
    <3>2. CASE d # c
      <4>1. req'[d] = req[d] /\ job'[d] = job[d]
        BY <1>0, <2>1, <3>1, <3>2 DEF TypeOK
      <4>2. rsp'[d] = rsp[d]
        <5>1. rsp' = rsp \/ Answer(c, Head(req[c]).kind, Head(req[c]).song, "token", {})
          BY <1>0, <2>6, TakeShape
        <5> QED BY <1>0, <3>2, <5>1 DEF Answer, TypeOK
      <4> QED BY <2>1, <2>5, <3>1, <4>1, <4>2, PageSame
    <3>3. CASE d = c
      <4> DEFINE r == Head(req[c])
      <4>1. /\ job' = [job EXCEPT ![c] = [Idle EXCEPT !.at = FirstStep[r.kind], !.song = r.song]]
            /\ rsp' = rsp
        BY <1>0, <2>4, <2>6, <3>3, TakeShape
      <4>2. r \in Request
        BY <1>0, <3>1, TakeType DEF TypeOK
      <4> HIDE DEF r
      <4>3. job'[c] = [Idle EXCEPT !.at = FirstStep[r.kind], !.song = r.song]
        BY <1>0, <4>1
      <4>4. job'[c].at = FirstStep[r.kind]
        BY <4>3, IdleJob DEF Job
      <4>5. /\ r.kind \in {"like", "unlike", "info", "songs"}
            /\ r.kind = "songs" => job'[c].at = "songs"
            /\ r.kind = "info" => job'[c].at = "info"
        BY <4>2, <4>4, FirstSteps DEF Request
      <4>6. req'[c] = Tail(req[c])
        BY <1>0, <3>1 DEF TypeOK
      <4>7. /\ Asked(c) => Asked(c)' \/ (r.kind = "songs" /\ ~Clicked(c, 1)')
            /\ ~Clicked(c, 1) => r.kind \notin {"like", "unlike"} /\ ~Clicked(c, 1)'
        BY <1>0, <3>1, <4>6, RequestTaken DEF r
      <4>8. Liked' = Liked /\ (Answered(c) => Answered(c)') /\ (NoAnswer(c) => NoAnswer(c)')
        BY <3>1, <4>1 DEF Liked, Songs, Answered, NoAnswer, Shows
      <4>9. "info" \notin SongSteps /\ "songs" \notin SongSteps
        BY DEF SongSteps
      <4> QED BY <2>1, <2>5, <3>1, <3>3, <4>5, <4>7, <4>8, <4>9 DEF PageIs
    <3> QED BY <3>2, <3>3
  <2>7. CASE ~Take(c)
    <3>1. job[c].at # "idle" /\ d = c
      BY <2>1, <2>7 DEF Undisturbed, OneAtWork
    <3>2. req' = req
      BY <1>11, <2>4, <2>7, NotAborted
    <3>3. (Asked(c)' <=> Asked(c)) /\ (Clicked(c, 1)' <=> Clicked(c, 1))
      BY <3>2 DEF Asked, Clicked
    <3>4. CASE job[c].at \in {"info", "songs"}
      <4>1. /\ page' = page /\ job'[c] = Idle /\ Liked' = Liked
            /\ job[c].at = "info" => (Answered(c) => Answered(c)') /\ (NoAnswer(c) => NoAnswer(c)')
            /\ job[c].at = "songs" => Answered(c)'
        BY <1>11, <2>4, <3>1, <3>4, PageAnswered DEF TokenIsValid
      <4> QED BY <1>a, <2>5, <3>1, <3>3, <3>4, <4>1 DEF PageIs
    <3>5. CASE job[c].at \notin {"info", "songs"}
      <4>1. job[c].at \in SongSteps
        BY <1>0, <3>1, <3>5 DEF SongSteps
      <4> QED BY <2>5, <3>1, <3>3, <3>5, <4>1 DEF PageIs
    <3> QED BY <3>4, <3>5
  <2> QED BY <2>6, <2>7
<1>12. CASE UNCHANGED vars
  <2>1. UNCHANGED <<up, token, overlap, job, pos, faultsLeft, fresh, page, req, rsp>>
    BY <1>12 DEF vars, session, db, ui
  <2> QED BY <1>1, <2>1 DEF TokenIsValid
<1> QED BY <1>2, <1>3, <1>5, <1>6, <1>7, <1>8, <1>9, <1>10, <1>11, <1>12 DEF Next

\* The page shows the liked songs once the client is quiet, if there are any and
\* no heart was clicked since it was asked for, unless a statement failed or two
\* logins were at work at once.
THEOREM PageTrue == Spec => []PageAgrees
<1>1. Init => Undisturbed /\ Pages
  BY UndisturbedInit DEF Init, Pages
<1>2. Inv /\ Inv' /\ Undisturbed /\ Pages /\ [Next]_vars => (Undisturbed /\ Pages)'
  BY UndisturbedStep, PagesStep DEF Inv
<1>3. Undisturbed /\ Pages => PageAgrees
  <2> SUFFICES ASSUME Pages, NoFaultYet, ~overlap, NEW c \in Client, Quiet(c), fresh[c]
               PROVE  page[c] = Liked \/ Liked = {}
    BY DEF PageAgrees
  <2>1. TokenIsValid(c) /\ Len(req[c]) = 0 /\ Len(rsp[c]) = 0 /\ job[c].at = "idle"
    BY IdleJob DEF Quiet, TokenIsValid
  <2>2. PageIs(c) /\ ~Asked(c) /\ ~Answered(c)
    BY <2>1 DEF Pages, Asked, Answered
  <2> QED BY <2>1, <2>2 DEF PageIs
<1> QED BY <1>1, <1>2, <1>3, Invariance, PTL DEF Spec
=============================================================================
