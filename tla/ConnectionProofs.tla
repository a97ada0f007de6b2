--------------------------- MODULE ConnectionProofs ---------------------------
(***************************************************************************)
(* Connection, for any number of connections: what the error channels hold, *)
(* how long the main loop goes on after a report, whose peer can stand in   *)
(* the way of a client, and that refusals arrive; then, under the           *)
(* fairness of FairSpec, that no client waits in vain and that the server   *)
(* is rid of every client that is gone.                                     *)
(***************************************************************************)
EXTENDS Connection, TLAPS

\* A peer is in the room from Join until the deferred function of handleStream.
MembersServed ==
  \A c \in members : stage[c] \in {"accept", "open", "check", "read", "remove"}

\* The goroutines start with the main loop, and a goroutine reports when it ends.
ReportsOnce ==
  \A c \in Conns :
    /\ stage[c] \in {"join", "accept", "open"} => writer[c] = "none" /\ reader[c] = "none"
    /\ writer[c] # "ended" => writeErr[c] = 0
    /\ reader[c] # "ended" => controlReadErr[c] = 0

\* A frame is handled after a report only by a loop that is about to look.
LateOnce ==
  \A c \in Conns : late[c] # 0 => late[c] = 1 /\ stage[c] = "check" /\ Reported(c)

\* The server's end of a refused connection stays open until the network or the
\* client ends it.
RefusedStayOpen ==
  \A c \in Conns : answer[c] = "reject" =>
    /\ stage[c] = "done"
    /\ c \in clientUp => c \in serverUp \cup cut

\* A session has its end of the connection open.
SessionOpen == client \in {"answer", "serve"} => cur \in clientUp

\* The server closes a connection under its client only at the handler's very end.
ClosedLast == \A c \in clientUp : c \in serverUp \cup cut \/ stage[c] = "done"

\* A connection that the client has left while its handler has not come to an end is
\* one that it left of itself or lost.
LeftIsQuit == \A c \in Conns : c \in clientUp \/ DataClosed(c) \/ c \in quit

\* The inductive invariant.
ConnInv ==
  /\ TypeOK /\ MembersServed /\ ReportsOnce /\ LateOnce
  /\ RefusedStayOpen /\ SessionOpen /\ ClosedLast /\ LeftIsQuit

\* No connection, no session: the invariant holds.
LEMMA ConnInit == Init => ConnInv
BY ConnAssumption DEF Init, ConnInv, TypeOK, MembersServed, ReportsOnce, LateOnce,
   RefusedStayOpen, SessionOpen, ClosedLast, LeftIsQuit, DataClosed, Reported

\* Every step of the client, the network, the handlers and their goroutines keeps
\* the invariant.
LEMMA ConnStep == ConnInv /\ [Next]_vars => ConnInv'
<1> SUFFICES ASSUME ConnInv, [Next]_vars PROVE ConnInv'
  OBVIOUS
<1> USE ConnAssumption
    DEF ConnInv, TypeOK, MembersServed, ReportsOnce, LateOnce, RefusedStayOpen, SessionOpen,
        ClosedLast, LeftIsQuit, DataClosed, Reported, At, clientVars, netVars, workVars
<1>0. CASE UNCHANGED vars \/ JoinAgain
  BY <1>0 DEF vars, JoinAgain
<1>1. ASSUME NEW c \in Conns, ReadAccept(c) PROVE ConnInv'
  BY <1>1 DEF ReadAccept
<1>2. ASSUME NEW c \in Conns, Leave(c) PROVE ConnInv'
  BY <1>2 DEF Leave, Hangup, FramesClosed
<1>3. ASSUME NEW c \in Conns, SendFrame(c) PROVE ConnInv'
  BY <1>3 DEF SendFrame
<1>4. ASSUME NEW c \in Conns, ReadReject(c) PROVE ConnInv'
  BY <1>4 DEF ReadReject, Hangup
<1>5. ASSUME NEW c \in Conns, SessionFails(c) PROVE ConnInv'
  BY <1>5 DEF SessionFails, DataEnded, Hangup, FramesClosed
<1>6. ASSUME NEW c \in Conns, Cut(c) PROVE ConnInv'
  BY <1>6 DEF Cut
<1>7. ASSUME NEW c \in Conns, Notice(c) PROVE ConnInv'
  BY <1>7 DEF Notice
<1>8. ASSUME NEW c \in Conns, Dial(c) PROVE ConnInv'
  BY <1>8 DEF Dial, Over
<1>9. ASSUME NEW c \in Conns, RejectJoin(c) PROVE ConnInv'
  BY <1>9 DEF RejectJoin, Refuse
<1>10. ASSUME NEW c \in Conns, MACInUse(c) PROVE ConnInv'
  BY <1>10 DEF MACInUse, Refuse
<1>11. ASSUME NEW c \in Conns, Join(c) PROVE ConnInv'
  BY <1>11 DEF Join
<1>12. ASSUME NEW c \in Conns, WriteAccept(c) PROVE ConnInv'
  BY <1>12 DEF WriteAccept
<1>13. ASSUME NEW c \in Conns, SetupFails(c) PROVE ConnInv'
  BY <1>13 DEF SetupFails, Exit
<1>14. ASSUME NEW c \in Conns, OpenData(c) PROVE ConnInv'
  BY <1>14 DEF OpenData
<1>15. ASSUME NEW c \in Conns, CheckReports(c) PROVE ConnInv'
  BY <1>15 DEF CheckReports
<1>16. ASSUME NEW c \in Conns, LoopEnds(c) PROVE ConnInv'
  BY <1>16 DEF LoopEnds, Exit
<1>17. ASSUME NEW c \in Conns, HandleFrame(c) PROVE ConnInv'
  BY <1>17 DEF HandleFrame
<1>18. ASSUME NEW c \in Conns, ReadFails(c) PROVE ConnInv'
  BY <1>18 DEF ReadFails, Exit
<1>19. ASSUME NEW c \in Conns, CloseConn(c) PROVE ConnInv'
  BY <1>19 DEF CloseConn
<1>20. ASSUME NEW c \in Conns, TakeFrame(c) PROVE ConnInv'
  BY <1>20 DEF TakeFrame
<1>21. ASSUME NEW c \in Conns, WriteFrame(c) PROVE ConnInv'
  BY <1>21 DEF WriteFrame
<1>22. ASSUME NEW c \in Conns, WriteFails(c) PROVE ConnInv'
  BY <1>22 DEF WriteFails, WriterReports
<1>23. ASSUME NEW c \in Conns, WriterEnds(c) PROVE ConnInv'
  BY <1>23 DEF WriterEnds, WriterReports
<1>24. ASSUME NEW c \in Conns, ControlFails(c) PROVE ConnInv'
  BY <1>24 DEF ControlFails, ReaderReports
<1>25. ASSUME NEW c \in Conns, BadControl(c) PROVE ConnInv'
  BY <1>25 DEF BadControl, ReaderReports
<1>26. ASSUME NEW c \in Conns, RemovePeer(c) PROVE ConnInv'
  BY <1>26 DEF RemovePeer
<1> QED
  BY <1>0, <1>1, <1>2, <1>3, <1>4, <1>5, <1>6, <1>7, <1>8, <1>9, <1>10, <1>11, <1>12, <1>13,
     <1>14, <1>15, <1>16, <1>17, <1>18, <1>19, <1>20, <1>21, <1>22, <1>23, <1>24, <1>25, <1>26
  DEF Next, ClientStep, HandlerStep

\* The invariant holds in every reachable state.
THEOREM ConnCorrect == Spec => []ConnInv
BY ConnInit, ConnStep, PTL DEF Spec

\* The connections' state keeps its types: above all, each error channel holds at
\* most the one report it has room for, so no goroutine waits to report.
THEOREM ReportsNeverWait == Spec => []TypeOK
<1>1. ConnInv => TypeOK
  BY DEF ConnInv
<1> QED BY <1>1, ConnCorrect, PTL

\* After a report the main loop of handleStream relays at most one more frame.
THEOREM LoopEndsSoon == Spec => []OneMoreFrame
<1>1. ConnInv => OneMoreFrame
  <2> SUFFICES ASSUME ConnInv, NEW c \in Conns PROVE late[c] <= 1
    BY DEF OneMoreFrame
  <2>1. late[c] = 0 \/ late[c] = 1
    BY DEF ConnInv, LateOnce
  <2> QED BY <2>1
<1> QED BY <1>1, ConnCorrect, PTL

-----------------------------------------------------------------------------
(* Whom a client is talking to.                                              *)

\* A connection whose client end is open is the one of the client's session.
UpIsCurrent ==
  \A c \in clientUp : /\ cur = c /\ client \in {"answer", "serve"}
                      /\ client = "serve" => answer[c] = "accept"

\* A handler that has not come to an answer has written none, and one that returned
\* and did not close its connection has refused it.
OpenIsRefused ==
  \A c \in Conns :
    /\ stage[c] \in {"join", "accept"} => answer[c] = "none"
    /\ stage[c] = "done" /\ c \in clientUp \cap serverUp => answer[c] = "reject"

\* Both hold together with the invariant.
WaitInv == UpIsCurrent /\ OpenIsRefused

\* Every step keeps them.
LEMMA WaitStep == ConnInv /\ WaitInv /\ [Next]_vars => WaitInv'
<1> SUFFICES ASSUME ConnInv, WaitInv, [Next]_vars PROVE WaitInv'
  OBVIOUS
<1> USE ConnAssumption
    DEF ConnInv, TypeOK, RefusedStayOpen, WaitInv, UpIsCurrent, OpenIsRefused,
        At, clientVars, netVars, workVars
<1>1. CASE UNCHANGED vars \/ JoinAgain
  BY <1>1 DEF vars, JoinAgain
<1>2. ASSUME NEW c \in Conns, Dial(c) PROVE WaitInv'
  BY <1>2 DEF Dial, Over
<1>3. ASSUME NEW c \in Conns, ReadAccept(c) \/ SendFrame(c) PROVE WaitInv'
  BY <1>3 DEF ReadAccept, SendFrame
<1>4. ASSUME NEW c \in Conns, Leave(c) \/ ReadReject(c) \/ SessionFails(c) PROVE WaitInv'
  BY <1>4 DEF Leave, ReadReject, SessionFails, Hangup
<1>5. ASSUME NEW c \in Conns, Cut(c) \/ Notice(c) PROVE WaitInv'
  BY <1>5 DEF Cut, Notice
<1>6. ASSUME NEW c \in Conns, RejectJoin(c) \/ MACInUse(c) PROVE WaitInv'
  <2>1. stage[c] = "join" /\ Refuse(c)
    BY <1>6 DEF RejectJoin, MACInUse
  <2> QED BY <2>1 DEF Refuse
<1>7. ASSUME NEW c \in Conns, Join(c) \/ WriteAccept(c) \/ OpenData(c) PROVE WaitInv'
  <2>1. CASE Join(c)
    BY <2>1 DEF Join
  <2>2. CASE WriteAccept(c)
    BY <2>2 DEF WriteAccept
  <2>3. CASE OpenData(c)
    BY <2>3 DEF OpenData
  <2> QED BY <1>7, <2>1, <2>2, <2>3
<1>8. ASSUME NEW c \in Conns, SetupFails(c) \/ LoopEnds(c) \/ ReadFails(c) PROVE WaitInv'
  BY <1>8 DEF SetupFails, LoopEnds, ReadFails, Exit
<1>9. ASSUME NEW c \in Conns, CheckReports(c) \/ HandleFrame(c) \/ RemovePeer(c) \/ CloseConn(c) PROVE WaitInv'
  BY <1>9 DEF CheckReports, HandleFrame, RemovePeer, CloseConn
<1>10. ASSUME NEW c \in Conns,
              \/ TakeFrame(c) \/ WriteFrame(c) \/ WriteFails(c) \/ WriterEnds(c)
              \/ ControlFails(c) \/ BadControl(c)
       PROVE WaitInv'
  BY <1>10 DEF TakeFrame, WriteFrame, WriteFails, WriterEnds, WriterReports, ControlFails,
     BadControl, ReaderReports
<1> QED BY <1>1, <1>2, <1>3, <1>4, <1>5, <1>6, <1>7, <1>8, <1>9, <1>10
        DEF Next, ClientStep, HandlerStep

\* They hold in every reachable state.
LEMMA WaitCorrect == Spec => [](ConnInv /\ WaitInv)
<1>1. Init => WaitInv
  BY DEF Init, WaitInv, UpIsCurrent, OpenIsRefused
<1> QED BY <1>1, WaitStep, ConnCorrect, PTL DEF Spec

\* The peer in the way of a client that waits for its answer is one of a session that
\* the client left itself or lost to the network, or one that its handler is about
\* to remove.
THEOREM OldPeers == Spec => OldPeersExplained
<1>1. ConnInv /\ WaitInv /\ [Next]_vars =>
        [\A c \in Conns : MACInUse(c) /\ c \in clientUp =>
           \A d \in members : d \in quit \/ stage[d] = "remove"]_vars
  <2> SUFFICES ASSUME ConnInv, WaitInv, NEW c \in Conns, MACInUse(c), c \in clientUp,
                      NEW d \in members
               PROVE  d \in quit \/ stage[d] = "remove"
    OBVIOUS
  <2>1. d \in Conns /\ stage[d] \in {"accept", "open", "check", "read", "remove"}
    BY DEF ConnInv, TypeOK, MembersServed
  <2>2. stage[c] = "join"
    BY DEF MACInUse
  <2>3. d \notin clientUp
    BY <2>1, <2>2 DEF WaitInv, UpIsCurrent
  <2> QED BY <2>1, <2>3 DEF ConnInv, LeftIsQuit, DataClosed
<1> QED BY <1>1, WaitCorrect, PTL DEF Spec, OldPeersExplained

\* A client that was refused does not lose its connection before it has read the
\* refusal, unless the network fails.
THEOREM RefusalsArrive == Spec => RefusalsReachClient
<1>1. ConnInv /\ WaitInv /\ [Next]_vars =>
        [\A c \in Conns : SessionFails(c) /\ answer[c] = "reject" => c \in cut]_vars
  <2> SUFFICES ASSUME ConnInv, WaitInv, NEW c \in Conns, SessionFails(c), answer[c] = "reject"
               PROVE c \in cut
    OBVIOUS
  <2>1. c \in clientUp
    BY DEF ConnInv, SessionOpen, SessionFails
  <2>2. c \in serverUp \cup cut
    BY <2>1 DEF ConnInv, RefusedStayOpen
  <2>3. ~DataEnded(c)
    BY <2>1 DEF WaitInv, UpIsCurrent, DataEnded
  <2> QED BY <2>2, <2>3 DEF SessionFails
<1> QED BY <1>1, WaitCorrect, PTL DEF Spec, RefusalsReachClient
-----------------------------------------------------------------------------
(* Liveness.  Weak fairness is written with the enabling condition of its    *)
(* action in place of ENABLED, about which the provers know nothing; the     *)
(* formulas are the conjuncts of FairSpec.                                   *)

\* WF_vars(ClientStep(c)): the client has an answer to read, or its connection or
\* its data stream is gone.
ClientCan(c) ==
  /\ cur = c
  /\ \/ client \in {"answer", "serve"} /\ (c \in cut \/ c \notin serverUp \/ DataEnded(c))
     \/ client = "answer" /\ answer[c] # "none" /\ c \notin cut
ClientRuns(c) == []<>~ClientCan(c) \/ []<><<ClientStep(c)>>_vars

\* WF_vars(Notice(c)).
NoticeCan(c) == c \in serverUp /\ (c \in cut \/ c \notin clientUp)
ServerNotices(c) == []<>~NoticeCan(c) \/ []<><<Notice(c)>>_vars

\* WF_vars(HandlerStep(c)): a handler waits for nothing but a frame to read.
HandlerCan(c) ==
  \/ stage[c] \in {"join", "accept", "open", "check", "remove", "close"}
  \/ stage[c] = "read" /\ (c \notin serverUp \/ data[c] > 0 \/ StreamsEnd(c))
HandlerRuns(c) == []<>~HandlerCan(c) \/ []<><<HandlerStep(c)>>_vars

\* WF_vars(WriteFails(c) \/ WriterEnds(c)).
WriterCan(c) ==
  \/ writer[c] = "wait" /\ FramesClosed(c)
  \/ writer[c] = "write" /\ (c \notin serverUp \/ DataClosed(c))
WriterRuns(c) == []<>~WriterCan(c) \/ []<><<WriteFails(c) \/ WriterEnds(c)>>_vars

\* WF_vars(ControlFails(c)).
ReaderCan(c) == reader[c] = "run" /\ (c \notin serverUp \/ StreamsEnd(c))
ReaderRuns(c) == []<>~ReaderCan(c) \/ []<><<ControlFails(c)>>_vars

-----------------------------------------------------------------------------
(* No client is left waiting.                                                *)

\* The handler is done with c and the client does not know.
Waiting(c, st) == stage[c] = "done" /\ c \in clientUp /\ client = st

\* The client of a connection that nobody serves can act, and every step of it,
\* of the network or of anybody else leaves it waiting or ends the session.
LEMMA WaitingSteps ==
  ASSUME ConnInv, WaitInv, NEW c \in Conns, NEW st \in {"answer", "serve"}, Waiting(c, st)
  PROVE  /\ ClientCan(c)
         /\ [Next]_vars => Waiting(c, st)' \/ Waiting(c, "serve")' \/ c \notin clientUp'
         /\ ClientStep(c) =>
              \/ c \notin clientUp'
              \/ st = "answer" /\ Waiting(c, "serve")'
<1> USE DEF ConnInv, TypeOK, WaitInv, UpIsCurrent, OpenIsRefused, Waiting
<1>1. cur = c /\ (c \in cut \/ c \notin serverUp \/ answer[c] = "reject")
  OBVIOUS
<1>2. client = "serve" => answer[c] = "accept"
  OBVIOUS
<1>3. ASSUME ClientStep(c)
      PROVE  c \notin clientUp' \/ (st = "answer" /\ Waiting(c, "serve")')
  BY <1>3, <1>1, <1>2 DEF ClientStep, ReadAccept, ReadReject, SessionFails, Hangup, netVars
<1>4. ASSUME [Next]_vars
      PROVE  Waiting(c, st)' \/ Waiting(c, "serve")' \/ c \notin clientUp'
  <2> USE DEF At, clientVars, netVars, workVars
  <2>1. CASE UNCHANGED vars \/ JoinAgain
    BY <2>1 DEF vars, JoinAgain
  <2>2. ASSUME NEW d \in Conns, Dial(d) PROVE Waiting(c, st)'
    BY <2>2 DEF Dial, Over
  <2>3. ASSUME NEW d \in Conns, Leave(d) \/ ReadReject(d) \/ SessionFails(d)
        PROVE  c \notin clientUp'
    BY <2>3, <1>1 DEF Leave, ReadReject, SessionFails, Hangup
  <2>4. ASSUME NEW d \in Conns, ReadAccept(d) \/ SendFrame(d)
        PROVE  Waiting(c, st)' \/ Waiting(c, "serve")'
    BY <2>4 DEF ReadAccept, SendFrame
  <2>5. ASSUME NEW d \in Conns, Cut(d) \/ Notice(d) PROVE Waiting(c, st)'
    BY <2>5 DEF Cut, Notice
  <2>6. ASSUME NEW d \in Conns, HandlerStep(d) PROVE Waiting(c, st)'
    <3>1. d # c /\ UNCHANGED <<client, clientUp>> /\ \E s : At(d, s)
      BY <2>6 DEF HandlerStep, RejectJoin, MACInUse, Refuse, Join, WriteAccept, OpenData,
         SetupFails, CheckReports, LoopEnds, HandleFrame, ReadFails, Exit, RemovePeer, CloseConn
    <3> QED BY <3>1
  <2>7. ASSUME NEW d \in Conns,
               \/ TakeFrame(d) \/ WriteFrame(d) \/ WriteFails(d) \/ WriterEnds(d)
               \/ ControlFails(d) \/ BadControl(d)
        PROVE  Waiting(c, st)'
    BY <2>7 DEF TakeFrame, WriteFrame, WriteFails, WriterEnds, WriterReports, ControlFails,
       BadControl, ReaderReports
  <2> QED BY <1>4, <2>1, <2>2, <2>3, <2>4, <2>5, <2>6, <2>7 DEF Next, ClientStep
<1>5. ClientCan(c)
  BY <1>1, <1>2 DEF ClientCan
<1> QED BY <1>3, <1>4, <1>5

\* A client whose handler has returned, with a refusal or at the end of a session,
\* ends its session too, whether or not the network fails meanwhile.
THEOREM NobodyWaitsInVain ==
  Spec /\ (\A c \in Conns : ClientRuns(c)) => ClientsNotLeftWaiting
<1> SUFFICES ASSUME NEW c \in Conns
             PROVE  Spec /\ (\A d \in Conns : ClientRuns(d))
                      => (stage[c] = "done" /\ c \in clientUp ~> c \notin clientUp)
  BY DEF ClientsNotLeftWaiting
<1>1. (\A d \in Conns : ClientRuns(d)) => ClientRuns(c)
  OBVIOUS
<1> DEFINE Inv == ConnInv /\ WaitInv
           Asked == Waiting(c, "answer")
           Served == Waiting(c, "serve")
<1>2. Inv /\ stage[c] = "done" /\ c \in clientUp => Asked \/ Served
  BY DEF WaitInv, UpIsCurrent, Waiting
<1>3. Inv /\ (Asked \/ Served) => ClientCan(c)
  BY WaitingSteps
<1>4. Inv /\ Asked /\ [Next]_vars => (Asked \/ Served \/ c \notin clientUp)'
  BY WaitingSteps
<1>5. Inv /\ Asked /\ <<ClientStep(c)>>_vars => (Served \/ c \notin clientUp)'
  BY WaitingSteps
<1>6. Inv /\ Served /\ [Next]_vars => (Served \/ c \notin clientUp)'
  BY WaitingSteps
<1>7. Inv /\ Served /\ <<ClientStep(c)>>_vars => (c \notin clientUp)'
  BY WaitingSteps
<1>8. Spec => []Inv /\ [][Next]_vars
  BY WaitCorrect, PTL DEF Spec
<1> HIDE DEF Inv, Asked, Served
<1> QED BY <1>1, <1>2, <1>3, <1>4, <1>5, <1>6, <1>7, <1>8, PTL DEF ClientRuns

-----------------------------------------------------------------------------
(* A departure is noticed.                                                   *)

\* The client's end of c is closed, after its JoinRoom was handled.
Gone(c) == c \notin clientUp /\ stage[c] # "join"

\* The server's end is closed as well, and the handler is at place s.
DeadAt(c, s) == Gone(c) /\ c \notin serverUp /\ stage[c] = s

WriterOver(c) == writer[c] \in {"none", "ended"}
ReaderOver(c) == reader[c] \in {"none", "ended"}

\* Where the handler of a dead connection goes from each place.
NextPlaces(s) ==
  CASE s = "check" -> {"read", "remove"}
    [] s \in {"accept", "open", "read"} -> {"remove"}
    [] s = "remove" -> {"close"}
    [] s = "close" -> {"done"}
    [] OTHER -> {}

\* As long as something of a departed client's connection is left, it stays
\* departed, a dead connection stays dead, its handler comes nearer to its end, and
\* nobody starts goroutines for it.
LEMMA GoneSteps ==
  ASSUME ConnInv, NEW c \in Conns, Gone(c), ~Over(c), [Next]_vars
  PROVE  /\ Gone(c)'
         /\ c \notin serverUp =>
              c \notin serverUp' /\ stage'[c] \in NextPlaces(stage[c]) \cup {stage[c]}
         /\ c \notin serverUp /\ stage[c] = "done" =>
              /\ WriterOver(c) => WriterOver(c)'
              /\ ReaderOver(c) => ReaderOver(c)'
<1> USE DEF ConnInv, TypeOK, Gone, NextPlaces, WriterOver, ReaderOver
<1> DEFINE Goal ==
      /\ Gone(c)'
      /\ c \notin serverUp =>
           c \notin serverUp' /\ stage'[c] \in NextPlaces(stage[c]) \cup {stage[c]}
      /\ c \notin serverUp /\ stage[c] = "done" =>
           /\ WriterOver(c) => WriterOver(c)'
           /\ ReaderOver(c) => ReaderOver(c)'
<1> SUFFICES Goal
  OBVIOUS
<1> USE DEF At, clientVars, netVars, workVars
<1>1. CASE UNCHANGED vars \/ JoinAgain
  BY <1>1 DEF vars, JoinAgain
<1>2. ASSUME NEW d \in Conns, Dial(d) PROVE Goal
  <2>1. d # c
    BY <1>2 DEF Dial
  <2> QED BY <1>2, <2>1 DEF Dial
<1>3. ASSUME NEW d \in Conns, Leave(d) \/ ClientStep(d) \/ SendFrame(d) PROVE Goal
  BY <1>3 DEF Leave, ClientStep, ReadAccept, ReadReject, SessionFails, Hangup, SendFrame
<1>4. ASSUME NEW d \in Conns, Cut(d) \/ Notice(d) PROVE Goal
  BY <1>4 DEF Cut, Notice
<1>5. ASSUME NEW d \in Conns, d # c, HandlerStep(d) PROVE Goal
  <2>1. /\ \E s : At(d, s)
        /\ clientUp' = clientUp /\ serverUp' \subseteq serverUp
        /\ writer'[c] = writer[c] /\ reader'[c] = reader[c]
    BY <1>5 DEF HandlerStep, RejectJoin, MACInUse, Refuse, Join, WriteAccept, OpenData,
       SetupFails, CheckReports, LoopEnds, HandleFrame, ReadFails, Exit, RemovePeer, CloseConn
  <2> QED BY <1>5, <2>1
<1>6. CASE HandlerStep(c)
  <2>1. CASE RejectJoin(c) \/ MACInUse(c) \/ Join(c)
    BY <2>1 DEF RejectJoin, MACInUse, Refuse, Join
  <2>2. CASE WriteAccept(c) \/ OpenData(c)
    BY <2>2 DEF WriteAccept, OpenData
  <2>3. CASE SetupFails(c) \/ LoopEnds(c) \/ ReadFails(c)
    BY <2>3 DEF SetupFails, LoopEnds, ReadFails, Exit
  <2>4. CASE CheckReports(c) \/ HandleFrame(c) \/ RemovePeer(c) \/ CloseConn(c)
    BY <2>4 DEF CheckReports, HandleFrame, RemovePeer, CloseConn
  <2> QED BY <1>6, <2>1, <2>2, <2>3, <2>4 DEF HandlerStep
<1>7. ASSUME NEW d \in Conns,
             \/ TakeFrame(d) \/ WriteFrame(d) \/ WriteFails(d) \/ WriterEnds(d)
             \/ ControlFails(d) \/ BadControl(d)
      PROVE  Goal
  BY <1>7 DEF TakeFrame, WriteFrame, WriteFails, WriterEnds, WriterReports, ControlFails,
     BadControl, ReaderReports
<1> QED BY <1>1, <1>2, <1>3, <1>4, <1>5, <1>6, <1>7 DEF Next

\* The handler of a dead connection takes no step that leaves it where it is.
LEMMA DeadHandlerMoves ==
  ASSUME ConnInv, NEW c \in Conns, NEW s, DeadAt(c, s), HandlerStep(c)
  PROVE  stage'[c] \in NextPlaces(s)
<1> USE DEF ConnInv, TypeOK, DeadAt, Gone, NextPlaces, At
<1>1. CASE RejectJoin(c) \/ MACInUse(c) \/ Join(c)
  BY <1>1 DEF RejectJoin, MACInUse, Refuse, Join
<1>2. CASE WriteAccept(c) \/ OpenData(c)
  BY <1>2 DEF WriteAccept, OpenData
<1>3. CASE SetupFails(c) \/ LoopEnds(c) \/ ReadFails(c)
  BY <1>3 DEF SetupFails, LoopEnds, ReadFails, Exit
<1>4. CASE CheckReports(c) \/ HandleFrame(c) \/ RemovePeer(c) \/ CloseConn(c)
  BY <1>4 DEF CheckReports, HandleFrame, RemovePeer, CloseConn
<1> QED BY <1>1, <1>2, <1>3, <1>4 DEF HandlerStep

\* The server's share of FairSpec.
ServerRuns(c) == ServerNotices(c) /\ HandlerRuns(c) /\ WriterRuns(c) /\ ReaderRuns(c)

\* When a client is gone, by itself or with its network, its peer leaves the room
\* and its handler, writer and control reader all end, from wherever each of them is.
THEOREM GoneClientsLeave ==
  Spec /\ (\A c \in Conns : ServerRuns(c)) => DeparturesNoticed
<1> SUFFICES ASSUME NEW c \in Conns
             PROVE  Spec /\ (\A d \in Conns : ServerRuns(d))
                      => (c \in members \ clientUp ~> Over(c))
  BY DEF DeparturesNoticed
<1>1. (\A d \in Conns : ServerRuns(d)) => ServerRuns(c)
  OBVIOUS
<1> DEFINE Known == Gone(c) /\ c \in serverUp
           D(s) == DeadAt(c, s)
           Dead == Gone(c) /\ c \notin serverUp
\* The departure is noticed.
<1>2. ConnInv /\ c \in members \ clientUp => Known \/ Dead
  BY DEF ConnInv, MembersServed, Gone
<1>3. Known => NoticeCan(c)
  BY DEF Gone, NoticeCan
<1>4. ConnInv /\ Known /\ ~Over(c) /\ [Next]_vars => (Known \/ Dead)'
  BY GoneSteps
<1>5. ConnInv /\ Known /\ ~Over(c) /\ <<Notice(c)>>_vars => Dead'
  <2> SUFFICES ASSUME ConnInv, Known, ~Over(c), Notice(c) PROVE Dead'
    OBVIOUS
  <2>1. Gone(c)'
    BY GoneSteps DEF Next
  <2> QED BY <2>1 DEF Notice
<1>6. ConnInv /\ Dead
        => \/ D("accept") \/ D("open") \/ D("check") \/ D("read")
           \/ D("remove") \/ D("close") \/ D("done")
  BY DEF ConnInv, TypeOK, DeadAt, Gone
\* The handler ends.
<1>7. D("accept") \/ D("open") \/ D("check") \/ D("read") \/ D("remove") \/ D("close")
        => HandlerCan(c)
  BY DEF DeadAt, HandlerCan
<1>8. ASSUME NEW s, D(s), ConnInv, ~Over(c), [Next]_vars
      PROVE  D(s)' \/ \E t \in NextPlaces(s) : D(t)'
  BY <1>8, GoneSteps DEF DeadAt
<1>9. ASSUME NEW s, D(s), ConnInv, ~Over(c), HandlerStep(c)
      PROVE  \E t \in NextPlaces(s) : D(t)'
  <2>1. Gone(c)' /\ c \notin serverUp'
    BY <1>9, GoneSteps DEF Next, DeadAt
  <2> QED BY <1>9, <2>1, DeadHandlerMoves DEF DeadAt
<1>10. /\ ConnInv /\ ~Over(c) /\ D("accept") /\ [Next]_vars => D("accept")' \/ D("remove")'
       /\ ConnInv /\ ~Over(c) /\ D("open") /\ [Next]_vars => D("open")' \/ D("remove")'
       /\ ConnInv /\ ~Over(c) /\ D("check") /\ [Next]_vars
            => D("check")' \/ D("read")' \/ D("remove")'
       /\ ConnInv /\ ~Over(c) /\ D("read") /\ [Next]_vars => D("read")' \/ D("remove")'
       /\ ConnInv /\ ~Over(c) /\ D("remove") /\ [Next]_vars => D("remove")' \/ D("close")'
       /\ ConnInv /\ ~Over(c) /\ D("close") /\ [Next]_vars => D("close")' \/ D("done")'
       /\ ConnInv /\ ~Over(c) /\ D("done") /\ [Next]_vars => D("done")'
  BY <1>8 DEF NextPlaces
<1>11. /\ ConnInv /\ ~Over(c) /\ D("accept") /\ <<HandlerStep(c)>>_vars => D("remove")'
       /\ ConnInv /\ ~Over(c) /\ D("open") /\ <<HandlerStep(c)>>_vars => D("remove")'
       /\ ConnInv /\ ~Over(c) /\ D("check") /\ <<HandlerStep(c)>>_vars
            => D("read")' \/ D("remove")'
       /\ ConnInv /\ ~Over(c) /\ D("read") /\ <<HandlerStep(c)>>_vars => D("remove")'
       /\ ConnInv /\ ~Over(c) /\ D("remove") /\ <<HandlerStep(c)>>_vars => D("close")'
       /\ ConnInv /\ ~Over(c) /\ D("close") /\ <<HandlerStep(c)>>_vars => D("done")'
  BY <1>9 DEF NextPlaces
\* Its goroutines end.
<1>12. ConnInv /\ ~Over(c) /\ D("done") /\ [Next]_vars
         => (WriterOver(c) => WriterOver(c)') /\ (ReaderOver(c) => ReaderOver(c)')
  BY GoneSteps DEF DeadAt
<1>13. ConnInv /\ D("done") /\ ~WriterOver(c) => WriterCan(c)
  BY DEF WriterCan, FramesClosed, DataClosed, ConnInv, TypeOK, DeadAt, WriterOver
<1>14. ConnInv /\ <<WriteFails(c) \/ WriterEnds(c)>>_vars => WriterOver(c)'
  BY DEF ConnInv, TypeOK, WriteFails, WriterEnds, WriterReports, WriterOver
<1>15. ConnInv /\ D("done") /\ ~ReaderOver(c) => ReaderCan(c)
  BY DEF ReaderCan, ConnInv, TypeOK, DeadAt, ReaderOver
<1>16. ConnInv /\ <<ControlFails(c)>>_vars => ReaderOver(c)'
  BY DEF ConnInv, TypeOK, ControlFails, ReaderReports, ReaderOver
<1>17. D("done") /\ WriterOver(c) /\ ReaderOver(c) => Over(c)
  BY DEF DeadAt, Gone, Over, WriterOver, ReaderOver
<1>18. Spec => []ConnInv /\ [][Next]_vars
  BY ConnCorrect, PTL DEF Spec
<1> HIDE DEF Known, Dead, D
<1> DEFINE Runs == []ConnInv /\ [][Next]_vars /\ ServerRuns(c)
<1>19. Runs => (Known ~> Dead \/ Over(c))
  BY <1>3, <1>4, <1>5, PTL DEF ServerRuns, ServerNotices
<1>20. Runs => /\ D("check") ~> D("read") \/ D("remove") \/ Over(c)
               /\ D("read") ~> D("remove") \/ Over(c)
               /\ D("open") ~> D("remove") \/ Over(c)
               /\ D("accept") ~> D("remove") \/ Over(c)
               /\ D("remove") ~> D("close") \/ Over(c)
               /\ D("close") ~> D("done") \/ Over(c)
  BY <1>7, <1>10, <1>11, PTL DEF ServerRuns, HandlerRuns
<1>21. Runs => (D("done") ~> (D("done") /\ WriterOver(c)) \/ Over(c))
  BY <1>10, <1>13, <1>14, PTL DEF ServerRuns, WriterRuns
<1>22. Runs => (D("done") /\ WriterOver(c) ~> Over(c))
  BY <1>10, <1>12, <1>15, <1>16, <1>17, PTL DEF ServerRuns, ReaderRuns
<1>23. Runs => (Dead ~> Over(c))
  BY <1>6, <1>20, <1>21, <1>22, PTL
<1> QED BY <1>1, <1>2, <1>18, <1>19, <1>23, PTL
=============================================================================
