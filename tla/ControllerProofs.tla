--------------------------- MODULE ControllerProofs ---------------------------
(***************************************************************************)
(* The client never runs two sessions, never shows the address of an ended  *)
(* one and always remembers the room it is in, for any number of sessions,  *)
(* Leave requests and configurations.                                       *)
(*                                                                          *)
(* The invariant is inductive once AddressIsCurrent is told why a finishing *)
(* goroutine leaves no address behind: runLoop returns with the address     *)
(* still in the status only when its context is cancelled, and then the     *)
(* goroutine clears it.  StatusInv adds what the status shows, and the last *)
(* section proves that a cancelled session ends.                            *)
(***************************************************************************)
EXTENDS Controller, TLAPS

\* A goroutine whose runLoop has returned and whose address is still shown will
\* clear it: its context is cancelled.
EndsItsAddress ==
  \A s \in Sessions : ident = s /\ loop[s] \in {"returned", "late"} => cancelled[s]

\* The inductive invariant.
ControllerInv == TypeOK /\ OneSession /\ AddressIsCurrent /\ EndsItsAddress /\ RestartRemembers

\* A client that has just started satisfies the invariant.
LEMMA ControllerInit == Init => ControllerInv
BY ControllerAssumption
DEF Init, ControllerInv, TypeOK, OneSession, AddressIsCurrent, EndsItsAddress,
    RestartRemembers, InLoop

\* Every step keeps the types.
LEMMA ControllerTypeStep == ControllerInv /\ [Next]_vars => TypeOK'
<1> SUFFICES ASSUME ControllerInv, [Next]_vars PROVE TypeOK'
  OBVIOUS
<1> USE ControllerAssumption DEF ControllerInv, TypeOK
<1>1. ASSUME NEW s \in Sessions, NEW c \in Configs, Join(s, c) PROVE TypeOK'
  BY <1>1 DEF Join, StartSession, leaveVars
<1>2. ASSUME NEW c \in Configs, JoinSaveFails(c) PROVE TypeOK'
  BY <1>2 DEF JoinSaveFails, leaveVars, statusVars
<1>3. ASSUME NEW k \in Callers, LeaveRead(k) \/ LeaveMark(k) \/ LeaveCancel(k)
      PROVE TypeOK'
  <2>1. CASE LeaveRead(k)
    BY <2>1 DEF LeaveRead, statusVars
  <2>2. CASE LeaveMark(k)
    BY <2>2 DEF LeaveMark, SetState
  <2>3. CASE LeaveCancel(k)
    BY <2>3 DEF LeaveCancel, statusVars
  <2> QED BY <1>3, <2>1, <2>2, <2>3
<1>4. ASSUME NEW s \in Sessions, SessionStep(s) PROVE TypeOK'
  <2> USE DEF Goto, sessionRest, leaveVars, statusVars
  <2>1. CASE Connecting(s)
    BY <2>1 DEF Connecting, SetState
  <2>2. CASE Dial(s)
    BY <2>2 DEF Dial
  <2>3. CASE Accepted(s)
    BY <2>3 DEF Accepted, Joined
  <2>4. CASE StartStreams(s)
    BY <2>4 DEF StartStreams
  <2>5. ASSUME NEW f \in BOOLEAN, SessionFails(s, f) PROVE TypeOK'
    BY <2>5 DEF SessionFails
  <2>6. CASE CheckContext(s)
    BY <2>6 DEF CheckContext
  <2>7. CASE Judge(s)
    BY <2>7 DEF Judge, EndSession
  <2>8. CASE BackoffEnds(s)
    BY <2>8 DEF BackoffEnds
  <2>9. CASE ClearCancel(s)
    BY <2>9 DEF ClearCancel
  <2>10. CASE Finish(s)
    BY <2>10 DEF Finish, EndSession
  <2> QED BY <1>4, <2>1, <2>2, <2>3, <2>4, <2>5, <2>6, <2>7, <2>8, <2>9, <2>10
          DEF SessionStep
<1>5. ASSUME NEW s \in Sessions, ReadList(s) \/ ApplyList(s) PROVE TypeOK'
  BY <1>5 DEF ReadList, ApplyList, UpdatePeers, sessionRest, leaveVars, statusVars
<1>6. CASE Interrupt
  BY <1>6 DEF Interrupt, leaveVars, statusVars
<1>7. CASE Restart
  BY <1>7 DEF Restart
<1>8. CASE UNCHANGED vars
  BY <1>8 DEF vars, leaveVars, statusVars
<1> QED BY <1>1, <1>2, <1>3, <1>4, <1>5, <1>6, <1>7, <1>8 DEF Next

\* Every step keeps the other conjuncts.
LEMMA ControllerStep ==
  ControllerInv /\ [Next]_vars
    => OneSession' /\ AddressIsCurrent' /\ EndsItsAddress' /\ RestartRemembers'
<1> DEFINE Good == OneSession /\ AddressIsCurrent /\ EndsItsAddress /\ RestartRemembers
<1> SUFFICES ASSUME ControllerInv, [Next]_vars PROVE Good'
  OBVIOUS
<1> USE ControllerAssumption
    DEF ControllerInv, TypeOK, OneSession, AddressIsCurrent, EndsItsAddress,
        RestartRemembers, InLoop
<1>1. ASSUME NEW s \in Sessions, NEW c \in Configs, Join(s, c) PROVE Good'
  BY <1>1 DEF Join, StartSession, leaveVars
<1>2. ASSUME NEW c \in Configs, JoinSaveFails(c) PROVE Good'
  BY <1>2 DEF JoinSaveFails, leaveVars, statusVars
<1>3. ASSUME NEW k \in Callers, LeaveRead(k) \/ LeaveMark(k) \/ LeaveCancel(k)
      PROVE Good'
  <2>1. CASE LeaveRead(k)
    BY <2>1 DEF LeaveRead, statusVars
  <2>2. CASE LeaveMark(k)
    BY <2>2 DEF LeaveMark, SetState
  <2>3. CASE LeaveCancel(k)
    BY <2>3 DEF LeaveCancel, statusVars
  <2> QED BY <1>3, <2>1, <2>2, <2>3
<1>4. ASSUME NEW s \in Sessions, SessionStep(s) PROVE Good'
  <2> USE DEF Goto, sessionRest, leaveVars, statusVars
  <2>1. CASE Connecting(s)
    BY <2>1 DEF Connecting, SetState
  <2>2. CASE Dial(s)
    BY <2>2 DEF Dial
  <2>3. CASE Accepted(s)
    BY <2>3 DEF Accepted, Joined
  <2>4. CASE StartStreams(s)
    BY <2>4 DEF StartStreams
  <2>5. ASSUME NEW f \in BOOLEAN, SessionFails(s, f) PROVE Good'
    BY <2>5 DEF SessionFails
  <2>6. CASE CheckContext(s)
    BY <2>6 DEF CheckContext
  <2>7. CASE Judge(s)
    BY <2>7 DEF Judge, EndSession
  <2>8. CASE BackoffEnds(s)
    BY <2>8 DEF BackoffEnds
  <2>9. CASE ClearCancel(s)
    BY <2>9 DEF ClearCancel
  <2>10. CASE Finish(s)
    BY <2>10 DEF Finish, EndSession
  <2> QED BY <1>4, <2>1, <2>2, <2>3, <2>4, <2>5, <2>6, <2>7, <2>8, <2>9, <2>10
          DEF SessionStep
<1>5. ASSUME NEW s \in Sessions, ReadList(s) \/ ApplyList(s) PROVE Good'
  BY <1>5 DEF ReadList, ApplyList, UpdatePeers, sessionRest, leaveVars, statusVars
<1>6. CASE Interrupt
  BY <1>6 DEF Interrupt, leaveVars, statusVars
<1>7. CASE Restart
  BY <1>7 DEF Restart
<1>8. CASE UNCHANGED vars
  BY <1>8 DEF vars, leaveVars, statusVars
<1> QED BY <1>1, <1>2, <1>3, <1>4, <1>5, <1>6, <1>7, <1>8 DEF Next

\* ControllerInv is an invariant of the controller.
THEOREM ControllerInvariant == Spec => []ControllerInv
<1>1. ControllerInv /\ [Next]_vars => ControllerInv'
  BY ControllerTypeStep, ControllerStep DEF ControllerInv
<1> QED BY ControllerInit, <1>1, PTL DEF Spec

\* However Joins, Leaves, failures and restarts interleave, at most one session
\* goroutine is in runLoop, and the controller holds its cancel function.
THEOREM AtMostOneSession == Spec => []OneSession
BY ControllerInvariant, PTL DEF ControllerInv

\* The status never shows an address of an ended session or of a lost connection.
THEOREM ShownAddressIsCurrent == Spec => []AddressIsCurrent
BY ControllerInvariant, PTL DEF ControllerInv

\* The configuration of the running session is the one shown and the one saved.
THEOREM SavedRoomIsCurrent == Spec => []RestartRemembers
BY ControllerInvariant, PTL DEF ControllerInv

\* However its writers interleave, no variable of the client leaves its type.
THEOREM ControllerTypes == Spec => []TypeOK
BY ControllerInvariant, PTL DEF ControllerInv

-----------------------------------------------------------------------------
(* The shared status.  SerialStatus speaks of quiet states; the states in    *)
(* between are those of one session at a time, from Join to Finish, as long  *)
(* as nothing has overtaken the end of a session.                            *)

\* The controller's cancel function is that of a goroutine that is in runLoop,
\* and a Leave call that is under way has read one.
PointersSound ==
  /\ current # None => InLoop(current)
  /\ \A k \in Callers : leave[k] # "none" => held[k] \in Sessions

\* One goroutine at a time, up to its last write to the status.
OneGoroutine == \A s, t \in Sessions : loop[s] # "none" /\ loop[t] # "none" => s = t

\* The state is at rest without a goroutine and not while one runs, and it says
\* "stopped" when runLoop has given up by itself.
StateFollows ==
  /\ (\A s \in Sessions : loop[s] = "none") => state \in Resting
  /\ \A s \in Sessions : ~Returned(s) => state \notin Resting
  /\ \A s \in Sessions : loop[s] \in {"returned", "late"} /\ ~cancelled[s] => state = "stopped"

\* A connection that is set up or serves shows its address, and peers are listed
\* beside it.
ListFollows ==
  /\ \A s \in Sessions : loop[s] \in {"setup", "serve"} => ident = s
  /\ listed # None => ident = listed

\* The inductive invariant of the status.
StatusInv ==
  /\ PointersSound
  /\ ~overtaken => OneGoroutine /\ StateFollows /\ ListFollows

\* A quiet state of a client whose sessions took turns is a right one.
LEMMA StatusInvSerial == ControllerInv /\ StatusInv => SerialStatus
<1> SUFFICES ASSUME ControllerInv, StatusInv, Quiet, ~overtaken
             PROVE  /\ state \in Resting <=> current = None
                    /\ listed # None => ident = listed
  BY DEF SerialStatus
<1> USE ControllerAssumption DEF ControllerInv, TypeOK, OneSession, InLoop, Quiet
<1>1. CASE current = None
  BY <1>1 DEF StatusInv, StateFollows, ListFollows
<1>2. CASE current # None
  BY <1>2 DEF StatusInv, PointersSound, StateFollows, ListFollows, Returned
<1> QED BY <1>1, <1>2

\* A client that has just started satisfies it.
LEMMA StatusInit == Init => StatusInv
BY ControllerAssumption
DEF Init, StatusInv, PointersSound, OneGoroutine, StateFollows, ListFollows, InLoop,
    Returned, Resting

\* Every step keeps it.
LEMMA StatusStep == ControllerInv /\ StatusInv /\ [Next]_vars => StatusInv'
<1> SUFFICES ASSUME ControllerInv, StatusInv, [Next]_vars PROVE StatusInv'
  OBVIOUS
<1> USE ControllerAssumption
    DEF ControllerInv, TypeOK, OneSession, InLoop, Returned, Resting, StatusInv,
        PointersSound, OneGoroutine, StateFollows, ListFollows
<1>1. ASSUME NEW s \in Sessions, NEW c \in Configs, Join(s, c) PROVE StatusInv'
  <2>1. PointersSound'
    BY <1>1 DEF Join, leaveVars
  <2>2. ASSUME ~overtaken' PROVE OneGoroutine' /\ StateFollows' /\ ListFollows'
    <3>1. ~overtaken /\ \A t \in Sessions : loop[t] = "none"
      BY <1>1, <2>2 DEF Join
    <3> QED BY <1>1, <3>1 DEF Join, StartSession
  <2> QED BY <2>1, <2>2
<1>2. ASSUME NEW c \in Configs, JoinSaveFails(c) PROVE StatusInv'
  BY <1>2 DEF JoinSaveFails, leaveVars, statusVars
<1>3. ASSUME NEW k \in Callers, LeaveRead(k) \/ LeaveMark(k) \/ LeaveCancel(k)
      PROVE StatusInv'
  <2>1. CASE LeaveRead(k)
    BY <2>1 DEF LeaveRead, statusVars
  <2>2. CASE LeaveMark(k)
    <3>1. PointersSound'
      BY <2>2 DEF LeaveMark
    <3>2. ASSUME ~overtaken' PROVE OneGoroutine' /\ StateFollows' /\ ListFollows'
      <4>1. ~overtaken /\ held[k] \in Sessions /\ ~Returned(held[k])
        BY <2>2, <3>2 DEF LeaveMark
      <4> QED BY <2>2, <4>1 DEF LeaveMark, SetState
    <3> QED BY <3>1, <3>2
  <2>3. CASE LeaveCancel(k)
    BY <2>3 DEF LeaveCancel, statusVars
  <2> QED BY <1>3, <2>1, <2>2, <2>3
<1>4. ASSUME NEW s \in Sessions, SessionStep(s) PROVE StatusInv'
  <2> USE DEF Goto, sessionRest, leaveVars, statusVars
  <2>1. CASE Connecting(s)
    BY <2>1 DEF Connecting, SetState
  <2>2. CASE Dial(s)
    BY <2>2 DEF Dial
  <2>3. CASE Accepted(s)
    BY <2>3 DEF Accepted, Joined
  <2>4. CASE StartStreams(s)
    BY <2>4 DEF StartStreams
  <2>5. ASSUME NEW f \in BOOLEAN, SessionFails(s, f) PROVE StatusInv'
    BY <2>5 DEF SessionFails
  <2>6. CASE CheckContext(s)
    BY <2>6 DEF CheckContext
  <2>7. CASE Judge(s)
    BY <2>7 DEF Judge, EndSession
  <2>8. CASE BackoffEnds(s)
    BY <2>8 DEF BackoffEnds
  <2>9. CASE ClearCancel(s)
    BY <2>9 DEF ClearCancel
  <2>10. CASE Finish(s)
    BY <2>10 DEF Finish, EndSession
  <2> QED BY <1>4, <2>1, <2>2, <2>3, <2>4, <2>5, <2>6, <2>7, <2>8, <2>9, <2>10
          DEF SessionStep
<1>5. ASSUME NEW s \in Sessions, ReadList(s) \/ ApplyList(s) PROVE StatusInv'
  BY <1>5 DEF ReadList, ApplyList, UpdatePeers, sessionRest, leaveVars, statusVars
<1>6. CASE Interrupt
  BY <1>6 DEF Interrupt, leaveVars, statusVars
<1>7. CASE Restart
  BY <1>7 DEF Restart
<1>8. CASE UNCHANGED vars
  BY <1>8 DEF vars, leaveVars, statusVars
<1> QED BY <1>1, <1>2, <1>3, <1>4, <1>5, <1>6, <1>7, <1>8 DEF Next

\* StatusInv is an invariant of the controller.
THEOREM StatusInvariant == Spec => [](ControllerInv /\ StatusInv)
BY StatusInit, StatusStep, ControllerInvariant, PTL DEF Spec

\* When sessions, Leaves and peer lists took turns, the status the user interface
\* goes by is at rest exactly when there is no session to leave.
THEOREM SerialStatusIsRight == Spec => []SerialStatus
BY StatusInvariant, StatusInvSerial, PTL
-----------------------------------------------------------------------------
(* Liveness.  Weak fairness is written with the enabling condition of its    *)
(* action in place of ENABLED, about which the provers know nothing.         *)

\* WF_vars(cancelled[s] /\ SessionStep(s)), a conjunct of FairSpec: a session
\* goroutine can take a step at every place in its code.
CancelledRuns(s) ==
  \/ []<>~(cancelled[s] /\ loop[s] # "none")
  \/ []<><<cancelled[s] /\ SessionStep(s)>>_vars

\* The places at which a session is in runLoop.
LoopPlaces == {"judged", "backoff", "start", "dial", "handshake", "setup", "serve",
               "failed", "returned"}

\* A cancelled session is at place l.
CancelledAt(s, l) == cancelled[s] /\ loop[s] = l

\* Where the goroutine of a cancelled session can be after its next step.
CancelledAfter(s, l) ==
  CASE l = "judged"    -> CancelledAt(s, "backoff") \/ CancelledAt(s, "returned")
    [] l = "backoff"   -> CancelledAt(s, "start") \/ CancelledAt(s, "returned")
    [] l = "start"     -> CancelledAt(s, "dial")
    [] l = "handshake" -> CancelledAt(s, "setup") \/ CancelledAt(s, "failed")
    [] l \in {"dial", "setup", "serve"} -> CancelledAt(s, "failed")
    [] l = "failed"    -> CancelledAt(s, "returned")
    [] OTHER           -> ~InLoop(s)

\* The steps of a cancelled session's goroutine: every one brings it nearer to
\* its end, since neither the dial nor a new round outlasts the context.
LEMMA CancelledMoves ==
  ASSUME TypeOK, NEW s \in Sessions, NEW l, CancelledAt(s, l), InLoop(s), SessionStep(s)
  PROVE  CancelledAfter(s, l)'
<1> USE DEF TypeOK, Goto, sessionRest, CancelledAfter, CancelledAt, InLoop
<1>1. CASE Connecting(s)
  BY <1>1 DEF Connecting
<1>2. CASE Dial(s)
  BY <1>2 DEF Dial
<1>3. CASE Accepted(s)
  BY <1>3 DEF Accepted
<1>4. CASE StartStreams(s)
  BY <1>4 DEF StartStreams
<1>5. ASSUME NEW f \in BOOLEAN, SessionFails(s, f) PROVE CancelledAfter(s, l)'
  BY <1>5 DEF SessionFails
<1>6. CASE CheckContext(s)
  BY <1>6 DEF CheckContext
<1>7. CASE Judge(s)
  BY <1>7 DEF Judge
<1>8. CASE BackoffEnds(s)
  BY <1>8 DEF BackoffEnds
<1>9. CASE ClearCancel(s)
  BY <1>9 DEF ClearCancel
<1>10. CASE Finish(s)
  BY <1>10 DEF Finish
<1> QED BY <1>1, <1>2, <1>3, <1>4, <1>5, <1>6, <1>7, <1>8, <1>9, <1>10 DEF SessionStep

\* Nobody else moves a cancelled session, nor takes back its cancellation; only a
\* restart of the client ends it at once.
LEMMA CancelledStays ==
  ASSUME TypeOK, NEW s \in Sessions, NEW l, CancelledAt(s, l), InLoop(s), [Next]_vars
  PROVE  CancelledAt(s, l)' \/ CancelledAfter(s, l)' \/ ~InLoop(s)'
<1> USE DEF TypeOK, CancelledAt, InLoop
<1>1. ASSUME NEW t \in Sessions, NEW c \in Configs, Join(t, c) PROVE CancelledAt(s, l)'
  BY <1>1 DEF Join
<1>2. ASSUME NEW c \in Configs, JoinSaveFails(c) PROVE CancelledAt(s, l)'
  BY <1>2 DEF JoinSaveFails
<1>3. ASSUME NEW k \in Callers, LeaveRead(k) \/ LeaveMark(k) \/ LeaveCancel(k)
      PROVE CancelledAt(s, l)'
  BY <1>3 DEF LeaveRead, LeaveMark, LeaveCancel
<1>4. CASE SessionStep(s)
  BY <1>4, CancelledMoves
<1>5. ASSUME NEW t \in Sessions, t # s, SessionStep(t) PROVE CancelledAt(s, l)'
  <2> USE DEF Goto, sessionRest
  <2>1. CASE Connecting(t) \/ Dial(t) \/ Accepted(t) \/ StartStreams(t)
    BY <1>5, <2>1 DEF Connecting, Dial, Accepted, StartStreams
  <2>2. ASSUME NEW f \in BOOLEAN, SessionFails(t, f) PROVE CancelledAt(s, l)'
    BY <1>5, <2>2 DEF SessionFails
  <2>3. CASE CheckContext(t)
    BY <1>5, <2>3 DEF CheckContext
  <2>4. CASE Judge(t)
    BY <1>5, <2>4 DEF Judge
  <2>5. CASE BackoffEnds(t) \/ ClearCancel(t) \/ Finish(t)
    BY <1>5, <2>5 DEF BackoffEnds, ClearCancel, Finish
  <2> QED BY <1>5, <2>1, <2>2, <2>3, <2>4, <2>5 DEF SessionStep
<1>6. ASSUME NEW t \in Sessions, ReadList(t) \/ ApplyList(t) PROVE CancelledAt(s, l)'
  BY <1>6 DEF ReadList, ApplyList, sessionRest
<1>7. CASE Interrupt
  BY <1>7 DEF Interrupt
<1>8. CASE Restart
  BY <1>8 DEF Restart
<1>9. CASE UNCHANGED vars
  BY <1>9 DEF vars
<1> QED BY <1>1, <1>2, <1>3, <1>4, <1>5, <1>6, <1>7, <1>8, <1>9 DEF Next

\* The client runs, and so does session s once it is cancelled.
ClientRuns(s) == []TypeOK /\ [][Next]_vars /\ CancelledRuns(s)

\* A cancelled session does not stay at place l.
MovesOn(s, l) == CancelledAt(s, l) ~> CancelledAfter(s, l) \/ ~InLoop(s)

\* One step of the way.
LEMMA CancelledProgress ==
  ASSUME NEW s \in Sessions, NEW l \in LoopPlaces
  PROVE  ClientRuns(s) => MovesOn(s, l)
<1>1. CancelledAt(s, l) => InLoop(s) /\ cancelled[s] /\ loop[s] # "none"
  BY DEF CancelledAt, InLoop, LoopPlaces
<1>2. TypeOK /\ CancelledAt(s, l) /\ [Next]_vars
        => CancelledAt(s, l)' \/ (CancelledAfter(s, l) \/ ~InLoop(s))'
  BY <1>1, CancelledStays
<1>3. TypeOK /\ CancelledAt(s, l) /\ <<cancelled[s] /\ SessionStep(s)>>_vars
        => (CancelledAfter(s, l) \/ ~InLoop(s))'
  BY <1>1, CancelledMoves
<1> QED BY <1>1, <1>2, <1>3, PTL DEF CancelledRuns, ClientRuns, MovesOn

\* A session whose context is cancelled, by Leave or by a signal, ends, wherever it
\* is and whatever other sessions, Leave calls and peer lists do: it is nowhere in
\* a loop that the context does not reach.
THEOREM CancelledSessionsEnd ==
  Spec /\ (\A s \in Sessions : CancelledRuns(s)) => CancelEnds
<1> SUFFICES ASSUME NEW s \in Sessions
             PROVE  Spec /\ (\A t \in Sessions : CancelledRuns(t))
                      => (cancelled[s] /\ InLoop(s) ~> ~InLoop(s))
  BY DEF CancelEnds
<1>1. (\A t \in Sessions : CancelledRuns(t)) => CancelledRuns(s)
  OBVIOUS
<1>2. Spec /\ (\A t \in Sessions : CancelledRuns(t)) => ClientRuns(s)
  BY <1>1, ControllerTypes, PTL DEF Spec, ClientRuns
<1> DEFINE At(l) == CancelledAt(s, l)
<1>3. TypeOK /\ cancelled[s] /\ InLoop(s)
        => \/ At("judged") \/ At("backoff") \/ At("start") \/ At("dial") \/ At("handshake")
           \/ At("setup") \/ At("serve") \/ At("failed") \/ At("returned")
  BY DEF TypeOK, InLoop, CancelledAt
<1>4. /\ CancelledAfter(s, "judged") => At("backoff") \/ At("returned")
      /\ CancelledAfter(s, "backoff") => At("start") \/ At("returned")
      /\ CancelledAfter(s, "start") => At("dial")
      /\ CancelledAfter(s, "handshake") => At("setup") \/ At("failed")
      /\ CancelledAfter(s, "dial") => At("failed")
      /\ CancelledAfter(s, "setup") => At("failed")
      /\ CancelledAfter(s, "serve") => At("failed")
      /\ CancelledAfter(s, "failed") => At("returned")
      /\ CancelledAfter(s, "returned") => ~InLoop(s)
  BY DEF CancelledAfter
<1>5. ClientRuns(s) => /\ MovesOn(s, "judged") /\ MovesOn(s, "backoff") /\ MovesOn(s, "start")
                       /\ MovesOn(s, "dial") /\ MovesOn(s, "handshake") /\ MovesOn(s, "setup")
                       /\ MovesOn(s, "serve") /\ MovesOn(s, "failed") /\ MovesOn(s, "returned")
  BY CancelledProgress DEF LoopPlaces
<1> QED BY <1>2, <1>3, <1>4, <1>5, PTL DEF MovesOn, ClientRuns
=============================================================================
