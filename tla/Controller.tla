------------------------------ MODULE Controller ------------------------------
(***************************************************************************)
(* The client's controller (internal/client/client.go): Join starts one     *)
(* session goroutine that connects, serves and reconnects until it is       *)
(* cancelled or fails for good, Leave cancels it, and everyone writes to    *)
(* one shared Status, which is all the user sees.                           *)
(*                                                                          *)
(* Controller.mu and Status.mu make single method bodies atomic.  Leave     *)
(* and the end of the session goroutine use both, one after the other.      *)
(*                                                                          *)
(* A session is one sessionCtx with its goroutine.  Its identity is used    *)
(* again once the goroutine has returned and no Leave call holds its        *)
(* cancel function any more.  The length of the back-off and the counters   *)
(* of the status are left out.                                              *)
(***************************************************************************)
EXTENDS Naturals

CONSTANTS
  Sessions,      \* session goroutines (bound: how many can be alive at once)
  Callers,       \* HTTP requests that can be inside Leave at once
  Configs,       \* configurations a JoinRequest can carry
  Default,       \* defaultControlConfig(): no file, or one that cannot be read
  None           \* Go's nil, and the empty string

ASSUME ControllerAssumption ==
  /\ None \notin Sessions \cup Configs
  /\ Default \notin Configs \cup {None}

VARIABLES
  current,       \* c.cancel and c.done: the session they belong to, or None
  loop,          \* where the session goroutine is in runLoop, runSession, Join
  fatal,         \* isFatal of the error runSession returned
  cancelled,     \* sessionCtx.Err() # nil
  cfg,           \* the goroutine's copy of its configuration
  interrupted,   \* c.ctx is cancelled: the process got SIGINT or SIGTERM
  lists,         \* sessions whose readControl has read a list and not applied it
  leave, held,   \* Leave calls: their step and the cancel function they read
  state,         \* Status.state
  shown,         \* Status.server, room, displayName, deviceName
  ident,         \* Status.peerID, ipv4, mac: given to this session, or None
  listed,        \* Status.peers: received by this session, or None
  saved,         \* what loadClientConfig would return for the file
  overtaken      \* history: a write to the status came after its session's end

statusVars == <<state, shown, ident, listed>>
leaveVars == <<leave, held>>
vars == <<current, loop, fatal, cancelled, cfg, interrupted, lists, leaveVars,
          statusVars, saved, overtaken>>

InLoop(s) == loop[s] \notin {"none", "late"}
Returned(s) == loop[s] \in {"none", "returned", "late"}   \* runLoop has returned
Resting == {"idle", "stopped"}

Init ==
  /\ current = None
  /\ loop = [s \in Sessions |-> "none"]
  /\ fatal = [s \in Sessions |-> FALSE]
  /\ cancelled = [s \in Sessions |-> FALSE]
  /\ cfg = [s \in Sessions |-> None]
  /\ interrupted = FALSE
  /\ lists = {}
  /\ leave = [c \in Callers |-> "none"]
  /\ held = [c \in Callers |-> None]
  /\ state = "idle"
  /\ saved \in Configs \cup {Default}
  /\ shown = saved
  /\ ident = None
  /\ listed = None
  /\ overtaken = FALSE

-----------------------------------------------------------------------------
(* Status *)

StartSession(c) ==
  state' = "starting" /\ shown' = c /\ ident' = None /\ listed' = None

SetState(st) == state' = st /\ UNCHANGED <<shown, ident, listed>>

Joined(s) == state' = "connected" /\ ident' = s /\ listed' = s /\ UNCHANGED shown

UpdatePeers(s) == listed' = s /\ UNCHANGED <<state, shown, ident>>

\* Mutations: the configuration is cleared too, or the address is not.
MutEndSessionClearsAll(st) ==
  state' = st /\ shown' = None /\ ident' = None /\ listed' = None
MutEndSessionKeepsAddress(st) ==
  state' = st /\ listed' = None /\ UNCHANGED <<shown, ident>>

EndSession(st) == state' = st /\ ident' = None /\ listed' = None /\ UNCHANGED shown

-----------------------------------------------------------------------------
(* Controller.Join and Controller.Leave *)

\* Mutation: Join does not look whether a session runs.
MutJoin(s, c) ==
  /\ loop[s] = "none" /\ s \notin lists /\ \A k \in Callers : held[k] # s
  /\ saved' = c
  /\ current' = s
  /\ StartSession(c)
  /\ loop' = [loop EXCEPT ![s] = "start"]
  /\ cfg' = [cfg EXCEPT ![s] = c]
  /\ cancelled' = [cancelled EXCEPT ![s] = interrupted]
  /\ UNCHANGED <<fatal, interrupted, lists, leaveVars, overtaken>>

Join(s, c) ==
  /\ current = None
  /\ loop[s] = "none" /\ s \notin lists /\ \A k \in Callers : held[k] # s
  /\ saved' = c
  /\ current' = s
  /\ StartSession(c)
  /\ loop' = [loop EXCEPT ![s] = "start"]
  /\ cfg' = [cfg EXCEPT ![s] = c]
  /\ cancelled' = [cancelled EXCEPT ![s] = interrupted]
  /\ overtaken' = (overtaken \/ \E t \in Sessions : loop[t] = "late")
  /\ UNCHANGED <<fatal, interrupted, lists, leaveVars>>

\* Mutation: the configuration is saved before the look at c.cancel.
MutJoinSaveFails(c) ==
  /\ saved' \in {saved, c, Default}
  /\ UNCHANGED <<current, loop, fatal, cancelled, cfg, interrupted, lists,
                 leaveVars, statusVars, overtaken>>

\* saveClientConfig fails: os.WriteFile may have left the old file, the new one
\* or a truncated one.
JoinSaveFails(c) ==
  /\ current = None
  /\ saved' \in {saved, c, Default}
  /\ UNCHANGED <<current, loop, fatal, cancelled, cfg, interrupted, lists,
                 leaveVars, statusVars, overtaken>>

\* Leave reads c.cancel under the lock; it does nothing when that is nil.
LeaveRead(k) ==
  /\ leave[k] = "none" /\ current # None
  /\ held' = [held EXCEPT ![k] = current]
  /\ leave' = [leave EXCEPT ![k] = "mark"]
  /\ UNCHANGED <<current, loop, fatal, cancelled, cfg, interrupted, lists,
                 statusVars, saved, overtaken>>

LeaveMark(k) ==
  /\ leave[k] = "mark"
  /\ SetState("leaving")
  /\ leave' = [leave EXCEPT ![k] = "cancel"]
  /\ overtaken' = (overtaken \/ Returned(held[k]))
  /\ UNCHANGED <<current, loop, fatal, cancelled, cfg, interrupted, lists, held, saved>>

LeaveCancel(k) ==
  /\ leave[k] = "cancel"
  /\ cancelled' = [cancelled EXCEPT ![held[k]] = TRUE]
  /\ leave' = [leave EXCEPT ![k] = "none"]
  /\ held' = [held EXCEPT ![k] = None]
  /\ UNCHANGED <<current, loop, fatal, cfg, interrupted, lists, statusVars, saved, overtaken>>

-----------------------------------------------------------------------------
(* The session goroutine: runLoop, runSession and the end of Join's go func. *)

Goto(s, l) == loop' = [loop EXCEPT ![s] = l]

sessionRest == <<current, cancelled, cfg, interrupted, leaveVars, saved, overtaken>>

Connecting(s) ==
  /\ loop[s] = "start"
  /\ SetState("connecting")
  /\ Goto(s, "dial")
  /\ UNCHANGED <<fatal, lists, sessionRest>>

\* quic.DialAddr; with a cancelled context it does not succeed.
Dial(s) ==
  /\ loop[s] = "dial" /\ ~cancelled[s]
  /\ Goto(s, "handshake")
  /\ UNCHANGED <<fatal, lists, statusVars, sessionRest>>

\* JoinRoom is sent and JoinAccept received: reading the answer does not watch
\* the context.
Accepted(s) ==
  /\ loop[s] = "handshake"
  /\ Joined(s)
  /\ Goto(s, "setup")
  /\ UNCHANGED <<fatal, lists, sessionRest>>

\* The TAP device is configured and the data stream accepted; four goroutines run.
StartStreams(s) ==
  /\ loop[s] = "setup" /\ ~cancelled[s]
  /\ Goto(s, "serve")
  /\ UNCHANGED <<fatal, lists, statusVars, sessionRest>>

\* runSession returns: the certificate, the TAP device or the server's refusal
\* end it for good (f), and any other error, or the cancelled context, does not.
SessionFails(s, f) ==
  /\ loop[s] \in {"dial", "handshake", "setup"} \/ (loop[s] = "serve" /\ ~f)
  /\ fatal' = [fatal EXCEPT ![s] = f]
  /\ Goto(s, "failed")
  /\ UNCHANGED <<lists, statusVars, sessionRest>>

\* Mutation: runLoop does not look at ctx.Err().
MutCheckContext(s) ==
  /\ loop[s] = "failed"
  /\ Goto(s, "judged")
  /\ UNCHANGED <<fatal, lists, statusVars, sessionRest>>

\* runLoop looks at ctx.Err() once: a later cancel is not seen before the select.
CheckContext(s) ==
  /\ loop[s] = "failed"
  /\ Goto(s, IF cancelled[s] THEN "returned" ELSE "judged")
  /\ UNCHANGED <<fatal, lists, statusVars, sessionRest>>

Judge(s) ==
  /\ loop[s] = "judged"
  /\ IF fatal[s]
     THEN EndSession("stopped") /\ Goto(s, "returned")
     ELSE EndSession("reconnecting") /\ Goto(s, "backoff")
  /\ UNCHANGED <<fatal, lists, sessionRest>>

\* select: the context and the timer, in any order when both are ready
BackoffEnds(s) ==
  /\ loop[s] = "backoff"
  /\ \/ Goto(s, "start")
     \/ cancelled[s] /\ Goto(s, "returned")
  /\ UNCHANGED <<fatal, lists, statusVars, sessionRest>>

\* The goroutine gives up its place in the controller ...
ClearCancel(s) ==
  /\ loop[s] = "returned"
  /\ current' = IF current = s THEN None ELSE current
  /\ Goto(s, "late")
  /\ UNCHANGED <<fatal, cancelled, cfg, interrupted, lists, leaveVars, statusVars,
                 saved, overtaken>>

\* Mutation: the goroutine returns without ending the status.
MutFinish(s) ==
  /\ loop[s] = "late"
  /\ loop' = [loop EXCEPT ![s] = "none"]
  /\ cfg' = [cfg EXCEPT ![s] = None]
  /\ fatal' = [fatal EXCEPT ![s] = FALSE]
  /\ UNCHANGED <<current, cancelled, interrupted, lists, leaveVars, statusVars, saved, overtaken>>

\* ... and then, with no lock of the controller, ends the shared status.
Finish(s) ==
  /\ loop[s] = "late"
  /\ IF cancelled[s] THEN EndSession("idle") ELSE UNCHANGED statusVars
  /\ loop' = [loop EXCEPT ![s] = "none"]
  /\ cfg' = [cfg EXCEPT ![s] = None]
  /\ fatal' = [fatal EXCEPT ![s] = FALSE]
  /\ UNCHANGED <<current, cancelled, interrupted, lists, leaveVars, saved, overtaken>>

\* readControl: a list is read from the control stream, and later applied; the
\* session may have ended in between.
ReadList(s) ==
  /\ loop[s] = "serve" /\ s \notin lists
  /\ lists' = lists \cup {s}
  /\ UNCHANGED <<loop, fatal, statusVars, sessionRest>>

ApplyList(s) ==
  /\ s \in lists
  /\ lists' = lists \ {s}
  /\ UpdatePeers(s)
  /\ overtaken' = (overtaken \/ loop[s] # "serve")
  /\ UNCHANGED <<current, loop, fatal, cancelled, cfg, interrupted, leaveVars, saved>>

-----------------------------------------------------------------------------
\* SIGINT or SIGTERM cancels the context every session is derived from.
Interrupt ==
  /\ ~interrupted
  /\ interrupted' = TRUE
  /\ cancelled' = [s \in Sessions |-> loop[s] # "none" \/ cancelled[s]]
  /\ UNCHANGED <<current, loop, fatal, cfg, lists, leaveVars, statusVars, saved, overtaken>>

\* The process ends, orderly or not, and NewController loads the saved file.
Restart ==
  /\ current' = None
  /\ loop' = [s \in Sessions |-> "none"]
  /\ fatal' = [s \in Sessions |-> FALSE]
  /\ cancelled' = [s \in Sessions |-> FALSE]
  /\ cfg' = [s \in Sessions |-> None]
  /\ interrupted' = FALSE
  /\ lists' = {}
  /\ leave' = [c \in Callers |-> "none"]
  /\ held' = [c \in Callers |-> None]
  /\ state' = "idle"
  /\ shown' = saved
  /\ ident' = None /\ listed' = None
  /\ overtaken' = FALSE
  /\ UNCHANGED saved

SessionStep(s) ==
  \/ Connecting(s) \/ Dial(s) \/ Accepted(s) \/ StartStreams(s)
  \/ \E f \in BOOLEAN : SessionFails(s, f)
  \/ CheckContext(s) \/ Judge(s) \/ BackoffEnds(s) \/ ClearCancel(s) \/ Finish(s)

Next ==
  \/ \E s \in Sessions : \E c \in Configs : Join(s, c)
  \/ \E c \in Configs : JoinSaveFails(c)
  \/ \E k \in Callers : LeaveRead(k) \/ LeaveMark(k) \/ LeaveCancel(k)
  \/ \E s \in Sessions : SessionStep(s) \/ ReadList(s) \/ ApplyList(s)
  \/ Interrupt
  \/ Restart

Spec == Init /\ [][Next]_vars

\* A cancelled session that is serving sees its context; other steps are those of
\* one goroutine, which the Go scheduler does not starve.  Waiting for the answer
\* to JoinRoom ends because QUIC closes a connection that is idle for 60 seconds.
FairSpec ==
  /\ Spec
  /\ \A s \in Sessions :
       /\ WF_vars(loop[s] # "serve" /\ SessionStep(s))
       /\ WF_vars(cancelled[s] /\ SessionStep(s))
       /\ WF_vars(ApplyList(s))
  /\ \A k \in Callers : WF_vars(LeaveMark(k) \/ LeaveCancel(k))

-----------------------------------------------------------------------------
(* Properties *)

\* Every variable has its type.
TypeOK ==
  /\ current \in Sessions \cup {None}
  /\ loop \in [Sessions -> {"none", "start", "dial", "handshake", "setup", "serve",
                            "failed", "judged", "backoff", "returned", "late"}]
  /\ fatal \in [Sessions -> BOOLEAN] /\ cancelled \in [Sessions -> BOOLEAN]
  /\ cfg \in [Sessions -> Configs \cup {None}]
  /\ interrupted \in BOOLEAN /\ overtaken \in BOOLEAN
  /\ lists \subseteq Sessions
  /\ leave \in [Callers -> {"none", "mark", "cancel"}]
  /\ held \in [Callers -> Sessions \cup {None}]
  /\ state \in {"idle", "starting", "connecting", "connected", "reconnecting",
                "stopped", "leaving"}
  /\ shown \in Configs \cup {Default} /\ saved \in Configs \cup {Default}
  /\ ident \in Sessions \cup {None} /\ listed \in Sessions \cup {None}

\* At most one session goroutine is in runLoop, and it is the one whose cancel
\* function the controller holds: no session runs that Leave cannot end.
OneSession == \A s \in Sessions : InLoop(s) => current = s

\* The address, MAC and peer ID in the status were given to a session that has
\* not ended: not while it redials or backs off, nor after its goroutine is gone.
AddressIsCurrent ==
  ident # None =>
    loop[ident] \in {"setup", "serve", "failed", "judged", "returned", "late"}

\* The room the user is in is the one shown and the one saved, so that a client
\* that crashes and starts again offers the room it was in: a refused Join, or one
\* that could not be saved, changes neither while a session runs.
RestartRemembers ==
  \A s \in Sessions : InLoop(s) => saved = cfg[s] /\ shown = cfg[s]

\* No Leave call is half done, no goroutine is about to touch the status.
Quiet == /\ \A k \in Callers : leave[k] = "none"
         /\ \A s \in Sessions : loop[s] \notin {"returned", "late"}
         /\ lists = {}

\* When no Join overtook the end of an older session, no Leave marked a session
\* whose runLoop had returned and no peer list outlived its connection, a quiet status is
\* right: it is at rest exactly when there is no session to leave, and it lists
\* peers only beside the client's own address.
SerialStatus ==
  Quiet /\ ~overtaken =>
    /\ state \in Resting <=> current = None
    /\ listed # None => ident = listed

\* A session that was cancelled ends: its goroutine returns.
CancelEnds == \A s \in Sessions : cancelled[s] /\ InLoop(s) ~> ~InLoop(s)

\* Once nothing more is going to write to it, the status says whether there is a
\* session: it is at rest exactly when there is none, and not while one serves.
\* The user interface offers Leave only while the state is not at rest and Join
\* only while it is (ClientView.vue), Leave without a session is a no-op that
\* reports "idle" (TestControllerLeaveWithoutSessionIsNoop), and Join with one
\* answers "already joined; leave the current room first".
StatusAgrees ==
  Quiet /\ ~interrupted /\ (\A s \in Sessions : loop[s] \in {"none", "serve"})
    => (state \in Resting <=> current = None)
=============================================================================
