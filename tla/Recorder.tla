------------------------------- MODULE Recorder -------------------------------
(***************************************************************************)
(* The capture recorder (internal/capture/recorder.go): a flag that the web *)
(* UI switches, and the last frames that the handlers recorded while it was *)
(* on.  Record reads the flag before it takes the lock.                     *)
(***************************************************************************)
EXTENDS Integers, Sequences

CONSTANTS
  Recorders,     \* the goroutines that call Record
  Limit          \* Recorder.limit

ASSUME LimitAssumption == Limit \in Nat \ {0}   \* NewRecorder sees to it

VARIABLES
  enabled, nextSeq, events,
  begun,         \* calls of Record under way that found the flag set
  late           \* history: events of each goroutine while the flag is off

recVars == <<enabled, nextSeq, events, begun, late>>

RecInit ==
  /\ enabled = FALSE
  /\ nextSeq = 0
  /\ events = << >>
  /\ begun = {}
  /\ late = [g \in Recorders |-> 0]

Enable ==
  /\ ~enabled
  /\ enabled' = TRUE
  /\ UNCHANGED <<nextSeq, events, begun, late>>

Disable ==
  /\ enabled
  /\ enabled' = FALSE
  /\ late' = [g \in Recorders |-> 0]
  /\ UNCHANGED <<nextSeq, events, begun>>

\* Mutation: only the first frame of a recording looks at the flag.
MutBeginRecord(g) ==
  /\ begun' = IF enabled \/ events # << >> THEN begun \cup {g} ELSE begun
  /\ UNCHANGED <<enabled, nextSeq, events, late>>

\* Record looks at the flag: nothing more happens if it is not set.
BeginRecord(g) ==
  /\ begun' = IF enabled THEN begun \cup {g} ELSE begun
  /\ UNCHANGED <<enabled, nextSeq, events, late>>

\* Mutation: the ring is not shifted when it is full.
MutKeep(ring, e) ==
  IF Len(ring) >= Limit THEN [ring EXCEPT ![Len(ring)] = e] ELSE Append(ring, e)

\* The newest Limit events are kept.
Keep(ring, e) == IF Len(ring) >= Limit THEN Append(Tail(ring), e) ELSE Append(ring, e)

\* Record, under r.mu.
AddEvent(g) ==
  /\ g \in begun
  /\ nextSeq' = nextSeq + 1
  /\ events' = Keep(events, [seq |-> nextSeq + 1, by |-> g])
  /\ begun' = begun \ {g}
  /\ late' = [late EXCEPT ![g] = IF enabled THEN @ ELSE @ + 1]
  /\ UNCHANGED enabled

-----------------------------------------------------------------------------
\* The page shows the newest events, without a gap and in the order of their
\* numbers, whichever goroutines recorded them.
RingIsTail ==
  /\ Len(events) = IF nextSeq < Limit THEN nextSeq ELSE Limit
  /\ \A i \in 1..Len(events) : events[i].seq = nextSeq - Len(events) + i

\* Once Disable has returned, each goroutine adds at most the one event it had
\* begun: recording does not go on.
DisableIsPrompt ==
  ~enabled => \A g \in Recorders : late[g] + (IF g \in begun THEN 1 ELSE 0) <= 1
=============================================================================
