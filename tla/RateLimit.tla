------------------------------- MODULE RateLimit -------------------------------
(***************************************************************************)
(* The limit on what one peer may send (Peer.AllowFrame of internal/relay/  *)
(* room.go): a window that starts with the first frame after the last one   *)
(* has run out, and counts of the frames and bytes let through in it.       *)
(***************************************************************************)
EXTENDS Integers, Sequences

CONSTANTS
  Peers,           \* connections to one room
  Window,          \* frameRateWindow, in ticks
  MaxPeerFrames,   \* frames let through in one window
  MaxPeerBytes     \* bytes let through in one window

ASSUME RateAssumption ==
  Window \in Nat \ {0} /\ MaxPeerFrames \in Nat \ {0} /\ MaxPeerBytes \in Nat \ {0}

VARIABLES
  now,             \* the clock
  windowStart,     \* -1 is Go's zero time
  windowFrames,
  windowBytes,
  verdicts         \* history: each peer's frames, AllowFrame's answers, and the frames and
                   \* bytes let through up to each

rateVars == <<now, windowStart, windowFrames, windowBytes, verdicts>>

RateInit ==
  /\ now = 0
  /\ windowStart = [p \in Peers |-> -1]
  /\ windowFrames = [p \in Peers |-> 0]
  /\ windowBytes = [p \in Peers |-> 0]
  /\ verdicts = [p \in Peers |-> << >>]

\* Mutation: a window that has just run out still counts.
MutWindowOver(p) == windowStart[p] = -1 \/ now - windowStart[p] > Window

\* The last window has run out, or there was none.
WindowOver(p) == windowStart[p] = -1 \/ now - windowStart[p] >= Window

\* What the counters say before this frame.
FramesSoFar(p) == IF WindowOver(p) THEN 0 ELSE windowFrames[p]
BytesSoFar(p) == IF WindowOver(p) THEN 0 ELSE windowBytes[p]

\* Mutation: the frame itself is not counted.
MutAllowed(p, size) ==
  /\ FramesSoFar(p) <= MaxPeerFrames
  /\ BytesSoFar(p) + size <= MaxPeerBytes

Allowed(p, size) ==
  /\ FramesSoFar(p) + 1 <= MaxPeerFrames
  /\ BytesSoFar(p) + size <= MaxPeerBytes

\* Only a frame that is let through counts.
Counted(n, ok) == IF ok THEN n ELSE 0

\* History: what was let through of the first n frames of a peer's history h.
FramesUpTo(h, n) == IF n = 0 THEN 0 ELSE h[n].frames
BytesUpTo(h, n) == IF n = 0 THEN 0 ELSE h[n].bytes

Verdict(p, size, ok) ==
  LET n == Len(verdicts[p]) IN
  [at |-> now, size |-> size, ok |-> ok,
   frames |-> FramesUpTo(verdicts[p], n) + (IF ok THEN 1 ELSE 0),
   bytes |-> BytesUpTo(verdicts[p], n) + (IF ok THEN size ELSE 0)]

\* Peer.AllowFrame: the answer is Allowed(p, size).
AllowFrame(p, size) ==
  LET ok == Allowed(p, size) IN
  /\ windowStart' = [windowStart EXCEPT ![p] = IF WindowOver(p) THEN now ELSE @]
  /\ windowFrames' = [windowFrames EXCEPT ![p] = FramesSoFar(p) + Counted(1, ok)]
  /\ windowBytes' = [windowBytes EXCEPT ![p] = BytesSoFar(p) + Counted(size, ok)]
  /\ verdicts' = [verdicts EXCEPT ![p] = Append(@, Verdict(p, size, ok))]
  /\ UNCHANGED now

\* A new Peer starts with no window.
NewPeerRate(p) ==
  /\ windowStart' = [windowStart EXCEPT ![p] = -1]
  /\ windowFrames' = [windowFrames EXCEPT ![p] = 0]
  /\ windowBytes' = [windowBytes EXCEPT ![p] = 0]
  /\ verdicts' = [verdicts EXCEPT ![p] = << >>]
  /\ UNCHANGED now

Tick ==
  /\ now' = now + 1
  /\ UNCHANGED <<windowStart, windowFrames, windowBytes, verdicts>>

-----------------------------------------------------------------------------
\* What was let through of the frames of p from the i-th to the j-th.
FramesPassed(p, i, j) == FramesUpTo(verdicts[p], j) - FramesUpTo(verdicts[p], i - 1)
BytesPassed(p, i, j) == BytesUpTo(verdicts[p], j) - BytesUpTo(verdicts[p], i - 1)
Within(p, i, j) == verdicts[p][j].at - verdicts[p][i].at < Window

\* However the frames of a peer fall on its windows, no interval of a window's
\* length sees more than two windows' worth of them let through.
BurstBounded ==
  \A p \in Peers : \A i, j \in 1..Len(verdicts[p]) :
    i <= j /\ Within(p, i, j) =>
      /\ FramesPassed(p, i, j) <= 2 * MaxPeerFrames
      /\ BytesPassed(p, i, j) <= 2 * MaxPeerBytes

\* A frame is refused only if it would exceed a limit together with the frames
\* let through less than a window's length before it: a peer that keeps below
\* the limits is never throttled.
RefusalsJustified ==
  \A p \in Peers : \A j \in 1..Len(verdicts[p]) :
    ~verdicts[p][j].ok =>
      \E i \in 1..j :
        /\ \A k \in i..j : Within(p, k, j)
        /\ \/ FramesPassed(p, i, j - 1) + 1 > MaxPeerFrames
           \/ BytesPassed(p, i, j - 1) + verdicts[p][j].size > MaxPeerBytes
=============================================================================
