--------------------------------- MODULE Wire ---------------------------------
(***************************************************************************)
(* One direction of the data stream (WriteMessage and ReadMessage of        *)
(* internal/protocol/protocol.go, ethernetFrameWriter of internal/client/   *)
(* client.go).  A message is written in two pieces, the header and the      *)
(* payload, and two goroutines of a client with an IP device write frames:  *)
(* the one that reads the device and the one that answers ARP requests.     *)
(***************************************************************************)
EXTENDS Integers, Sequences

CONSTANTS
  Clients,       \* each with a data stream to the server
  Nobody,        \* no goroutine, no frame
  MaxFrameSize

Goroutines == {"tx", "rx"}

ASSUME WireAssumption == Nobody \notin Goroutines /\ MaxFrameSize \in Nat

VARIABLES
  up,            \* the pieces in each client's stream to the server
  mu,            \* ethernetFrameWriter.mu: the goroutine that holds it
  writing,       \* the frame each goroutine is writing
  ended          \* clients whose session ended for an error of WriteMessage

wireVars == <<up, mu, writing, ended>>

NoWrites == [g \in Goroutines |-> Nobody]

WireInit ==
  /\ up = [c \in Clients |-> << >>]
  /\ mu = [c \in Clients |-> Nobody]
  /\ writing = [c \in Clients |-> NoWrites]
  /\ ended = {}

Piece(part, frame) == [part |-> part, frame |-> frame]

\* A goroutine calls WriteFrame and waits until it returns.
CallWriteFrame(c, g, frame) ==
  writing' = [writing EXCEPT ![c][g] = frame]

\* Mutation: a frame of the maximal size is refused.
MutTooLarge(frame) == frame.size >= MaxFrameSize

TooLarge(frame) == frame.size > MaxFrameSize

\* Mutation: the header is written without the mutex.
MutWriteHeader(c, g) ==
  /\ writing[c][g] # Nobody /\ mu[c] # g
  /\ ~TooLarge(writing[c][g])
  /\ up' = [up EXCEPT ![c] = Append(@, Piece("header", writing[c][g]))]
  /\ mu' = [mu EXCEPT ![c] = g]
  /\ UNCHANGED <<writing, ended>>

\* The mutex is free; WriteMessage writes the header.
WriteHeader(c, g) ==
  /\ writing[c][g] # Nobody /\ mu[c] = Nobody
  /\ ~TooLarge(writing[c][g])
  /\ up' = [up EXCEPT ![c] = Append(@, Piece("header", writing[c][g]))]
  /\ mu' = [mu EXCEPT ![c] = g]
  /\ UNCHANGED <<writing, ended>>

\* WriteMessage refuses a payload that is too large, and the goroutine ends the
\* session with its error.
WriteTooLarge(c, g) ==
  /\ writing[c][g] # Nobody /\ mu[c] = Nobody
  /\ TooLarge(writing[c][g])
  /\ ended' = ended \cup {c}
  /\ writing' = [writing EXCEPT ![c][g] = Nobody]
  /\ UNCHANGED <<up, mu>>

\* WriteMessage writes the payload and returns; the mutex is released.
WritePayload(c, g) ==
  /\ writing[c][g] # Nobody /\ mu[c] = g
  /\ up' = [up EXCEPT ![c] = Append(@, Piece("payload", writing[c][g]))]
  /\ mu' = [mu EXCEPT ![c] = Nobody]
  /\ writing' = [writing EXCEPT ![c][g] = Nobody]
  /\ UNCHANGED ended

\* ReadMessage takes a header and as many bytes as it announces.
Readable(c) == Len(up[c]) >= 2
Whole(c) == up[c][1].part = "header" /\ up[c][2] = Piece("payload", up[c][1].frame)

ReadMessage(c) ==
  /\ Readable(c) /\ Whole(c)
  /\ up' = [up EXCEPT ![c] = Tail(Tail(@))]
  /\ UNCHANGED <<mu, writing, ended>>

\* The stream is gone with its connection.
ResetWire(c) ==
  /\ up' = [up EXCEPT ![c] = << >>]
  /\ mu' = [mu EXCEPT ![c] = Nobody]
  /\ writing' = [writing EXCEPT ![c] = NoWrites]
  /\ ended' = ended \ {c}

-----------------------------------------------------------------------------
\* What a reader finds at the head of the stream is a frame that was written:
\* the two writers of a stream never mix their pieces (WriteFrame's mutex).
FramingIntact == \A c \in Clients : Readable(c) => Whole(c)
=============================================================================
