------------------------------- MODULE NatsLink -------------------------------
(***************************************************************************)
(* The connection behind nats::server, for what goes out on it.  The       *)
(* library takes a message into its buffer and sends it while the          *)
(* connection is up; a connection that is down keeps the buffer until it   *)
(* is mended or given up.  Whether the end of it loses messages is a       *)
(* matter of the deleter in nats.h.                                        *)
(*                                                                         *)
(* The operators are steps; the module that owns a connection says when    *)
(* they happen.  Bytes are not counted: the buffer holds messages.         *)
(***************************************************************************)
EXTENDS Integers, Sequences, SequencesExt

CONSTANT Buffer   \* the messages that fit into the buffer of the library

ASSUME LinkAssumption == Buffer \in Nat \ {0}

VARIABLES
  conn,      \* m_connection
  out,       \* published: in the buffer, or sent and not yet heard
  heard,     \* what subscribers got, in order
  dropped,   \* published and never to be heard
  cut        \* the connection has been down, or its last flush timed out

outgoing == <<out, heard, dropped, cut>>
link     == <<conn, outgoing>>

NoLink ==
  /\ conn = "none"
  /\ out = <<>> /\ heard = <<>> /\ dropped = {} /\ cut = FALSE

Alive == conn \in {"up", "down"}

ConnectTo == conn = "none" /\ conn' = "up" /\ UNCHANGED outgoing

-----------------------------------------------------------------------------
(* The library and the network. *)

Hear ==
  /\ conn = "up" /\ out # <<>>
  /\ heard' = Append(heard, Head(out))
  /\ out' = Tail(out)
  /\ UNCHANGED <<conn, dropped, cut>>

\* The messages that are on the wire at this moment are lost with it.
Break ==
  /\ conn = "up"
  /\ conn' = "down"
  /\ cut' = TRUE
  /\ \E k \in 0 .. Len(out) :
       /\ dropped' = dropped \cup ToSet(SubSeq(out, 1, k))
       /\ out' = SubSeq(out, k + 1, Len(out))
  /\ UNCHANGED heard

Mend == conn = "down" /\ conn' = "up" /\ UNCHANGED outgoing

\* What is left in the buffer goes with the connection.
End(state) ==
  /\ conn' = state
  /\ dropped' = dropped \cup ToSet(out)
  /\ out' = <<>>
  /\ UNCHANGED <<heard, cut>>

\* The library has tried long enough to reconnect.
GiveUp == conn = "down" /\ End("closed")

-----------------------------------------------------------------------------
(* The calls of nats.h. *)

\* A connection that is up makes room by sending, so the call waits.
PublishString(m) ==
  /\ Alive /\ Len(out) < Buffer
  /\ out' = Append(out, m)
  /\ UNCHANGED <<conn, heard, dropped, cut>>

\* A null connection, one given up, or a full buffer while it is down.
PublishRefused == conn \in {"none", "closed"} \/ (conn = "down" /\ Len(out) >= Buffer)

\* Mutant: the deleter does not wait for what is in the buffer.
FlushSkipped == conn # "none" /\ UNCHANGED link

\* FlushTimeout comes back when everything is out, or after a second.
Flush ==
  /\ conn # "none"
  /\ cut' = (cut \/ out # <<>>)
  /\ UNCHANGED <<conn, out, heard, dropped>>

Destroy == conn # "none" /\ End("gone")

=============================================================================
