----------------------------- MODULE ByteQueue -----------------------------
(***************************************************************************)
(* What the proxy's bridge takes a traffic buffer to be: a queue of bytes. *)
(* Reads put bytes of the source's stream in, which count once they are    *)
(* committed; writes send committed bytes on, which go once drained.       *)
(***************************************************************************)
EXTENDS Naturals, Sequences

CONSTANT Stream     \* the bytes that the source sends

VARIABLES received,   \* bytes of the stream that have been read
          wire,       \* the bytes that have been written to the sink
          data_size,  \* data_size()
          pending     \* bytes written and not drained yet

queueVars == <<received, wire, data_size, pending>>

QueueInit == received = 0 /\ wire = <<>> /\ data_size = 0 /\ pending = 0

Receive ==
    /\ received < Len(Stream)
    /\ received' = received + 1
    /\ UNCHANGED <<wire, data_size, pending>>

(* All that was read and has not been drained is in the queue.             *)
Commit ==
    /\ data_size' = received - (Len(wire) - pending)
    /\ UNCHANGED <<received, wire, pending>>

(* The next byte of the stream, if it has been committed.                  *)
Send ==
    /\ pending < data_size
    /\ wire' = Append(wire, Stream[Len(wire) + 1])
    /\ pending' = pending + 1
    /\ UNCHANGED <<received, data_size>>

Drain ==
    /\ data_size' = data_size - pending
    /\ pending' = 0
    /\ UNCHANGED <<received, wire>>

QueueNext == Receive \/ Commit \/ Send \/ Drain

QueueSpec == QueueInit /\ [][QueueNext]_queueVars
=============================================================================
