----------------------------- MODULE MsgChannel -----------------------------
(***************************************************************************)
(* What one direction of a UnixDomainSocket pair promises, without         *)
(* datagrams, threads or locks: a FIFO of messages that may drop messages, *)
(* never reorders or repeats them, and does not hold one for ever.  A call *)
(* of Send may fail.  If its message has entered all the same, the ones    *)
(* behind it may be lost to it.  UdsChannel implements it.                 *)
(*                                                                         *)
(* Messages have numbers, in the order of the calls of Send, and none      *)
(* enters behind a later one: the messages on their way are a set, and the *)
(* head of the FIFO is the least of it.                                    *)
(***************************************************************************)
EXTENDS Naturals, Sequences

CONSTANT MsgId   \* the numbers of messages

VARIABLES pipe,   \* messages on their way
          out,    \* messages received, in order
          lost,   \* messages dropped
          failed  \* messages whose Send has failed

vars == <<pipe, out, lost, failed>>

Received == {out[i] : i \in DOMAIN out}

Init == pipe = {} /\ out = <<>> /\ lost = {} /\ failed = {}

\* A message enters behind every message that was ever sent.
Publish(n) ==
    /\ \A k \in pipe \cup Received \cup lost \cup failed : k < n
    /\ pipe' = pipe \cup {n}
    /\ UNCHANGED <<out, lost, failed>>

\* The latest Send fails, before or after its message has entered.
Fail(n) ==
    /\ \A k \in pipe \cup Received \cup lost \cup failed : k <= n
    /\ n \notin Received \cup failed
    /\ failed' = failed \cup {n}
    /\ UNCHANGED <<pipe, out, lost>>

IsHead(n) == n \in pipe /\ \A k \in pipe : n <= k

\* Message k is next behind message n, whose Send has failed.
IsTakenBy(k, n) ==
    /\ n \in failed
    /\ k \in pipe /\ n < k /\ \A j \in pipe : j <= n \/ k <= j

Deliver ==
    \E n \in pipe :
        /\ IsHead(n)
        /\ pipe' = pipe \ {n}
        /\ out' = Append(out, n)
        /\ UNCHANGED <<lost, failed>>

\* The head takes the next message with it, and is still to be received.
Swallow ==
    \E n, k \in pipe :
        /\ IsHead(n) /\ IsTakenBy(k, n)
        /\ pipe' = pipe \ {k}
        /\ lost' = lost \cup {k}
        /\ UNCHANGED <<out, failed>>

\* The head takes the next message with it, and is received.
DeliverOver ==
    \E n, k \in pipe :
        /\ IsHead(n) /\ IsTakenBy(k, n)
        /\ pipe' = pipe \ {n, k}
        /\ out' = Append(out, n)
        /\ lost' = lost \cup {k}
        /\ UNCHANGED failed

\* The receiver gives the message at the head up.
Drop ==
    \E n \in pipe :
        /\ IsHead(n)
        /\ pipe' = pipe \ {n}
        /\ lost' = lost \cup {n}
        /\ UNCHANGED <<out, failed>>

\* The receiver's socket is gone, and what was on its way with it.
Reset ==
    /\ pipe # {}
    /\ lost' = lost \cup pipe
    /\ pipe' = {}
    /\ UNCHANGED <<out, failed>>

Leave == Deliver \/ Swallow \/ DeliverOver \/ Drop \/ Reset

Next == (\E n \in MsgId : Publish(n) \/ Fail(n)) \/ Leave

\* Half a message may wait for its rest for ever, no other does.
Spec == Init /\ [][Next]_vars /\ WF_vars(pipe \ failed # {} /\ Leave)
=============================================================================
