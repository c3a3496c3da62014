------------------------------ MODULE RpcCalls ------------------------------
(***************************************************************************)
(* What UnixDomainSocketClient and UnixDomainSocketServer promise those    *)
(* who call, without datagrams, threads or locks: calls are made one after *)
(* the other; each is refused, or handled by the server once at most and   *)
(* answered after that, and it succeeds only when its own answer has come  *)
(* in.  UdsRpc implements it as long as nothing is notified.               *)
(***************************************************************************)
EXTENDS Naturals, Sequences

VARIABLES outcome,   \* of each call made so far, "open", "ok" or "error"
          handled,   \* the calls the server has handled, in order
          answered   \* the calls whose answers have come in, in order

vars == <<outcome, handled, answered>>

Among(n, q) == \E i \in DOMAIN q : q[i] = n

\* The call under way, if there is one, is the last.
Current == Len(outcome)
UnderWay == Current # 0 /\ outcome[Current] = "open"
AllReturned == \A n \in DOMAIN outcome : outcome[n] # "open"

Init == outcome = <<>> /\ handled = <<>> /\ answered = <<>>

\* A call is made; one too long to send comes back at once.
Make ==
    /\ AllReturned
    /\ \E o \in {"open", "error"} : outcome' = Append(outcome, o)
    /\ UNCHANGED <<handled, answered>>

Handle ==
    /\ UnderWay /\ ~Among(Current, handled)
    /\ handled' = Append(handled, Current)
    /\ UNCHANGED <<outcome, answered>>

Answer ==
    /\ UnderWay /\ Among(Current, handled) /\ ~Among(Current, answered)
    /\ answered' = Append(answered, Current)
    /\ UNCHANGED <<outcome, handled>>

Succeed ==
    /\ UnderWay /\ Among(Current, answered)
    /\ outcome' = [outcome EXCEPT ![Current] = "ok"]
    /\ UNCHANGED <<handled, answered>>

Next == Make \/ Handle \/ Answer \/ Succeed

Spec == Init /\ [][Next]_vars /\ WF_vars(Handle \/ Answer \/ Succeed)
=============================================================================
