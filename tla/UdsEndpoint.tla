---------------------------- MODULE UdsEndpoint ----------------------------
(***************************************************************************)
(* The life of UnixDomainSocket objects over one m_path: OpenSocket,       *)
(* CloseSocket, the destructor, and processes that crash and start again.  *)
(* An owner binds the name m_path.rx and sends to m_path.tx, the other     *)
(* side the other way round.  Whoever opens unlinks the name first, and    *)
(* whoever closes unlinks it last, each in a system call of its own.       *)
(*                                                                         *)
(* Each object is in a process of its own.  A receiving socket is the pair *)
(* of its object and a number; the sending socket, which is never bound,   *)
(* is only there or not.                                                   *)
(***************************************************************************)
EXTENDS Naturals

CONSTANTS Owners,     \* objects constructed with isOwner
          Others,     \* objects constructed without
          MaxSockets, \* bound: receiving sockets an object makes
          MaxFails    \* bound: calls of socket and bind that fail for a reason
                      \* outside the program

ASSUME EndpointAssumption ==
    /\ Owners \cap Others = {}
    /\ MaxSockets \in Nat /\ MaxFails \in Nat

Objects == Owners \cup Others
Sockets == Objects \X (1 .. MaxSockets)
Names == {".rx", ".tx"}

\* No socket: the file descriptor is -1, the name is not in the file system.
None == <<>>

RxName(o) == IF o \in Owners THEN ".rx" ELSE ".tx"

\* A mutant of TxName: the names are not crossed.
TxNameOwn(o) == RxName(o)

TxName(o) == IF o \in Owners THEN ".tx" ELSE ".rx"

VARIABLES
    rxFd,     \* for each object, its receiving socket
    txFd,     \* the objects that have a sending socket
    isOpend,  \* the objects with m_isOpend
    pc,       \* what each object is in the middle of
    result,   \* for each object, what its last OpenSocket returned, unless closed
    name,     \* the socket that is bound to each name
    made,     \* for each object, the receiving sockets it has made
    alive,    \* those that the kernel still has
    fails,    \* calls of socket and bind that failed for a reason outside
    unbound,  \* the objects that have known a failed bind
    orderly   \* nobody has opened while another of its side was open

endpointVars == <<rxFd, txFd, isOpend, pc, result, name, made, alive, fails, unbound, orderly>>

EndpointInit ==
    /\ rxFd = [o \in Objects |-> None] /\ txFd = {} /\ isOpend = {}
    /\ pc = [o \in Objects |-> "idle"] /\ result = [o \in Objects |-> "none"]
    /\ name = [n \in Names |-> None]
    /\ made = [o \in Objects |-> 0] /\ alive = {}
    /\ fails = 0 /\ unbound = {} /\ orderly = TRUE

-----------------------------------------------------------------------------
(* OpenSocket. *)

\* Another object of the same side is open, or is opening or closing.
Busy(o) == \E p \in Objects \ {o} : RxName(p) = RxName(o) /\ (p \in isOpend \/ pc[p] # "idle")

\* The sending socket is made if there is none; whether socket failed is not
\* looked at. So many other calls fail in the same step.
MakeTx(o, failed) ==
    /\ \/ txFd' = txFd \cup {o} /\ fails' = fails + failed
       \/ o \notin txFd /\ txFd' = txFd /\ fails' = fails + failed + 1
    /\ fails' <= MaxFails

\* Nothing to do: it is open, or has a socket that could not be bound.
OpenAgain(o) ==
    /\ pc[o] = "idle"
    /\ IF o \in isOpend THEN UNCHANGED <<txFd, fails>>
                        ELSE rxFd[o] # None /\ MakeTx(o, 0)
    /\ result' = [result EXCEPT ![o] = "success"]
    /\ UNCHANGED <<rxFd, isOpend, pc, name, made, alive, unbound, orderly>>

\* A mutant of OpenSocket: the old name is not unlinked.
OpenSocketNoUnlink(o) ==
    /\ pc[o] = "idle"
    /\ o \notin isOpend /\ rxFd[o] = None
    /\ made[o] < MaxSockets
    /\ MakeTx(o, 0)
    /\ made' = [made EXCEPT ![o] = @ + 1]
    /\ rxFd' = [rxFd EXCEPT ![o] = <<o, made[o] + 1>>]
    /\ alive' = alive \cup {<<o, made[o] + 1>>}
    /\ pc' = [pc EXCEPT ![o] = "bind"]
    /\ orderly' = (orderly /\ ~Busy(o))
    /\ UNCHANGED <<isOpend, result, name, unbound>>

\* Both sockets are made, and whatever has the name is unlinked.
OpenSocket(o) ==
    /\ pc[o] = "idle"
    /\ o \notin isOpend /\ rxFd[o] = None
    /\ made[o] < MaxSockets
    /\ MakeTx(o, 0)
    /\ made' = [made EXCEPT ![o] = @ + 1]
    /\ rxFd' = [rxFd EXCEPT ![o] = <<o, made[o] + 1>>]
    /\ alive' = alive \cup {<<o, made[o] + 1>>}
    /\ name' = [name EXCEPT ![RxName(o)] = None]
    /\ pc' = [pc EXCEPT ![o] = "bind"]
    /\ orderly' = (orderly /\ ~Busy(o))
    /\ UNCHANGED <<isOpend, result, unbound>>

\* No receiving socket can be made: bind, called all the same, says so, after
\* the name has been unlinked.
OpenSocketFails(o) ==
    /\ pc[o] = "idle"
    /\ o \notin isOpend /\ rxFd[o] = None
    /\ MakeTx(o, 1)
    /\ name' = [name EXCEPT ![RxName(o)] = None]
    /\ result' = [result EXCEPT ![o] = "error"]
    /\ orderly' = (orderly /\ ~Busy(o))
    /\ UNCHANGED <<rxFd, isOpend, pc, made, alive, unbound>>

Bind(o) ==
    /\ pc[o] = "bind"
    /\ name[RxName(o)] = None
    /\ name' = [name EXCEPT ![RxName(o)] = rxFd[o]]
    /\ isOpend' = isOpend \cup {o}
    /\ result' = [result EXCEPT ![o] = "success"]
    /\ pc' = [pc EXCEPT ![o] = "idle"]
    /\ UNCHANGED <<rxFd, txFd, made, alive, fails, unbound, orderly>>

\* Another object has bound the name since, or it cannot be made.
BindFails(o) ==
    /\ pc[o] = "bind"
    /\ IF name[RxName(o)] = None
       THEN fails < MaxFails /\ fails' = fails + 1
       ELSE UNCHANGED fails
    /\ unbound' = unbound \cup {o}
    /\ result' = [result EXCEPT ![o] = "error"]
    /\ pc' = [pc EXCEPT ![o] = "idle"]
    /\ UNCHANGED <<rxFd, txFd, isOpend, name, made, alive, orderly>>

-----------------------------------------------------------------------------
(* CloseSocket, the destructor, and a crash. *)

\* A mutant of CloseSocket: the receiving socket stays open.
CloseSocketTxOnly(o, then) ==
    /\ pc[o] = "idle"
    /\ o \in isOpend
    /\ txFd' = txFd \ {o}
    /\ rxFd' = [rxFd EXCEPT ![o] = None]
    /\ pc' = [pc EXCEPT ![o] = then]
    /\ UNCHANGED <<isOpend, result, name, made, alive, fails, unbound, orderly>>

\* The two closes; a CloseSocket of an object that is not open does nothing.
CloseSocket(o, then) ==
    /\ pc[o] = "idle"
    /\ o \in isOpend
    /\ txFd' = txFd \ {o}
    /\ rxFd' = [rxFd EXCEPT ![o] = None]
    /\ alive' = alive \ {rxFd[o]}
    /\ pc' = [pc EXCEPT ![o] = then]
    /\ UNCHANGED <<isOpend, result, name, made, fails, unbound, orderly>>

\* The unlink, whoever has bound the name by now, and m_isOpend.
Unlink(o) ==
    /\ pc[o] = "unlink"
    /\ name' = [name EXCEPT ![RxName(o)] = None]
    /\ isOpend' = isOpend \ {o}
    /\ pc' = [pc EXCEPT ![o] = "idle"] /\ result' = [result EXCEPT ![o] = "none"]
    /\ UNCHANGED <<rxFd, txFd, made, alive, fails, unbound, orderly>>

\* The destructor of an object that is not open, and the next constructor: the
\* file descriptors are forgotten.
Renew(o) ==
    /\ pc[o] = "idle"
    /\ o \notin isOpend
    /\ rxFd' = [rxFd EXCEPT ![o] = None] /\ txFd' = txFd \ {o}
    /\ result' = [result EXCEPT ![o] = "none"]
    /\ UNCHANGED <<isOpend, pc, name, made, alive, fails, unbound, orderly>>

\* The process ends wherever it is; the kernel closes its sockets and leaves the
\* name, and a new object takes the place of the old one.
Crash(o) ==
    /\ rxFd' = [rxFd EXCEPT ![o] = None] /\ txFd' = txFd \ {o}
    /\ isOpend' = isOpend \ {o}
    /\ pc' = [pc EXCEPT ![o] = "idle"] /\ result' = [result EXCEPT ![o] = "none"]
    /\ alive' = {s \in alive : s[1] # o}
    /\ unbound' = unbound \ {o}
    /\ UNCHANGED <<name, made, fails, orderly>>

-----------------------------------------------------------------------------
EndpointNext == \E o \in Objects :
    \/ OpenAgain(o) \/ OpenSocket(o) \/ OpenSocketFails(o) \/ Bind(o) \/ BindFails(o)
    \/ CloseSocket(o, "unlink") \/ Unlink(o) \/ Renew(o) \/ Crash(o)

EndpointSpec == EndpointInit /\ [][EndpointNext]_endpointVars

-----------------------------------------------------------------------------
(* Properties. *)

\* Type invariant: an object's receiving socket is its latest, and is alive.
EndpointTypeOK ==
    /\ \A o \in Objects : \/ rxFd[o] = None
                          \/ rxFd[o] = <<o, made[o]>> /\ made[o] > 0 /\ rxFd[o] \in alive
    /\ rxFd \in [Objects -> Sockets \cup {None}]
    /\ txFd \subseteq Objects /\ isOpend \subseteq Objects
    /\ pc \in [Objects -> {"idle", "bind", "unlink"}]
    /\ result \in [Objects -> {"none", "success", "error"}]
    /\ name \in [Names -> Sockets \cup {None}]
    /\ made \in [Objects -> 0 .. MaxSockets] /\ alive \subseteq Sockets
    /\ fails \in 0 .. MaxFails /\ unbound \subseteq Objects /\ orderly \in BOOLEAN

\* UnixDomainSocket.h:46, "same path and isOwner is true and false Establish a
\* communication connection": as long as the objects of a side follow one
\* another, what an open object sends reaches the open object of the other side,
\* crashes and names left over by them notwithstanding. It has a socket to send
\* with unless a call has failed.
PeersAreConnected ==
    orderly => \A o, p \in Objects :
        (o \in isOpend /\ pc[o] = "idle" /\ p \in isOpend /\ pc[p] = "idle"
           /\ (o \in Owners <=> p \notin Owners))
          => name[TxName(o)] = rxFd[p] /\ rxFd[p] # None /\ (fails = 0 => o \in txFd)

\* UnixDomainSocket.h:64, "When it fails, the error content is set to Error": an
\* object that is open has a socket to send with.
OpenedCanSend ==
    \A o \in isOpend : pc[o] = "idle" => o \in txFd

\* A process keeps no receiving socket that its object has forgotten, unless a bind has
\* failed: CloseSocket does nothing then.
NoSocketIsLeaked ==
    \A s \in alive : s[1] \in unbound \/ rxFd[s[1]] = s

\* With no socket or bind that fails for reasons outside the program, an object that has
\* its side to itself can always open, after crashes too, and what OpenSocket
\* returns says so.
OpenSucceeds ==
    orderly /\ fails = 0 => \A o \in Objects :
        /\ result[o] # "error"
        /\ pc[o] = "idle" => (o \in isOpend <=> result[o] = "success")
=============================================================================
