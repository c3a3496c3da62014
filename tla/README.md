# Verification of lightipc

TLA+ models of lightipc, a C++ library for processes and threads on one host:
datagram messaging over UNIX domain sockets, POSIX message queues, shared
memory with a lock, and threads. The modules are checked by TLC on small
instances; the properties that matter most are proved with TLAPS for every
value of the constants. `PROJECT.json` lists components, runs, mutants of the
code that each property catches, the source lines behind each definition, the
hazards, findings and theorems.

    tlc -workers 2 -config MCUdsChannel.cfg MCUdsChannel.tla   # one run
    tlapm UdsChannel_proofs.tla                                # one proof module

## 1. The system

| part | state | operations | talks to |
|---|---|---|---|
| `UnixDomainSocket` | two sockets, `m_isOpend`, `m_limitSize` | OpenSocket, CloseSocket, Send, Receive, SetLimitSize | the kernel's datagram queue behind the peer's path |
| `UnixDomainSocketClient` | `m_mutex`, `m_responseMutex` with its condition, `m_responseArrived`, `m_isResponseError`, `m_responseHeader`, `m_response`, `m_isActive` | SendReceive, Ping, Run (response thread), start, stop | inherits the socket; owns a Thread; calls INotifyReceiver |
| `UnixDomainSocketServer` | `m_mutex`, `m_isActive` | Start, Stop, Run (request thread), Notify, Ping | inherits the socket; owns a Thread; calls IRequestReceiver |
| `MessageQueue` | descriptor, attributes, `m_notification` (no lock) | Init, Exist, Send, TimedSend, Receive, TimedReceive, Receive of all, Clear, SetNotifyMessage, the destructor | the kernel's queue; a thread the kernel starts calls INotifyMessage |
| `SharedMemory`, `Semaphore`, `SharedMemoryContext`, `SharedLock` | a mapping, a named semaphore, a map from names to memories | Bind, Wait, Post, destruction | names that outlive processes |
| `Thread` | `m_thread`, `m_threadId`, `m_isActive`, the global `threadMap` | Start, Cancel, Join, CurrentThread | POSIX threads, IRunnable |
| `ThreadAbstract` | `m_exit`, `m_freq` and a Thread | Initialize, StartThread, StopThread, Run, the destructor | Thread; calls OnStart, OnLooping, OnStop of the derived class |
| `Mutex`, `MutexLock` | a mutex and a condition | Lock, Unlock, ConditionWait, ConditionSignal, ConditionBroadcast; the destructor unlocks and yields | used by client, server, Thread and the applications |
| sleeping and time outs | none | MilliSleep, MicroSleep, NanoSleep, timeAdd | nanosleep, mq_timedsend, mq_timedreceive |
| `ByteBuffer`, `Result` | `m_buffer`, `m_position`; a value | Append and Value of each type, Clear, SetPosition; test for success | messages of the applications; used everywhere |

How they interact. A client and a server each bind one path and send to the
other's. A message is a protocol header (8 bytes, the length of the body), an
application header (the type: 0 request or response, 1 notification, 2 ping of
the client, 3 ping of the server) and the body in fragments of at most 1024
bytes, one datagram each, so one message takes several system calls and several
queue entries. The server's request thread receives, calls the application and
sends; Notify and Ping of other threads send through the same socket under the
server's `m_mutex`. The client's callers send under both mutexes of the client
and wait on the condition; its response thread receives and wakes them.

What is hard here: messages cut into datagrams in a bounded queue that blocks
the sender while it holds locks; locks taken in the middle of a request/response
exchange; a receiver that is restarted or reopened in the middle of a message;
one notification by the kernel for one arrival at an empty queue; two named
objects that are created one after the other; a post made of a test and a post;
processes that crash, and names that outlive them; a thread object that is
started again; threads cancelled while they hold a lock. There is no
retransmission, no sequence number and no time out in the socket protocol.

What makes each part correct:

- socket: of messages whose Send succeeded, what Receive returns is what one Send
  was given, in order, and each arrives unless a known event drops it;
- client and server: one request at a time, nobody's arrival is slept through,
  every call comes back, the response is the one to the request;
- end of a connection: open ends of the two sides lead to each other, whatever
  has crashed before, and no socket is forgotten;
- message queue: every message is in one place, and a handler that empties the
  queue is called again for whatever comes after; an object keeps the descriptor
  it opened, and none that is gone is notified;
- shared memory: at most one process in the lock (and one more for each wait that a
  signal ended), and the lock is passed on;
- thread: one POSIX thread at a time, `CurrentThread` and `IsActive` exact, a
  cancelled or stopped thread ends and leaves no lock behind;
- mutex: locked just when one thread is between Lock and Unlock, wherever a
  thread is cancelled;
- buffer: values come out as they were put in, whatever their types and order.

## 2. Modules

| module | models | state and actions |
|---|---|---|
| `UdsFraming` | how Send cuts and Receive assembles (operators, no state) | `PhOf`, `HdrOf`, `FragOf`, `Successor`: the datagrams of Send in order; `RxNext`, `Complete`, `RxFails`: one read of Receive, its success, its error returns |
| `MsgChannel` | what one direction of a socket pair promises | a FIFO of messages, a set of numbers whose least is the head: `Publish`, `Deliver`, `Drop`, `Reset`; a Send may `Fail`, and its message, if it has entered, may take those behind it: `Swallow`, `DeliverOver` |
| `UdsChannel` | one direction of a socket pair, the senders under `m_mutex`, one receiver | `BeginSend`/`RefuseSend` are the checks of Send, `Transmit` one sendto, `TransmitFails` its error at any datagram (also its cancellation by Server::Stop), `TxClose`/`TxOpen` the sender's socket, `Take` one recvfrom or read, `RxClose`/`RxOpen`/`RxRestart` the receiver's socket and thread |
| `RpcCalls` | what client and server promise a caller | calls, their outcomes and what was handled and answered: `Make`, `Handle`, `Answer`, `Succeed` |
| `UdsEndpoint` | objects of both sides over one path, in processes that crash | `OpenSocket`, `Bind`, `BindFails`, `OpenAgain` are OpenSocket with its unlink and its bind apart, `MakeTx` and `OpenSocketFails` its two calls of socket(), each of which may fail, `CloseSocket`, `Unlink` the same of CloseSocket, `Renew` the destructor and the next constructor, `Crash` |
| `UdsRpc` | client and server over both directions | `Call` .. `Return` are privateSendReceive from its first lock to its return (`Resume` tests `m_isResponseError`, `Return` reads it again), `ClientTake`, `CheckResult`, `Arrive`, `Store` are Client::Run, `ServerTake`, `BeginReply` are Server::Run, `BeginNote` is Notify and Ping, `SendRequest` and `ServerSend` one sendto; `Stop`, `EndRun`, `Start` are the cancellation of the request thread, its end and Server::Start |
| `MsgQueue` | MessageQueue and its notification threads | `Send`, `Receive` with and without time out, `Count`/`Drain`/`FoundEmpty` the loop of Receive of all (and `ClearOne` that of Clear), `ReadNotification` signalNotifyFunction, `Assign`, `TestMember`, `Register` and `SetMember`, `Test`, `Notify` SetNotifyMessage in its two callers: the member set, tested and handed to mq_notify |
| `MqLife` | MessageQueue objects in several processes over one name, with their file descriptors | `InitBad`, `UnlinkOld`, `Create`, `OpenUser` are Init; `Exist`, `SetNotifyMessage`, `UnsetNotifyMessage` what can end a registration; `Destroy`, `UnlinkName` the destructor; `Crash` |
| `SharedMem` | binding and locking of one name | `BindOwner`, `CreateShm`, `UnlinkSem`, `CreateSem` and `BindUser`, `OpenShm`, `OpenSem` the two ways to bind; `Enter`, `Wait`, `GetValue`, `Post` SharedLock; `LeaveShm`, `LeaveSem` the destructors; `Crash` |
| `ThreadLife` | one Thread object | `Start`, `Create`, `CreateFails` Thread::Start, `Cancel`, `Join`, `Joined`; `Begin`, `Return`, `Unwind`, `Erase` wrapperFunction and its clean-up handler |
| `TimeArith` | times (operators) | `MilliSleep` and the others with products of 32 bits, `timeAdd`, `Deadline` with a product of a `Long` |
| `ThreadAbs` | one ThreadAbstract with the derived class of its example, on top of `ThreadLife` | `StartThread`, `StopThread`, `SetExit`, `CancelThread`, `Initialize`, `Destroy`; `OnStart`, `TestExit`, `Look`, `Printed`, `Pause` the loop of Run, `UnwindRun` a cancellation in it; `LockToSet`, `SetSum` the application |
| `MutexUse` | Mutex and MutexLock in the two programs that try them | `Lock`, `ConditionWait`, `ConditionSignal`, `ConditionBroadcast`, `Unlock`, `Yield`; `UnwindInside`, `UnwindYield`, `UnwindDestructor`, `Cleanup` where a cancellation finds a thread; `StartNext` .. `MainUnlock` main |
| `ByteBuf` | one ByteBuffer and a reader, whose position (`After`) wraps around | `AppendInt` .. `AppendMap`, `AppendSelf`; `ValueInt` .. `ValueMap`; `Clear`, `SetPosition`, `Construct` |
| `MC*` | instances for TLC | model values for threads and processes |
| `*_proofs` | theorems | see section 5 |

`UdsChannel` and `UdsRpc` both stand on `UdsFraming`. `UdsChannel` studies one
direction with everything that can happen to it; `UdsRpc` composes two
directions with the threads and locks of both ends, with sockets that stay open
and system calls that do not fail: only Stop cuts a message there;
`UdsEndpoint` is the opening and closing of those. `MsgQueue` is what is in a
queue that stays open, `MqLife` the opening and closing. `ThreadAbs` extends
`ThreadLife` and `TimeArith`: whatever it does to the Thread is a step of
`ThreadLife` or none (`ImplementsThread`), and a Thread by itself is one of its
initial states, so one run checks both.

Abstractions. A byte received is named by the message, part and offset it came
from, so that mixing two messages is visible; application data never looks like
a protocol header. A body is its length, and what the application computes is
any length of a small set. In `UdsRpc` the application header is its type.
Semaphores and memory objects are numbered as they are made; the contents of the
memory are left out. In `UdsRpc` a request thread that waits for `m_mutex` and
one that is in the callback share a place. In `ByteBuf` an int and a char are
one unit each. The kernel (`Accept`, `RemoveHead`, bounded queues, what a
crash leaves) is modelled from its manual, as the code uses it. `CreateShm` is
one step for shm_open, ftruncate and mmap: the latter two touch what no other
process looks at before it has the memory. An operator
introduced as a mutant is a plausible bug of the action that follows it; no
specification uses it.

Histories (`outcome`, `delivered`, `lost`, `swallowed`, `calls`, `handled`, `received`,
`taken`, `refused`, `orphans`, `unbound`, `orderly`, `badGone`, `added`, `got`)
are recorded for properties and never read by a
guard, except as bounds and for the number of the next message.

## 3. Runs

| run | question | result |
|---|---|---|
| `channel` | with sendtos that fail anywhere, are messages sent with success whole and in order; is all that is not received accounted for; does Send return; is the channel a `MsgChannel`? | holds (100,672 states) |
| `rpc_quiet` | without notifications, are calls answered, one at a time, and does none hang; is it `RpcCalls`? (with the check for deadlock) | holds (13,538 states) |
| `rpc_notify` | with them, and a server that is stopped and started, are locks, wake-ups, requests and the stream to the client in order? | holds (3,208,946 states) |
| `rpc_response` | does SendReceive hand out the response? | `ResponseIsHandedOut` violated |
| `rpc_deadlock` | with notifications and small queues, does each call come back? | `CallReturns` violated |
| `endpoint` | do open ends lead to each other, are no receiving sockets forgotten, does opening succeed? | holds (102,347 states) |
| `queue` | is each message in one place, and is no arrival missed? | holds (255,468 states) |
| `mqlife` | are descriptors kept, does the owner have the name, is only who exists notified? | holds (236,020 states) |
| `shm` | is the semaphore binary, does the lock exclude up to signals, is it passed on? | holds (318,960 states) |
| `thread` | one thread at a time, exact map, Join final, Cancel and StopThread effective, the lock of the derived class released, pauses exact? | holds (77,060 states) |
| `mutex` | does the mutex exclude wherever threads are cancelled, and do the programs end? | holds (2,811 states) |
| `bytebuf` | do values come out as they were put in? | holds (105,856 states) |

Six configurations beside the runs show that the conditions in the properties are
needed. Each has the constants of a run (those of `SharedMem` and `UdsEndpoint` with
no more events than the one they are about), and TLC ends it in a violation of a
property that a comment of the code states.

| configuration | module | question | violated |
|---|---|---|---|
| `MCUdsChannelHalf.cfg` | `MCUdsChannel` | is whatever Receive returns the message of one Send (UnixDomainSocket.h:93)? | `ReceivedAsSent` |
| `MCUdsEndpointTx.cfg` | `MCUdsEndpoint` | has every open object a socket to send with (UnixDomainSocket.h:64)? | `OpenedCanSend` |
| `MCSharedMemSignal.cfg` | `MCSharedMem` | is memory locked when SharedLock's constructor ends (SharedLock.h:58), after a wait ended by a signal? | `FoundMemoryIsLocked` |
| `MCSharedMemRebind.cfg` | `MCSharedMem` | the same, after the owner has bound again? | `FoundMemoryIsLocked` |
| `MCSharedMemWindow.cfg` | `MCSharedMem` | the same, for whoever has the memory? | `MemoryIsLocked` |
| `MCByteBufSelf.cfg` | `MCByteBuf` | do values come out in their order (ByteBuffer.h:208) from a buffer added to itself? | `OrderIsKept` |

Bounds, and why they are enough.

- `channel`: two senders contend for the mutex; three messages let a second one
  follow a damaged first and a third show the order; bodies of 0 and 3 with
  fragments of 2 are an empty body, a full fragment and a shorter last one; a
  header too long; a limit that refuses the longer body, at either end; a queue
  of 2, shorter than a message, so that every Send blocks in the middle. Any sendto
  may fail, so a half message can be followed by two others, or by another half one.
- `rpc_quiet`: two callers and three calls, so that one call follows another of
  the same thread and one of the other thread; fragments of 1 and a queue of 2.
- `rpc_notify`: one caller, one notifier, two calls and two notifications, of
  the types 1 and 3, with a client limit that refuses the longer messages, and
  one Stop, wherever the request thread is. The calls are requests; `rpc_quiet`
  has the pings of type 2.
- `rpc_deadlock`: four notifications and three calls fill both queues and leave
  one message too many on each side.
- `endpoint`: two owners that take over from each other and one other end, two
  receiving sockets each, so that each opens again after it has closed or crashed,
  and two calls of socket() or bind that fail for a reason outside the program, such
  as both socket() of one OpenSocket.
- `queue`: room for two messages and three sent by two threads, so that a sender
  blocks, the queue becomes empty twice and two notification threads overlap;
  one signal, one change of handler.
- `mqlife`: three objects, two of them in one process, which then share its
  descriptors and its registration, each of them owner, user or badly named, one
  life after another; two queues, so that an old and a new one exist together.
- `shm`: one owner that binds twice and two users, five binds, one crash, one
  signal; a second owner would only add runs in which `O_EXCL` fails.
- `thread`: two controllers, one of which starts; two POSIX threads, so that the
  object is started again; one number that ends the thread and one that does
  not; words of 16 and pauses of 3 and 9 milliseconds of 2 units, so that the
  longer product wraps around and the shorter does not.
- `mutex`: three looping threads, of which one can be cancelled with the mutex,
  one in Yield and one in Lock at a time; two rounds.
- `bytebuf`: three values of any types; 12 values of an int and 64 of a size_t, so
  that 1 is kept, 5 stays positive, 20 is cut and turns negative; three of the
  longer values take the data past 12, where the position wraps around; a text with a
  NUL inside, an empty one, and one longer than the format's limit.

Deadlock is checked in `rpc_quiet` and `rpc_response`, where the system must
come to the end of its calls (`Finished`), and in `endpoint`, `mqlife` and
`bytebuf`, which never stop. Elsewhere it is off: a channel, queue, lock, thread
or program at rest at the end of its bounds may stop, a process may wait for
ever behind a crashed one, and with notifications the code can deadlock, which
`rpc_deadlock` states as a liveness property instead.

Fairness. A thread inside the library goes on: weak fairness of each step of a
Send, a Receive loop, a notification thread or a POSIX thread. In `UdsChannel`
the peer keeps calling Receive, as the loops of Run do; a socket may stay closed at
either end, then Send ends with an error (`SenderStep`). No sendto is made to fail
by fairness while both are open, and none is kept from failing. In `UdsRpc` a
server that was stopped is started again, a request thread that was cancelled ends, and weak
fairness of the mutexes suffices: the client's m_responseMutex is
wanted by one caller (who holds m_mutex) and one response thread, whose visits
are as many as the messages. In `SharedMem` sem_wait lets somebody in, not
everybody. In `ThreadLife` and `ThreadAbs` a plain thread that has a request to
cancel gets to a cancellation point of its Run; a SetSum that has the lock
finishes. `Look` of `ThreadAbs`, and the locking of `MutexUse`, have strong
fairness: a mutex that is free again and again is obtained by each who waits for
it, which is what the two examples rely on when they yield after each Unlock. No
fairness is assumed of the application's calls, nor of Join or Cancel being
called.

## 4. What the models show of the code

The runs `rpc_response` (1) and `rpc_deadlock` (2) end in violations, and so do the
six configurations beside the runs (3 to 8).

1. `Result` is TRUE on success (Result.cpp:91), and Client::Run (line 118) and
   privateSendReceive (line 81) test `m_isResponseError` as if it were TRUE on
   error. Every message received, of any type, takes the branch of a receive
   error: it wakes the caller, who returns success with no response. So the
   properties that hold of `UdsRpc` speak of arrivals, requests and locks, and
   `OkMeansAnswered` only holds without notifications.
2. The caller keeps `m_responseMutex` while Send blocks (line 52). The response
   thread needs it, so it stops reading, the server's notifier blocks in its
   Send with the server's `m_mutex`, the request thread waits for that mutex and
   stops reading, and the caller's Send never ends.
3. A sendto that fails with the peer bound, at UnixDomainSocket.cpp:139, 144 or 163
   (a signal while the peer's queue is full, no buffers, or a Stop that cancels it),
   leaves the peer half a message. Receive does not look at what it reads for the
   rest of it: the datagrams of the next message are taken for its header and
   fragments, and the mixture is returned with success. So `Intact` speaks of
   messages whose Send succeeded, and `NothingDisappears` counts those `swallowed`
   that stand behind a half one; the damage ends with the next message received.
4. The result of the socket() for sending is not tested (UnixDomainSocket.cpp:53):
   the object is open and can send nothing, and no second OpenSocket mends it. A
   socket() for receiving that fails is noticed by the bind, after the name has been
   unlinked (line 64), whoever had it.
5. Semaphore::Wait does not look at what sem_wait returns (Semaphore.cpp:89): a
   signal lets a process into the lock in which another is. It posts like any other
   when it leaves, and lets one more in: as long as processes keep coming there is one
   too many, which is what `LockExcludes` allows for every such wait.
6. An owner that binds again splits the processes over two memories and two
   semaphores (SharedMemory.cpp:67), and one that is between the two gets one of
   each: same memory, other lock. `LockExcludes` speaks of the time before.
7. A process that binds between the owner's shm_open and sem_open gets memory
   without a semaphore (SharedMemory.cpp:98), and its SharedLock does nothing;
   `LockExcludes` speaks of processes that have found the semaphore.
8. Append(*this) is given a reference to the buffer's data, to which the size has
   been added by then (ByteBuffer.cpp:119): what is behind is read from the wrong
   place. `ValuesComeInOrder` leaves buffers out that were added to themselves.

Other behaviours are steps of the models, and the properties are stated with
them as conditions:

- `m_isResponseError` is read twice, with the response thread writing it without a
  lock (UnixDomainSocketClient.cpp:81, 82, 117): a call whose answer has come in may
  return the error of a later Receive (`Return`).
- A notification thread registers the handler it has read before
  SetNotifyMessage(NULL) was called (MessageQueue.cpp:315-317), so that NULL is
  undone; SetNotifyMessage tests the member it has set (line 325), not its argument,
  so two calls at once may each do the other's half. `NoMissedArrival` speaks of a
  handler that stays set.
- Thread::Join and Cancel use a thread that may be gone; ThreadTest.cpp:46 and
  Thread.h:87-88 expect them to do nothing then. `Defined` becomes false, and
  the properties speak of the time before. Two threads that call Start of one
  object may both pass its test; `OneThread` speaks of one starter.
- A pthread_create that fails leaves the object active for ever.
- The destructor of a ThreadAbstract does not join (`RunOn`), and a cancellation
  in the printf of OnStop leaves a destructor (`OnStopCancelled`); nothing after
  these is defined, and `ThreadAbs` ends there.
- After a bind that failed a second OpenSocket returns success, and CloseSocket
  leaks both sockets. A CloseSocket cuts off another object of the same side
  that has taken the path over; `PeersAreConnected` speaks of objects of a side
  that follow one another.
- A queue's name that is refused leaves descriptor 0 in `m_messageQueue`, and
  the destructor closes it; `DescriptorsAreKept` holds until then.
- The condition waits of the examples have no predicate: a signal that comes
  first is missed, and `MainComesToEnd` says so. The Cleanup of MutexTest
  unlocks a mutex that the cancelled thread may not hold. A cancellation in the
  Yield of ~MutexLock ends a program compiled for C++11.
- MilliSleep multiplies in 32 bits: above about 4.29 seconds the pause is another
  one, though always a request that nanosleep accepts. The time out of a
  MessageQueue is a product of a long: where that has 32 bits, it is wrong above
  about 2.1 seconds, and negative, hence over at once, up to 4.29.
- ByteBuffer writes a size_t as an int; its position wraps around with 2^32 units of
  data; a vector taken out is appended to what it had.
- A Cleanup that prints (ThreadTest.cpp:21-25) can be cancelled itself, inside the
  clean-up handler. `Erase` takes one that cannot.

## 5. Proofs

All theorems are of the specifications that TLC checks, from the assumptions in
the modules: `FramingAssumption`, `ChannelAssumption`, `RpcAssumption`,
`EndpointAssumption`, `QueueAssumption`, `LifeAssumption`,
`SharedMemAssumption`, `ThreadAssumption`, `AbsAssumption`, `TimeAssumption`,
`MutexAssumption`, `BufferAssumption`, `SizeAssumption`. They say that lengths and
bounds are numbers, queues hold at least one entry, the protocol header is no longer
than an application header may be, the sides of a path have different objects, the objects of message queues are
finitely many and a process has room for a descriptor of each, units of time are
positive, there are at least three looping threads, as the waits of a broadcast
need, `Nobody` is no thread, and an int can count the elements of each text,
vector or map that is added to a buffer, as ByteBuffer.h:127 asks of its callers.
Where a theorem needs more of the constants, its own ASSUME says so.

- `UdsChannel_proofs`. `Intact`, `InOrder` and `OnlySentIsReceived` are not
  inductive: they say nothing of what is in flight. `InFlight` follows the
  stream from the receiver's queue to the datagram that the holder of `m_mutex`
  transmits next: each is followed by the next of its message or, when it is the
  last one or its Send has failed, by the first of a later message (`StreamInv`);
  one message is inside Send (`LockInv`, `HistoryInv`); and what was received comes
  before what is about to be read (`OrderInv`). `RxInv` is about what Receive holds.
  It is the beginning of a message (`InStep`), and the stream goes on with the
  next datagram of it, or, its Send having failed, with another message. From then
  on it is `Spoiled`: something in it is not of the message it began with, and
  stays there. The step that needs the most care is Take: a message whose Send
  succeeded is never spoiled and is complete exactly when its last datagram has
  been read; a spoiled one never equals what was sent, so a failed Send is not
  received as if it had succeeded.

  `NothingDisappears` and the refinement need `FlowInv` on top. A protocol header
  stands for its message: the message inside Send is accounted for exactly when
  its header is out (`AccountInv`), and the headers in the queue are in order,
  behind the message under reception (`SortedInv`), so that the message Receive
  completes or refuses is the least on its way, the head of the FIFO. `SwallowInv`
  has the one whose Send failed for every message that was swallowed, and nothing
  received in between. `ChannelImplementsMsgChannel` then maps the first datagram
  of a message to `Publish`, the last read of one to `Deliver`, a refusal, and the
  restart of the reading thread in the middle of a message, to `Drop`, the end of
  the socket to `Reset`, the error of a Send to `Fail`, a protocol header read in
  the place of another datagram to `Swallow`, or to `DeliverOver` when the mixture
  is complete with it, and everything else to a stutter. The fairness of
  `MsgChannel` is left to the run.

  Of `UdsEndpoint`, `SocketsAreNotLeaked` rests on `Bound`: a socket that is
  not open is being bound or could not be. `EndsAreConnected` rests on `Alone`:
  while the objects of a side follow one another, at most one of them is open or
  on its way, so nobody else's unlink falls between its own unlink and bind or
  after them; a socket to send with is there unless a call has failed.
  `OpeningSucceeds` takes both: with the name free at each bind, only a failure from
  outside makes one fail.
- `UdsRpc_proofs`. `LocksAreHeld` with the types of the control state is
  inductive: the three locks follow the places of the threads, those of a
  request thread that is being stopped included. `NoLostWakeup`
  adds that only `Arrive` and `Store` set the flag, and both signal.

  `TypeInv` types the rest: of a datagram it says which part of which message it
  is, of a Receive that it has all before the next part, of a thread that sends
  that what it sends is its own call's, and that only the latest call has no
  status. `MessagesStayApart` is about the queue to the client with the datagram
  that the holder of `m_mutex` sends next behind it (`Line`): it is a chain, each
  datagram followed by the next of its message or, after the last, by a first
  one. Run, Notify and Ping begin a message only when the line ends, for the lock
  is free. A Stop in the middle of a response leaves the rest of it out. The line
  is then `Joined` instead of a chain: a new message, or nothing, may come before
  the last is all out, and still no datagram of one message stands between two of
  another.

  `RequestsHandledOnce` is about the queue to the server with the caller that
  sends. `Ordered`: the requests handled, the one under reception and the headers
  in the line are in the order of the calls. `PipeLinked`: what Receive has begun
  goes on with the first datagram of the line. That is not enough for the second
  half, that none is lost: a server with a limit refuses a message and reads the
  rest of it as if it began another, and a Stop forgets what was read. `PipeIntact`
  therefore holds with no limit and no Stop: Receive always finds the datagram it
  waits for, and the requests seen are those that Send has not refused.

  `OneAtATime` and `SuccessIsAnswered` are proved for `Notifiers = {}` and
  `ClientLimit = 0`, and TLC refutes both properties when either is dropped: a
  notification sets the flag a caller waits for, and a refused response wakes its
  caller while the rest of it is still to come. With the hypotheses one call is
  under way at a time and is in one place (`Stage`): on its way to the server,
  with the server or on its way back, read and being looked at by the response
  thread, or answered with its caller about to resume. Between these there is one
  message in the two lines and the two Receives, and `isSuccess` stays true. Any
  number of callers and of Stops and any limit of the server are allowed: they may
  leave a caller waiting, but never answer it wrongly.

  `RpcImplementsRpcCalls` has the same hypotheses. The read that completes a
  request is `Handle`, the one that completes a response `Answer`, the end of a
  wait with an arrival `Succeed`. The stages say where a call is, not what has
  happened to it, so `CallInv` adds this: only the last call is open, and only
  while its caller is in it (or `Make` could overlap another call); an answer on
  its way has had its request handled; and while the caller waits and the
  response thread reads, no answer to the call has come in before. The run
  checks the rest of `ImplementsRpcCalls`, that each call does come back, which
  takes a server with no limit and no Stop.
- `MsgQueue_proofs`. `NoMissedArrival` needs `RegistersBeforeItLooks`: while
  nothing is registered, a notification thread is about to register, and it
  looks into the queue only after that. An arrival at an empty queue then finds
  a registration or such a thread, and a thread that finds the queue empty
  leaves a state in which there is nothing to miss.

  `NothingIsLost` needs in addition that no message is twice in the queue, with
  two senders or in two lists (`PlacesInv`), or else its removal from one place
  would not take it out of all; the kernel's removal of the head, which lets a
  waiting sender in, is a step from one place into another in each action.
- `MqLife_proofs`. The lowest free descriptor is a CHOOSE, so even the types rest
  on one being free. `TypeInv` therefore adds that a descriptor other than 0 that
  is taken is that of an open object of the process (`DescriptorsAreHeld`): there
  are more numbers than objects; the least of a set of numbers is found by the
  well-founded order of finite sets. `OwnersGetTheName` needs that owners do not
  overlap while `orderly`, so that an unlink takes away the name of the owner
  itself or of one that is gone (`OwnerInv`). `ObjectsKeepDescriptors` needs
  `KeptInv`: until an object with a refused name is destroyed, descriptor 0 is
  not an object's, an object has what it opened, and no two of a process have the
  same, so the close of a destructor takes no other object's queue away.
  `NoneIsNotifiedAfterItsEnd` needs that whoever is registered is open and its
  descriptor leads to the queue (`RegInv`): the destructor's close of that
  descriptor then ends the registration, as the crash of its process does.
- `SharedMem_proofs`. `SemaphoreIsBinary` is proved with what each holder has
  read of the value: who is about to post has read 0, and nobody else can have
  posted. `LocksExclude` counts (`CountInv`): the value of a semaphore and the
  processes in its lock are together at most one more than the waits that a signal
  has ended, for each of these lets in one and takes nothing from the value, and
  whoever posts adds at most what it leaves. Before an owner binds again, processes
  with the same memory and a semaphore have the same semaphore. `OwnersAreFound`
  follows an owner that is alone through Bind: after each unlink the name is
  free, after each creation it leads to what was made (`OwnerInv`), and a process
  that is no owner neither makes an object nor moves a name.
- `ThreadAbs_proofs`. First the Thread by itself, `LifeInv` (`LifeCorrect`):
  only the thread of the last Start is live, IsActive tells whether it is, or
  that pthread_create failed, and who has passed the test of Start has seen the
  last thread out. `ThreadAbstractImplementsThread`: each step of
  `ThreadAbs` is a step of `ThreadLife` or leaves the Thread alone, so
  `LifeCorrect` carries over, and with it `OneThread`, `MapIsExact` and the
  action property `JoinLeavesInactive`. `LockIsReleased` needs where each thread
  is in Run (`AbsTypeOK`): a cancelled one gives back the lock exactly in the
  two places where it has it. `SleepIsExact`, `DeadlineIsExact` and
  `PausesAreExact` are arithmetic for any units and any width of a word; a deadline
  is exact if the product fits into a positive long, and in the past if it does not
  and comes out negative.
- `MutexUse_proofs`. `Exclusion` needs `OneHasIt` (who is inside has the mutex,
  and a locked mutex has somebody inside) and `MainInOrder`: main starts only
  threads that are not running, which takes the count of those it has joined.
- `ByteBuf_proofs`. A position that wraps around stays inside the data
  (`TypeCorrect`): the remainder of a sum is at most the sum of one remainder and
  the other number (`MoreRemainder`). `ValuesComeInOrder` speaks of the value that
  was taken out last; to be inductive it needs what is in the buffer (`LayoutInv`):
  if an unsigned int can count the data and the buffer has not been added to itself
  (`Fits`), there are positions, each the end of the value before, where the values
  that were added stand in their order; the reader, and every mark it can go back
  to, is at one of them (`Layout`). An Append adds a position at the end and leaves
  the others (`AddsLayout`), a Value moves the reader to the next (`TakesLayout`).
  That it returns what was put there is a
  lemma for each type (`ReadText`, `ReadVector`, `ReadInt`, `ReadMap`), from the
  size in front of it: one an int can count is written as it is (`ToIntIs`), and
  a text is cut where it is written, at its first NUL or at the limit of the
  format, but not once more where it is read (`CutOnce`). A map is written in the
  order of its keys: they have one increasing enumeration, which is found by their
  ranks (`KeysAre`), each key has its value behind it, and so reading back takes
  no induction over the map.

Only model-checked: the liveness properties (`SendReturns`, `CallReturns`,
`EveryArrivalIsTaken`, `LockIsHandedOn`, `CancelledIsJoined`,
`StoppedThreadEnds`, `MainComesToEnd`) and, in `ImplementsMsgChannel` and
`ImplementsRpcCalls`, that a message or a call is not held for ever: fairness and
ENABLED are beyond the prover.

## 6. Not modelled, and the plan

Not modelled, and why.

- The start, stop and destructor of the client: they are private or run when
  nobody uses the object any more, so that a caller in the wait is outside the
  contract. `m_isActive` of the client is always TRUE.
- A failing ftruncate or mmap. SharedMemory.cpp prints the first and goes on, and
  does not test for the second (line 91), so that memory is used that is not there,
  which has no defined behaviour. The three calls with shm_open are one step.
- In `UdsRpc`, sockets that close and a sendto, recvfrom or read that fails:
  `UdsChannel` has them for each direction by itself. A Stop is the one thing that
  cuts a message there.
- Thread's Cleanup of an application as a place to be cancelled in.
- ByteBuffer's Dump and Print, and a Value beyond the end of the data, which has
  no defined behaviour.
- Result's formatting, names of threads, attributes of queues: values without
  behaviour. The one Result that threads share, `m_isResponseError`, is in
  `UdsRpc`.
- The examples' printing and timing, and the two-process session of
  MessageQueueTest, which makes the calls `MsgQueue` and `MqLife` make in any
  order. Build files.

What is left is proofs: `OneAtATime`, `SuccessIsAnswered` and
`RpcImplementsRpcCalls` with a client limit that requests exceed and responses
do not, which takes a set of sizes for each in `UdsRpc`.
