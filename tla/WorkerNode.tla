----------------------------- MODULE WorkerNode -----------------------------
(***************************************************************************)
(* One ECS task: a pickup process (pickup/index.js, pickup/lib/pickup.js)  *)
(* and the kubo node beside it, which its handlers share. The module has   *)
(* what MessageHandler leaves out of a job: the start of the process, the  *)
(* calls to kubo (pickup/lib/ipfs.js), the clean-up in the finally block,  *)
(* and what becomes of an error:                                           *)
(*                                                                         *)
(*   idle --> addrs --> announce --> connect --> fetch --> settle --\      *)
(*                                      \----------\--> drop --------\     *)
(*                                       \----------\-> release ------\    *)
(*                                         idle <-- gc <-- disconnect <    *)
(*                                                                         *)
(* A message no longer counts as in flight once its handler has deleted or *)
(* released it, so a next handler can start while this one cleans up.      *)
(* A connection a handler asked kubo for lasts until kubo is told to close *)
(* it, or until kubo or the origin drops it.                               *)
(***************************************************************************)
EXTENDS Naturals, Sequences, FiniteSets, Functions

CONSTANTS
  Messages,
  Origins,       \* multiaddrs of nodes that may have the content
  OriginsOf,     \* message -> the origins in its body
  Handlers,      \* the calls of messageHandler that may overlap
  MaxInFlight,   \* BATCH_SIZE
  Retries        \* 5: how often findPublicMultiaddrs tries again

ASSUME WorkerNodeConstants ==
  /\ OriginsOf \in [Messages -> Seq(Origins)]
  /\ MaxInFlight \in Nat \ {0} /\ Retries \in Nat

VARIABLES
  process,   \* the pickup process, and how often its start has tried kubo
  handler,   \* handler -> what it is doing
  peers,     \* the origins kubo was told to connect to, and still is
  refused    \* those of them that kubo refused to disconnect

workerVars == <<process, handler, peers, refused>>

HandlerState == {"idle", "addrs", "announce", "connect", "fetch", "settle",
                 "drop", "release", "disconnect", "gc"}

\* todo: the origins a loop has not reached. throws: an error is thrown
\* again when the finally block ends.
Handler == [pc      : HandlerState,
            origins : Seq(Origins),
            todo    : Seq(Origins),
            tries   : 0 .. Retries,
            throws  : BOOLEAN]

Starting == [state |-> "starting", tries |-> 0]
Polling == [state |-> "polling", tries |-> 0]
Exited == [state |-> "exited", tries |-> 0]

Idle == [pc |-> "idle", origins |-> <<>>, todo |-> <<>>,
         tries |-> 0, throws |-> FALSE]

WorkerTypeOK ==
  /\ process \in [state : {"starting", "polling", "exited"},
                  tries : 0 .. Retries]
  /\ handler \in [Handlers -> Handler]
  /\ peers \subseteq Origins /\ refused \subseteq peers

Init ==
  /\ process = Starting
  /\ handler = [h \in Handlers |-> Idle]
  /\ peers = {} /\ refused = {}

-----------------------------------------------------------------------------
At(h, pc) == process = Polling /\ handler[h].pc = pc

Goto(h, from, to) ==
  /\ At(h, from)
  /\ handler' = [handler EXCEPT ![h].pc = to]

\* The process ends and, being an essential container, its task with it.
Exit ==
  /\ process' = Exited
  /\ handler' = [h \in Handlers |-> Idle]
  /\ peers' = {} /\ refused' = {}

\* ECS starts a new task.
Restart ==
  /\ process = Exited
  /\ process' = Starting
  /\ UNCHANGED <<handler, peers, refused>>

\* pickup.start asks kubo for its addresses before it polls.
StartPolling ==
  /\ process.state = "starting"
  /\ process' = Polling
  /\ UNCHANGED <<handler, peers, refused>>

StartAttemptFails ==
  /\ process.state = "starting" /\ process.tries < Retries
  /\ process' = [process EXCEPT !.tries = @ + 1]
  /\ UNCHANGED <<handler, peers, refused>>

\* The last attempt failed, or kubo has no public address.
StartFails ==
  /\ process.state = "starting"
  /\ Exit

InFlight ==
  {h \in Handlers : handler[h].pc \notin {"idle", "disconnect", "gc"}}

\* Squiss delivers a message.
ReceiveMessage(h, m) ==
  /\ At(h, "idle")
  /\ Cardinality(InFlight) < MaxInFlight
  /\ handler' = [handler EXCEPT ![h] =
       [Idle EXCEPT !.pc = "addrs", !.origins = OriginsOf[m],
                    !.todo = OriginsOf[m]]]
  /\ UNCHANGED <<process, peers, refused>>

-----------------------------------------------------------------------------
\* kubo may leave a call without an answer for ever; each call to it has a
\* time limit, after which it throws.

FindPublicMultiaddrs(h) ==
  /\ Goto(h, "addrs", "announce")
  /\ UNCHANGED <<process, peers, refused>>

\* Mutation: the attempts are not counted.
TestIpfsApiForever(h) ==
  /\ At(h, "addrs")
  /\ handler' = [handler EXCEPT ![h].tries = @ + 1]
  /\ UNCHANGED <<process, peers, refused>>

\* testIpfsApi throws: it is tried again, and in the end the handler throws.
TestIpfsApiThrows(h) ==
  /\ At(h, "addrs")
  /\ \/ /\ handler[h].tries < Retries
        /\ handler' = [handler EXCEPT ![h].tries = @ + 1]
        /\ UNCHANGED <<process, peers, refused>>
     \/ handler[h].tries = Retries /\ Exit

\* kubo has no public address, or DynamoDB refuses the update: both throw
\* before the try block.
AnnounceThrows(h) ==
  /\ At(h, "addrs") \/ At(h, "announce")
  /\ Exit

AddDelegates(h) ==
  /\ Goto(h, "announce", "connect")
  /\ UNCHANGED <<process, peers, refused>>

NextOrigin(h) == Head(handler[h].todo)
PassOrigin(h) == [handler EXCEPT ![h].todo = Tail(@)]

\* connectTo: kubo connects to the next origin, or answers that it cannot,
\* which is logged.
ConnectTo(h) ==
  /\ At(h, "connect") /\ handler[h].todo # <<>>
  /\ handler' = PassOrigin(h)
  /\ peers' \in {peers \cup {NextOrigin(h)}, peers}
  /\ UNCHANGED <<process, refused>>

\* Mutation: the call to connect has no signal.
ConnectNeverTimesOut(h) == At(h, "idle") /\ Goto(h, "connect", "release")

\* The signal aborts the call, whatever kubo has done by then.
ConnectTimesOut(h) ==
  /\ handler[h].todo # <<>>
  /\ Goto(h, "connect", "release")
  /\ peers' \in {peers \cup {NextOrigin(h)}, peers}
  /\ UNCHANGED <<process, refused>>

StartFetch(h) ==
  /\ handler[h].todo = <<>>
  /\ Goto(h, "connect", "fetch")
  /\ UNCHANGED <<process, peers, refused>>

\* The fetch, upload, check and copy: CarAttempt.
FetchEnds(h) ==
  /\ \E to \in {"settle", "drop", "release"} : Goto(h, "fetch", to)
  /\ UNCHANGED <<process, peers, refused>>

-----------------------------------------------------------------------------
\* The finally block begins; an error of the catch block is kept for its end.
CleanUp(h, from, throws) ==
  /\ At(h, from)
  /\ handler' = [handler EXCEPT ![h].pc = "disconnect",
                                ![h].todo = handler[h].origins,
                                ![h].throws = throws]
  /\ UNCHANGED <<process, peers, refused>>

\* Mutation: the clean-up is in the try block.
SettleInTryBlock(h) ==
  \/ CleanUp(h, "settle", FALSE)
  \/ /\ \/ Goto(h, "settle", "release") \/ Goto(h, "drop", "gc")
        \/ Goto(h, "release", "gc")
     /\ UNCHANGED <<process, peers, refused>>

\* updatePinStatus and msg.del(), or msg.release(). What throws in the try
\* block ends up in the catch block; what throws there does so after clean-up.
Settle(h) ==
  \/ CleanUp(h, "settle", FALSE)
  \/ /\ Goto(h, "settle", "release")
     /\ UNCHANGED <<process, peers, refused>>
  \/ \E throws \in BOOLEAN :
       CleanUp(h, "drop", throws) \/ CleanUp(h, "release", throws)

\* kubo disconnects, or answers that it cannot, which is logged. It is the
\* connection of all handlers with this origin.
Disconnect(h) ==
  /\ At(h, "disconnect") /\ handler[h].todo # <<>>
  /\ handler' = PassOrigin(h)
  /\ \/ /\ peers' = peers \ {NextOrigin(h)}
        /\ refused' = refused \ {NextOrigin(h)}
     \/ /\ refused' = refused \cup (peers \cap {NextOrigin(h)})
        /\ UNCHANGED peers
  /\ UNCHANGED process

\* Mutation: the catch block takes what the clean-up throws.
CleanUpIsCaught(h) ==
  /\ (At(h, "disconnect") /\ handler[h].todo # <<>>) \/ At(h, "gc")
  /\ handler' = [handler EXCEPT ![h].pc = "release"]
  /\ UNCHANGED <<process, peers, refused>>

\* The signal aborts a call of the finally block: it throws.
CleanUpTimesOut(h) ==
  /\ (At(h, "disconnect") /\ handler[h].todo # <<>>) \/ At(h, "gc")
  /\ Exit

StartGc(h) ==
  /\ handler[h].todo = <<>>
  /\ Goto(h, "disconnect", "gc")
  /\ UNCHANGED <<process, peers, refused>>

\* kubo has collected its garbage, or answers that it cannot.
GcEnds(h) ==
  /\ At(h, "gc")
  /\ IF handler[h].throws
       THEN Exit
       ELSE /\ handler' = [handler EXCEPT ![h] = Idle]
            /\ UNCHANGED <<process, peers, refused>>

\* kubo or the origin drops a connection, and nobody is told.
ConnectionDrops(o) ==
  /\ o \in peers
  /\ peers' = peers \ {o} /\ refused' = refused \ {o}
  /\ UNCHANGED <<process, handler>>

KuboAnswers(h) ==
  \/ FindPublicMultiaddrs(h)
  \/ ConnectTo(h)
  \/ Disconnect(h)
  \/ GcEnds(h)

\* What happens although kubo does not answer.
Proceed(h) ==
  \/ TestIpfsApiThrows(h)
  \/ AnnounceThrows(h)
  \/ AddDelegates(h)
  \/ ConnectTimesOut(h)
  \/ StartFetch(h)
  \/ FetchEnds(h)
  \/ Settle(h)
  \/ CleanUpTimesOut(h)
  \/ StartGc(h)

Next ==
  \/ Restart
  \/ StartPolling
  \/ StartAttemptFails
  \/ StartFails
  \/ \E o \in Origins : ConnectionDrops(o)
  \/ \E h \in Handlers :
       \/ \E m \in Messages : ReceiveMessage(h, m)
       \/ KuboAnswers(h)
       \/ Proceed(h)

Spec == Init /\ [][Next]_workerVars

\* Calls time out, AWS answers or the SDK gives up, and a fetch ends, which
\* CarAttempt shows. kubo need not do anything.
FairSpec == Spec /\ \A h \in Handlers : WF_workerVars(Proceed(h))

-----------------------------------------------------------------------------
Has(h, o) == o \in Range(handler[h].origins)

\* The handler will still disconnect the origin.
WillDisconnect(h, o) ==
  \/ Has(h, o) /\ handler[h].pc \notin {"disconnect", "gc"}
  \/ handler[h].pc = "disconnect" /\ o \in Range(handler[h].todo)

(***************************************************************************)
(* A node stays connected to an origin no longer than a handler is there   *)
(* that will disconnect it, however jobs end and whatever origins they     *)
(* share, unless kubo refused to disconnect.                               *)
(***************************************************************************)
PeersAreWanted ==
  \A o \in peers \ refused : \E h \in Handlers : WillDisconnect(h, o)

(***************************************************************************)
(* How much a handler may still do: the calls of the loops it is in or has *)
(* before it, the attempts it has left, and the steps between.             *)
(***************************************************************************)
StepsLeft(H) ==
  LET todo == Len(H.todo)
      all == Len(H.origins)
      left == Retries - H.tries
  IN  CASE H.pc = "idle"               -> 0
        [] H.pc = "gc"                 -> 1
        [] H.pc = "disconnect"         -> 2 + todo
        [] H.pc = "release"            -> 3 + all
        [] H.pc \in {"settle", "drop"} -> 4 + all
        [] H.pc = "fetch"              -> 5 + all
        [] H.pc = "connect"            -> 6 + todo + all
        [] H.pc = "announce"           -> 7 + todo + all
        [] H.pc = "addrs"              -> 8 + todo + all + left

(***************************************************************************)
(* Whatever kubo or AWS answers to a handler, it comes closer to its end:  *)
(* no error of its try block, of its catch block or of its clean-up sends  *)
(* it back to work it has done, and no attempt is for free.                *)
(***************************************************************************)
HandlersAdvance ==
  [][ \A h \in Handlers :
        handler[h].pc # "idle" /\ handler'[h] # handler[h] =>
          StepsLeft(handler'[h]) \in 0 .. StepsLeft(handler[h]) - 1 ]_workerVars

\* Every handler ends, although kubo may never answer it again: a worker does
\* not run out of handlers.
HandlersEnd ==
  \A h \in Handlers : handler[h].pc # "idle" ~> handler[h].pc = "idle"
=============================================================================
