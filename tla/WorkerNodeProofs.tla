-------------------------- MODULE WorkerNodeProofs --------------------------
(***************************************************************************)
(* A kubo node is left with no connection nobody will close, for any       *)
(* number of handlers, messages and origins. It takes that a handler       *)
(* connects to the origins of its message only, that it disconnects from   *)
(* all of them whatever became of the others, and that a handler which is  *)
(* done has none. And a handler only comes closer to its end, counted in   *)
(* the steps it has left.                                                  *)
(***************************************************************************)
EXTENDS WorkerNode, TLAPS

\* A handler has no origins before its message, and neither connects to nor
\* disconnects others.
HandlerInv(h) ==
  /\ handler[h].pc = "idle" => handler[h].origins = <<>>
  /\ handler[h].pc \in {"addrs", "announce", "connect", "disconnect"} =>
       Range(handler[h].todo) \subseteq Range(handler[h].origins)

WorkerInv ==
  /\ WorkerTypeOK
  /\ \A h \in Handlers : HandlerInv(h)
  /\ PeersAreWanted

-----------------------------------------------------------------------------
\* The origins of a loop are the one it is at and those behind it.
LEMMA HeadAndTail ==
  ASSUME NEW S, NEW s \in Seq(S), s # <<>>
  PROVE  /\ Head(s) \in S /\ Tail(s) \in Seq(S)
         /\ Head(s) \in Range(s)
         /\ Range(Tail(s)) \subseteq Range(s)
         /\ \A o \in Range(s) : o = Head(s) \/ o \in Range(Tail(s))
<1>1. /\ Len(s) \in Nat \ {0}
      /\ Head(s) = s[1] /\ Tail(s) \in Seq(S)
      /\ Len(Tail(s)) = Len(s) - 1
      /\ \A i \in 1 .. Len(s) - 1 : Tail(s)[i] = s[i + 1]
      /\ \A i \in 1 .. Len(s) : s[i] \in S
  OBVIOUS
<1>2. /\ DOMAIN s = 1 .. Len(s)
      /\ DOMAIN Tail(s) = 1 .. Len(s) - 1
  BY <1>1
<1>3. Range(Tail(s)) \subseteq Range(s)
  BY <1>1, <1>2 DEF Range
<1>4. ASSUME NEW i \in 1 .. Len(s)
      PROVE  s[i] = Head(s) \/ s[i] \in Range(Tail(s))
  <2>1. CASE i = 1
    BY <1>1, <2>1
  <2>2. CASE i # 1
    <3>1. i - 1 \in 1 .. Len(s) - 1 /\ Tail(s)[i - 1] = s[i]
      BY <1>1, <2>2
    <3> QED
      BY <1>2, <3>1 DEF Range
  <2> QED
    BY <2>1, <2>2
<1> QED
  BY <1>1, <1>2, <1>3, <1>4 DEF Range

\* What is still wanted stays so when no handler gives up an origin that is
\* still connected.
LEMMA WantedKept ==
  ASSUME PeersAreWanted,
         \A o \in (peers \ refused)' : o \in peers \ refused,
         \A h \in Handlers : \A o \in (peers \ refused)' :
           WillDisconnect(h, o) => WillDisconnect(h, o)'
  PROVE  PeersAreWanted'
BY DEF PeersAreWanted

\* A worker that has exited has no connections.
LEMMA ExitInv ==
  ASSUME WorkerTypeOK, Exit
  PROVE  WorkerInv'
<1>1. WorkerTypeOK'
  BY WorkerNodeConstants DEF Exit, Exited, Idle, Handler, HandlerState,
    WorkerTypeOK
<1>2. \A h \in Handlers : HandlerInv(h)'
  BY DEF Exit, Idle, HandlerInv
<1> QED
  BY <1>1, <1>2 DEF Exit, WorkerInv, PeersAreWanted

\* The steps of the process, and a connection that drops, keep the handlers
\* as they are.
LEMMA ProcessInv ==
  ASSUME WorkerInv,
         \/ Restart \/ StartPolling \/ StartAttemptFails \/ StartFails
         \/ \E o \in Origins : ConnectionDrops(o)
         \/ UNCHANGED workerVars
  PROVE  WorkerInv'
<1>1. CASE StartFails
  BY <1>1, ExitInv DEF StartFails, WorkerInv
<1>2. CASE ~StartFails
  <2>1. /\ UNCHANGED handler
        /\ peers' \subseteq peers /\ refused' \subseteq peers'
        /\ (peers \ refused)' \subseteq peers \ refused
    BY <1>2 DEF Restart, StartPolling, StartAttemptFails, ConnectionDrops,
      workerVars, WorkerInv, WorkerTypeOK
  <2>2. process' \in [state : {"starting", "polling", "exited"},
                      tries : 0 .. Retries]
    BY <1>2, WorkerNodeConstants DEF Restart, StartPolling, StartAttemptFails,
      ConnectionDrops, workerVars, Starting, Polling, WorkerInv, WorkerTypeOK
  <2>3. WorkerTypeOK' /\ \A h \in Handlers : HandlerInv(h)'
    BY <2>1, <2>2 DEF WorkerInv, WorkerTypeOK, HandlerInv
  <2>4. PeersAreWanted'
    BY <2>1, WantedKept DEF WorkerInv, WillDisconnect, Has
  <2> QED
    BY <2>3, <2>4 DEF WorkerInv
<1> QED
  BY <1>1, <1>2

\* A step of one handler, which adds only connections it will close, and
\* gives up none but what is closed or refused.
LEMMA StepInv ==
  ASSUME WorkerInv, NEW h \in Handlers, NEW x \in Handler,
         handler' = [handler EXCEPT ![h] = x], UNCHANGED process,
         peers' \subseteq Origins, refused' \subseteq peers', HandlerInv(h)',
         \A o \in (peers \ refused)' :
           /\ o \in peers \ refused \/ WillDisconnect(h, o)'
           /\ WillDisconnect(h, o) => WillDisconnect(h, o)'
  PROVE  WorkerInv'
<1>. handler \in [Handlers -> Handler]
  BY DEF WorkerInv, WorkerTypeOK
<1>1. WorkerTypeOK'
  BY DEF WorkerInv, WorkerTypeOK
<1>2. \A k \in Handlers : k # h => handler'[k] = handler[k]
  OBVIOUS
<1>3. \A k \in Handlers : HandlerInv(k)'
  BY <1>2 DEF WorkerInv, HandlerInv
<1>4. ASSUME NEW o \in (peers \ refused)'
      PROVE  \E k \in Handlers : WillDisconnect(k, o)'
  <2>1. CASE WillDisconnect(h, o)'
    BY <2>1
  <2>2. CASE ~WillDisconnect(h, o)'
    <3>1. PICK k \in Handlers : WillDisconnect(k, o)
      BY <2>2 DEF WorkerInv, PeersAreWanted
    <3>2. k # h
      BY <2>2, <3>1
    <3> QED
      BY <1>2, <3>1, <3>2 DEF WillDisconnect, Has
  <2> QED
    BY <2>1, <2>2
<1> QED
  BY <1>1, <1>3, <1>4 DEF WorkerInv, PeersAreWanted

\* A step that only changes what the handler does next, and neither begins
\* the clean-up nor ends the loop in it too early.
LEMMA GotoInv ==
  ASSUME WorkerInv, NEW h \in Handlers, NEW from, NEW to \in HandlerState,
         Goto(h, from, to), UNCHANGED <<process, refused>>,
         peers' \subseteq peers \cup {o \in Origins : Has(h, o)},
         peers \subseteq peers',
         \/ /\ to \in {"fetch", "settle", "drop", "release"}
            /\ from # "disconnect"
         \/ /\ from \in {"addrs", "announce"}
            /\ to \in {"announce", "connect"}
            /\ peers' = peers
         \/ /\ from = "disconnect" /\ to = "gc"
            /\ handler[h].todo = <<>>
            /\ peers' = peers
  PROVE  WorkerInv'
<1>. DEFINE x == [handler[h] EXCEPT !.pc = to]
<1>1. handler \in [Handlers -> Handler]
  BY DEF WorkerInv, WorkerTypeOK
<1>2. /\ x \in Handler /\ handler' = [handler EXCEPT ![h] = x]
      /\ handler[h].pc = from
  BY <1>1 DEF Goto, At, Handler
<1>3. /\ handler'[h].pc = to /\ handler'[h].todo = handler[h].todo
      /\ handler'[h].origins = handler[h].origins
  BY <1>1, <1>2 DEF Handler
<1>4. peers' \subseteq Origins /\ refused' \subseteq peers'
  BY DEF WorkerInv, WorkerTypeOK
<1>5. HandlerInv(h)'
  BY <1>2, <1>3 DEF WorkerInv, HandlerInv
<1>6. ASSUME NEW o \in (peers \ refused)'
      PROVE  /\ o \in peers \ refused \/ WillDisconnect(h, o)'
             /\ WillDisconnect(h, o) => WillDisconnect(h, o)'
  <2>1. o \in peers \ refused \/ (Has(h, o) /\ peers' # peers)
    OBVIOUS
  <2>2. Range(<<>>) = {}
    BY DEF Range
  <2> QED
    BY <1>2, <1>3, <2>1, <2>2 DEF WillDisconnect, Has
<1> QED
  BY <1>2, <1>4, <1>5, <1>6, StepInv

-----------------------------------------------------------------------------
\* The steps up to the clean-up connect to origins of the message.
LEMMA WorkInv ==
  ASSUME WorkerInv, NEW h \in Handlers,
         \/ FindPublicMultiaddrs(h) \/ AddDelegates(h)
         \/ ConnectTimesOut(h) \/ StartFetch(h) \/ FetchEnds(h)
         \/ StartGc(h)
  PROVE  WorkerInv'
<1>1. CASE ConnectTimesOut(h)
  <2>. DEFINE todo == handler[h].todo
  <2>1. todo \in Seq(Origins) /\ todo # <<>> /\ handler[h].pc = "connect"
    BY <1>1 DEF ConnectTimesOut, Goto, At, WorkerInv, WorkerTypeOK, Handler
  <2>2. Head(todo) \in Origins /\ Has(h, Head(todo))
    BY <2>1, HeadAndTail DEF WorkerInv, HandlerInv, Has
  <2> QED
    BY <1>1, <2>2, GotoInv DEF ConnectTimesOut, NextOrigin, HandlerState
<1>2. CASE ~ConnectTimesOut(h)
  BY <1>2, GotoInv DEF FindPublicMultiaddrs, AddDelegates, StartFetch,
    FetchEnds, StartGc, HandlerState
<1> QED
  BY <1>1, <1>2

\* connectTo adds an origin the handler will disconnect.
LEMMA ConnectInv ==
  ASSUME WorkerInv, NEW h \in Handlers, ConnectTo(h)
  PROVE  WorkerInv'
<1>. DEFINE todo == handler[h].todo
            x == [handler[h] EXCEPT !.todo = Tail(todo)]
<1>. handler \in [Handlers -> Handler] /\ peers \subseteq Origins
  BY DEF WorkerInv, WorkerTypeOK
<1>1. todo \in Seq(Origins) /\ todo # <<>> /\ handler[h].pc = "connect"
  BY DEF ConnectTo, At, Handler
<1>2. /\ Head(todo) \in Origins /\ Has(h, Head(todo))
      /\ Tail(todo) \in Seq(Origins)
      /\ Range(Tail(todo)) \subseteq Range(todo)
  BY <1>1, HeadAndTail DEF WorkerInv, HandlerInv, Has
<1>3. x \in Handler /\ handler' = [handler EXCEPT ![h] = x]
  BY <1>2 DEF ConnectTo, PassOrigin, Handler
<1>4. /\ handler'[h].pc = "connect" /\ handler'[h].todo = Tail(todo)
      /\ handler'[h].origins = handler[h].origins
  BY <1>1, <1>3 DEF Handler
<1>5. /\ UNCHANGED <<process, refused>>
      /\ peers' \in {peers \cup {Head(todo)}, peers}
  BY DEF ConnectTo, NextOrigin
<1>6. HandlerInv(h)'
  BY <1>1, <1>2, <1>4 DEF WorkerInv, HandlerInv
<1>7. peers' \subseteq Origins /\ refused' \subseteq peers'
  BY <1>2, <1>5 DEF WorkerInv, WorkerTypeOK
<1>8. \A o \in (peers \ refused)' :
        /\ o \in peers \ refused \/ WillDisconnect(h, o)'
        /\ WillDisconnect(h, o) => WillDisconnect(h, o)'
  BY <1>1, <1>2, <1>4, <1>5 DEF WillDisconnect, Has
<1> QED
  BY <1>3, <1>5, <1>6, <1>7, <1>8, StepInv

\* The finally block starts with all origins of the message.
LEMMA CleanUpInv ==
  ASSUME WorkerInv, NEW h \in Handlers, NEW throws \in BOOLEAN,
         NEW from \in {"settle", "drop", "release"}, CleanUp(h, from, throws)
  PROVE  WorkerInv'
<1>. DEFINE x == [handler[h] EXCEPT !.pc = "disconnect",
                                    !.todo = handler[h].origins,
                                    !.throws = throws]
<1>. handler \in [Handlers -> Handler]
  BY DEF WorkerInv, WorkerTypeOK
<1>1. /\ x \in Handler /\ handler' = [handler EXCEPT ![h] = x]
      /\ UNCHANGED <<process, peers, refused>> /\ handler[h].pc = from
  BY DEF CleanUp, At, Handler, HandlerState
<1>2. /\ handler'[h].pc = "disconnect"
      /\ handler'[h].todo = handler[h].origins
      /\ handler'[h].origins = handler[h].origins
  BY <1>1 DEF Handler
<1>3. HandlerInv(h)'
  BY <1>2 DEF HandlerInv
<1>4. \A o : WillDisconnect(h, o) => WillDisconnect(h, o)'
  BY <1>1, <1>2 DEF WillDisconnect, Has
<1> QED
  BY <1>1, <1>3, <1>4, StepInv DEF WorkerInv, WorkerTypeOK

\* Disconnecting passes an origin that is then not connected, or refused.
LEMMA DisconnectInv ==
  ASSUME WorkerInv, NEW h \in Handlers, Disconnect(h)
  PROVE  WorkerInv'
<1>. DEFINE todo == handler[h].todo
            x == [handler[h] EXCEPT !.todo = Tail(todo)]
<1>. handler \in [Handlers -> Handler]
  BY DEF WorkerInv, WorkerTypeOK
<1>1. todo \in Seq(Origins) /\ todo # <<>> /\ handler[h].pc = "disconnect"
  BY DEF Disconnect, At, Handler
<1>2. /\ Tail(todo) \in Seq(Origins)
      /\ \A o \in Range(todo) : o = Head(todo) \/ o \in Range(Tail(todo))
      /\ Range(Tail(todo)) \subseteq Range(handler[h].origins)
  BY <1>1, HeadAndTail DEF WorkerInv, HandlerInv
<1>3. x \in Handler /\ handler' = [handler EXCEPT ![h] = x]
  BY <1>2 DEF Disconnect, PassOrigin, Handler
<1>4. /\ handler'[h].pc = "disconnect" /\ handler'[h].todo = Tail(todo)
      /\ handler'[h].origins = handler[h].origins
  BY <1>1, <1>3 DEF Handler
<1>5. /\ UNCHANGED process
      /\ peers' \subseteq peers /\ refused' \subseteq peers'
      /\ \A o \in (peers \ refused)' : o \in peers \ refused /\ o # Head(todo)
  BY DEF Disconnect, NextOrigin, WorkerInv, WorkerTypeOK
<1>6. HandlerInv(h)'
  BY <1>2, <1>4 DEF HandlerInv
<1>7. \A o \in (peers \ refused)' :
        WillDisconnect(h, o) => WillDisconnect(h, o)'
  BY <1>1, <1>2, <1>4, <1>5 DEF WillDisconnect
<1> QED
  BY <1>3, <1>5, <1>6, <1>7, StepInv DEF WorkerInv, WorkerTypeOK

\* A handler that starts, tries again, or ends has nothing to disconnect.
LEMMA OtherInv ==
  ASSUME WorkerInv, NEW h \in Handlers,
         \/ \E m \in Messages : ReceiveMessage(h, m)
         \/ TestIpfsApiThrows(h) /\ ~Exit
         \/ GcEnds(h) /\ ~Exit
  PROVE  WorkerInv'
<1>. handler \in [Handlers -> Handler]
  BY DEF WorkerInv, WorkerTypeOK
<1>. UNCHANGED <<process, peers, refused>>
  BY DEF ReceiveMessage, TestIpfsApiThrows, GcEnds
<1>1. CASE \E m \in Messages : ReceiveMessage(h, m)
  <2>1. PICK m \in Messages : ReceiveMessage(h, m)
    BY <1>1
  <2>. DEFINE x == [Idle EXCEPT !.pc = "addrs", !.origins = OriginsOf[m],
                                !.todo = OriginsOf[m]]
  <2>2. x \in Handler /\ handler' = [handler EXCEPT ![h] = x]
    <3>1. OriginsOf[m] \in Seq(Origins) /\ 0 \in 0 .. Retries
      BY WorkerNodeConstants
    <3>2. x \in Handler
      BY <3>1 DEF Idle, Handler, HandlerState
    <3> QED
      BY <2>1, <3>2 DEF ReceiveMessage
  <2>3. handler[h].pc = "idle" /\ handler[h].origins = <<>>
    BY <2>1 DEF ReceiveMessage, At, WorkerInv, HandlerInv
  <2>4. HandlerInv(h)'
    BY <2>2 DEF HandlerInv, Idle
  <2>5. \A o : WillDisconnect(h, o) => WillDisconnect(h, o)'
    BY <2>3 DEF WillDisconnect, Has, Range
  <2> QED
    BY <2>2, <2>4, <2>5, StepInv DEF WorkerInv, WorkerTypeOK
<1>2. CASE TestIpfsApiThrows(h) /\ ~Exit
  <2>. DEFINE x == [handler[h] EXCEPT !.tries = @ + 1]
  <2>1. /\ x \in Handler /\ handler' = [handler EXCEPT ![h] = x]
        /\ handler[h].pc = "addrs"
    <3>1. /\ handler[h].pc = "addrs" /\ handler[h].tries < Retries
          /\ handler' = [handler EXCEPT ![h].tries = @ + 1]
      BY <1>2 DEF TestIpfsApiThrows, At
    <3>2. handler[h].tries \in 0 .. Retries
      BY DEF Handler
    <3>3. handler[h].tries + 1 \in 0 .. Retries
      BY <3>1, <3>2, WorkerNodeConstants
    <3> QED
      BY <3>1, <3>3 DEF Handler
  <2>2. /\ handler'[h].pc = "addrs" /\ handler'[h].todo = handler[h].todo
        /\ handler'[h].origins = handler[h].origins
    BY <2>1 DEF Handler
  <2>3. HandlerInv(h)'
    BY <2>1, <2>2 DEF WorkerInv, HandlerInv
  <2>4. \A o : WillDisconnect(h, o) => WillDisconnect(h, o)'
    BY <2>1, <2>2 DEF WillDisconnect, Has
  <2> QED
    BY <2>1, <2>3, <2>4, StepInv DEF WorkerInv, WorkerTypeOK
<1>3. CASE GcEnds(h) /\ ~Exit
  <2>1. /\ Idle \in Handler /\ handler' = [handler EXCEPT ![h] = Idle]
        /\ handler[h].pc = "gc"
    BY <1>3, WorkerNodeConstants
    DEF GcEnds, Goto, At, Idle, Handler, HandlerState
  <2>2. HandlerInv(h)' /\ \A o : ~WillDisconnect(h, o)
    BY <2>1 DEF HandlerInv, WillDisconnect, Idle
  <2> QED
    BY <2>1, <2>2, StepInv DEF WorkerInv, WorkerTypeOK
<1> QED
  BY <1>1, <1>2, <1>3

LEMMA InitWorker ==
  ASSUME Init
  PROVE  WorkerInv
BY WorkerNodeConstants DEF Init, Starting, Idle, Handler, HandlerState,
  WorkerInv, WorkerTypeOK, HandlerInv, PeersAreWanted

LEMMA NextWorker ==
  ASSUME WorkerInv, [Next]_workerVars
  PROVE  WorkerInv'
<1>1. ASSUME NEW h \in Handlers, KuboAnswers(h) \/ Proceed(h)
      PROVE  WorkerInv'
  <2>1. CASE Exit
    BY <2>1, ExitInv DEF WorkerInv
  <2>2. CASE Settle(h)
    <3>1. CASE \E from \in {"settle", "drop", "release"}, throws \in BOOLEAN :
                 CleanUp(h, from, throws)
      BY <3>1, CleanUpInv
    <3>2. CASE Goto(h, "settle", "release") /\ UNCHANGED <<process, peers, refused>>
      BY <3>2, GotoInv DEF HandlerState
    <3> QED
      BY <2>2, <3>1, <3>2 DEF Settle
  <2>3. CASE ~Exit /\ ~Settle(h)
    BY <1>1, <2>3, WorkInv, ConnectInv, DisconnectInv, OtherInv
    DEF KuboAnswers, Proceed, AnnounceThrows, CleanUpTimesOut
  <2> QED
    BY <2>1, <2>2, <2>3
<1> QED
  BY <1>1, ProcessInv, OtherInv DEF Next

\* A node stays connected to an origin no longer than a handler is there
\* that will disconnect it, however jobs end and whatever origins they share.
THEOREM ConnectionsAreWanted == Spec => []PeersAreWanted
<1>1. WorkerInv /\ [Next]_workerVars => WorkerInv'
  BY NextWorker
<1>2. WorkerInv => PeersAreWanted
  BY DEF WorkerInv
<1> QED
  BY InitWorker, <1>1, <1>2, PTL DEF Spec

\* The types of a worker's handlers and of its node's connections.
THEOREM WorkerTypes == Spec => []WorkerTypeOK
<1>1. WorkerInv /\ [Next]_workerVars => WorkerInv'
  BY NextWorker
<1>2. WorkerInv => WorkerTypeOK
  BY DEF WorkerInv
<1> QED
  BY InitWorker, <1>1, <1>2, PTL DEF Spec

-----------------------------------------------------------------------------
(* How handlers end *)

\* The steps left of a handler with so many origins to reach, origins and
\* attempts, by what it is doing.
StepsByStage(H, todo, all, left) ==
  /\ H.pc = "idle" => StepsLeft(H) = 0
  /\ H.pc = "gc" => StepsLeft(H) = 1
  /\ H.pc = "disconnect" => StepsLeft(H) = 2 + todo
  /\ H.pc = "release" => StepsLeft(H) = 3 + all
  /\ H.pc \in {"settle", "drop"} => StepsLeft(H) = 4 + all
  /\ H.pc = "fetch" => StepsLeft(H) = 5 + all
  /\ H.pc = "connect" => StepsLeft(H) = 6 + todo + all
  /\ H.pc = "announce" => StepsLeft(H) = 7 + todo + all
  /\ H.pc = "addrs" => StepsLeft(H) = 8 + todo + all + left

Counted(H, todo, all, left) ==
  /\ todo = Len(H.todo) /\ all = Len(H.origins)
  /\ left = Retries - H.tries
  /\ StepsByStage(H, todo, all, left)

LEMMA StepsCounted ==
  ASSUME NEW H \in Handler
  PROVE  \E todo, all, left \in Nat : Counted(H, todo, all, left)
<1>1. /\ Len(H.todo) \in Nat /\ Len(H.origins) \in Nat
      /\ Retries - H.tries \in Nat
  BY WorkerNodeConstants DEF Handler
<1> QED
  BY <1>1 DEF Counted, StepsByStage, StepsLeft

\* A handler at work has a step left.
LEMMA BusyHasSteps ==
  ASSUME NEW H \in Handler
  PROVE  /\ StepsLeft(H) \in Nat
         /\ H.pc # "idle" => StepsLeft(H) >= 1
<1>. H.pc \in HandlerState
  BY DEF Handler
<1>1. PICK todo, all, left \in Nat : StepsByStage(H, todo, all, left)
  BY StepsCounted DEF Counted
<1>2. /\ 2 + todo \in Nat /\ 3 + all \in Nat /\ 4 + all \in Nat
      /\ 5 + all \in Nat /\ 6 + todo + all \in Nat
      /\ 7 + todo + all \in Nat /\ 8 + todo + all + left \in Nat
      /\ 2 + todo >= 1 /\ 3 + all >= 1 /\ 4 + all >= 1 /\ 5 + all >= 1
      /\ 6 + todo + all >= 1 /\ 7 + todo + all >= 1
      /\ 8 + todo + all + left >= 1
  OBVIOUS
<1> QED
  BY <1>1, <1>2 DEF StepsByStage, HandlerState

\* A step of a loop passes an origin, or uses up an attempt.
LEMMA LoopAdvances ==
  ASSUME NEW H \in Handler, NEW x \in Handler,
         x.pc = H.pc, x.origins = H.origins,
         \/ /\ H.pc \in {"connect", "disconnect"}
            /\ H.todo # <<>> /\ x.todo = Tail(H.todo)
         \/ /\ H.pc = "addrs"
            /\ x.todo = H.todo /\ x.tries = H.tries + 1
  PROVE  StepsLeft(x) < StepsLeft(H)
<1>1. PICK todo, all, left \in Nat : Counted(H, todo, all, left)
  BY StepsCounted
<1>2. PICK rest, every, less \in Nat : Counted(x, rest, every, less)
  BY StepsCounted
<1>3. every = all
  BY <1>1, <1>2 DEF Counted, StepsByStage
<1>4. CASE H.todo # <<>> /\ x.todo = Tail(H.todo)
             /\ H.pc \in {"connect", "disconnect"}
  <2>1. rest = todo - 1
    <3>1. H.todo \in Seq(Origins)
      BY DEF Handler
    <3>2. Len(Tail(H.todo)) = Len(H.todo) - 1
      BY <1>4, <3>1
    <3> QED
      BY <1>1, <1>2, <1>4, <3>2 DEF Counted, StepsByStage
  <2>2. CASE H.pc = "disconnect"
    <3>1. StepsLeft(H) = 2 + todo /\ StepsLeft(x) = 2 + rest
      BY <1>1, <1>2, <2>2 DEF Counted, StepsByStage
    <3> QED
      BY <2>1, <3>1
  <2>3. CASE H.pc = "connect"
    <3>1. /\ StepsLeft(H) = 6 + todo + all
          /\ StepsLeft(x) = 6 + rest + all
      BY <1>1, <1>2, <1>3, <2>3 DEF Counted, StepsByStage
    <3> QED
      BY <2>1, <3>1
  <2> QED
    BY <1>4, <2>2, <2>3
<1>5. CASE H.pc = "addrs" /\ x.todo = H.todo /\ x.tries = H.tries + 1
  <2>1. rest = todo /\ less = left - 1
    <3>1. H.tries \in Nat /\ Retries \in Nat
      BY WorkerNodeConstants DEF Handler
    <3> QED
      BY <1>1, <1>2, <1>5, <3>1 DEF Counted, StepsByStage
  <2>2. /\ StepsLeft(H) = 8 + todo + all + left
        /\ StepsLeft(x) = 8 + rest + all + less
    BY <1>1, <1>2, <1>3, <1>5 DEF Counted, StepsByStage
  <2> QED
    BY <2>1, <2>2
<1> QED
  BY <1>4, <1>5

\* A handler that goes on to the next stage has fewer steps left.
LEMMA StageAdvances ==
  ASSUME NEW H \in Handler, NEW x \in Handler, x.origins = H.origins,
         \/ /\ x.todo = H.todo
            /\ \/ H.pc = "addrs" /\ x.pc = "announce"
               \/ H.pc = "announce" /\ x.pc = "connect"
               \/ H.pc = "connect" /\ x.pc \in {"fetch", "release"}
               \/ H.pc = "fetch" /\ x.pc \in {"settle", "drop", "release"}
               \/ H.pc = "settle" /\ x.pc = "release"
               \/ H.pc = "disconnect" /\ x.pc = "gc"
         \/ /\ H.pc \in {"settle", "drop", "release"}
            /\ x.pc = "disconnect" /\ x.todo = x.origins
         \/ H.pc = "gc" /\ x.pc = "idle"
  PROVE  StepsLeft(x) < StepsLeft(H)
<1>1. PICK todo, all, left \in Nat : Counted(H, todo, all, left)
  BY StepsCounted
<1>2. PICK rest, every, less \in Nat : Counted(x, rest, every, less)
  BY StepsCounted
<1>3. every = all
  BY <1>1, <1>2 DEF Counted, StepsByStage
<1>4. /\ 7 + todo + all < 8 + todo + all + left
      /\ 6 + todo + all < 7 + todo + all
      /\ 5 + all < 6 + todo + all /\ 3 + all < 6 + todo + all
      /\ 4 + all < 5 + all /\ 3 + all < 5 + all /\ 3 + all < 4 + all
      /\ 2 + all < 4 + all /\ 2 + all < 3 + all
      /\ 1 < 2 + todo /\ 0 < 1
  OBVIOUS
<1>5. CASE x.todo = H.todo
             /\ \/ H.pc = "addrs" /\ x.pc = "announce"
                \/ H.pc = "announce" /\ x.pc = "connect"
                \/ H.pc = "connect" /\ x.pc \in {"fetch", "release"}
                \/ H.pc = "fetch" /\ x.pc \in {"settle", "drop", "release"}
                \/ H.pc = "settle" /\ x.pc = "release"
                \/ H.pc = "disconnect" /\ x.pc = "gc"
  <2>1. rest = todo
    BY <1>1, <1>2, <1>5 DEF Counted, StepsByStage
  <2> QED
    BY <1>1, <1>2, <1>3, <1>4, <1>5, <2>1 DEF Counted, StepsByStage
<1>6. CASE /\ H.pc \in {"settle", "drop", "release"}
           /\ x.pc = "disconnect" /\ x.todo = x.origins
  <2>1. rest = all
    BY <1>2, <1>3, <1>6 DEF Counted, StepsByStage
  <2> QED
    BY <1>1, <1>2, <1>4, <1>6, <2>1 DEF Counted, StepsByStage
<1>7. CASE H.pc = "gc" /\ x.pc = "idle"
  BY <1>1, <1>2, <1>4, <1>7 DEF Counted, StepsByStage
<1> QED
  BY <1>5, <1>6, <1>7

\* A step of a handler that does not end the task: no other handler moves,
\* and it has fewer steps left.
LEMMA StepAdvances ==
  ASSUME WorkerTypeOK, WorkerTypeOK', NEW h \in Handlers,
         KuboAnswers(h) \/ Proceed(h), ~Exit
  PROVE  /\ \A k \in Handlers : k # h => handler'[k] = handler[k]
         /\ StepsLeft(handler'[h]) < StepsLeft(handler[h])
<1>. DEFINE H == handler[h]
            x == handler'[h]
<1>. /\ handler \in [Handlers -> Handler]
     /\ handler' \in [Handlers -> Handler]
  BY DEF WorkerTypeOK
<1>1. ASSUME NEW from, NEW to, Goto(h, from, to)
      PROVE  /\ \A k \in Handlers : k # h => handler'[k] = handler[k]
             /\ H.pc = from /\ x.pc = to
             /\ x.todo = H.todo /\ x.origins = H.origins
  BY <1>1 DEF Goto, At, Handler
<1>2. ASSUME NEW throws, NEW from, CleanUp(h, from, throws)
      PROVE  /\ \A k \in Handlers : k # h => handler'[k] = handler[k]
             /\ H.pc = from /\ x.pc = "disconnect"
             /\ x.todo = x.origins /\ x.origins = H.origins
  BY <1>2 DEF CleanUp, At, Handler
<1>3. CASE ConnectTo(h) \/ Disconnect(h)
  <2>1. /\ \A k \in Handlers : k # h => handler'[k] = handler[k]
        /\ H.pc \in {"connect", "disconnect"} /\ x.pc = H.pc
        /\ H.todo # <<>> /\ x.todo = Tail(H.todo)
        /\ x.origins = H.origins
    BY <1>3 DEF ConnectTo, Disconnect, At, PassOrigin, Handler
  <2> QED
    BY <2>1, LoopAdvances
<1>4. CASE TestIpfsApiThrows(h)
  <2>1. /\ \A k \in Handlers : k # h => handler'[k] = handler[k]
        /\ H.pc = "addrs" /\ x.pc = "addrs" /\ x.tries = H.tries + 1
        /\ x.todo = H.todo /\ x.origins = H.origins
    BY <1>4 DEF TestIpfsApiThrows, At, Handler
  <2> QED
    BY <2>1, LoopAdvances
<1>5. CASE GcEnds(h)
  <2>1. /\ \A k \in Handlers : k # h => handler'[k] = handler[k]
        /\ H.pc = "gc" /\ x = Idle
    BY <1>5 DEF GcEnds, At, Handler
  <2>2. StepsLeft(x) = 0 /\ StepsLeft(H) = 1
    BY <2>1 DEF StepsLeft, Idle
  <2> QED
    BY <2>1, <2>2
<1>6. CASE FindPublicMultiaddrs(h) \/ AddDelegates(h) \/ ConnectTimesOut(h)
             \/ StartFetch(h) \/ FetchEnds(h) \/ StartGc(h)
  BY <1>1, <1>6, StageAdvances DEF FindPublicMultiaddrs, AddDelegates,
    ConnectTimesOut, StartFetch, FetchEnds, StartGc
<1>7. CASE Settle(h)
  BY <1>1, <1>2, <1>7, StageAdvances DEF Settle
<1> QED
  BY <1>3, <1>4, <1>5, <1>6, <1>7
  DEF KuboAnswers, Proceed, AnnounceThrows, CleanUpTimesOut

\* A handler that has started only comes closer to its end, whatever kubo and
\* AWS answer: it makes at most a number of steps known at its start.
THEOREM HandlersOnlyAdvance == Spec => HandlersAdvance
<1>1. ASSUME WorkerInv, [Next]_workerVars, NEW h \in Handlers,
             handler[h].pc # "idle", handler'[h] # handler[h]
      PROVE  StepsLeft(handler'[h]) \in 0 .. StepsLeft(handler[h]) - 1
  <2>1. WorkerTypeOK /\ WorkerTypeOK'
    BY <1>1, NextWorker DEF WorkerInv
  <2>2. handler[h] \in Handler /\ handler'[h] \in Handler
    BY <2>1 DEF WorkerTypeOK
  <2>3. /\ StepsLeft(handler[h]) \in Nat /\ StepsLeft(handler'[h]) \in Nat
        /\ StepsLeft(handler[h]) >= 1
    BY <1>1, <2>2, BusyHasSteps
  <2>4. StepsLeft(handler'[h]) < StepsLeft(handler[h])
    <3>1. CASE Exit
      <4>1. StepsLeft(handler'[h]) = 0
        BY <3>1 DEF Exit, Idle, StepsLeft
      <4> QED
        BY <2>3, <4>1
    <3>2. CASE ~Exit
      <4>1. PICK k \in Handlers :
              \/ \E m \in Messages : ReceiveMessage(k, m)
              \/ KuboAnswers(k) \/ Proceed(k)
        BY <1>1, <3>2 DEF Next, Restart, StartPolling, StartAttemptFails,
          StartFails, ConnectionDrops, workerVars
      <4>2. CASE \E m \in Messages : ReceiveMessage(k, m)
        BY <1>1, <2>1, <4>2 DEF ReceiveMessage, At, WorkerTypeOK
      <4>3. CASE KuboAnswers(k) \/ Proceed(k)
        BY <1>1, <2>1, <3>2, <4>3, StepAdvances
      <4> QED
        BY <4>1, <4>2, <4>3
    <3> QED
      BY <3>1, <3>2
  <2> QED
    BY <2>3, <2>4
<1>2. WorkerInv /\ [Next]_workerVars =>
        [\A h \in Handlers :
           handler[h].pc # "idle" /\ handler'[h] # handler[h] =>
             StepsLeft(handler'[h])
               \in 0 .. StepsLeft(handler[h]) - 1]_workerVars
  BY <1>1
<1>3. WorkerInv /\ [Next]_workerVars => WorkerInv'
  BY NextWorker
<1> QED
  BY InitWorker, <1>2, <1>3, PTL DEF Spec, HandlersAdvance
=============================================================================
