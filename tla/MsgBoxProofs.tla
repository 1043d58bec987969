---------------------------- MODULE MsgBoxProofs ----------------------------
(***************************************************************************)
(* Proofs about the relay session, for any number of starts and sockets.   *)
(***************************************************************************)
EXTENDS MsgBoxSession, FiniteSetTheorems, TLAPS

(* The type invariant, but for the count of the stops that are under way.  *)
Typed ==
  /\ ws \in Socket \cup {Null}
  /\ connected \in BOOLEAN /\ authenticated \in BOOLEAN
  /\ challengeSeen \in BOOLEAN /\ belated \in BOOLEAN /\ target \in BOOLEAN
  /\ decoding \subseteq Blob \X Socket
  /\ held \in BOOLEAN /\ loose \in Nat
  /\ opened \in 0..MaxSockets
  /\ sock \in [Socket -> {"none", "connecting", "open", "closing", "closed"}]
  /\ relay \in [Socket -> {"fresh", "unanswered", "answered", "accepted",
                           "confirmed"}]
  /\ call \in [StartCall -> {"idle", "waiting", "publishing", "done", "failed"}]
  /\ started \in BOOLEAN

LEMMA InitTyped == Init => Typed
<1> SUFFICES ASSUME Init PROVE Typed
  OBVIOUS
<1>1. ws \in Socket \cup {Null} /\ opened \in 0..MaxSockets /\ loose \in Nat
  BY BoundAssumption DEF Init
<1>2. /\ connected \in BOOLEAN /\ authenticated \in BOOLEAN
      /\ challengeSeen \in BOOLEAN /\ belated \in BOOLEAN
      /\ target \in BOOLEAN /\ held \in BOOLEAN
      /\ started \in BOOLEAN /\ decoding \subseteq Blob \X Socket
  BY DEF Init
<1>3. /\ sock \in [Socket -> {"none", "connecting", "open", "closing", "closed"}]
      /\ relay \in [Socket -> {"fresh", "unanswered", "answered", "accepted",
                               "confirmed"}]
  BY DEF Init
<1>4. call \in [StartCall -> {"idle", "waiting", "publishing", "done", "failed"}]
  BY DEF Init
<1> QED
  BY <1>1, <1>2, <1>3, <1>4 DEF Typed

(* A new socket is one of the sockets.                                     *)
LEMMA ConnectTyped ==
  ASSUME Typed, DoConnect
  PROVE  /\ opened' \in 0..MaxSockets /\ ws' \in Socket
         /\ sock' \in [Socket -> {"none", "connecting", "open", "closing",
                                  "closed"}]
         /\ sock' = [sock EXCEPT ![ws'] = "connecting"]
<1>1. opened + 1 \in Socket /\ opened' = opened + 1 /\ ws' = opened'
  BY BoundAssumption DEF Typed, DoConnect, Socket
<1> QED
  BY <1>1, BoundAssumption DEF Typed, DoConnect, Socket

LEMMA TimerTyped ==
  ASSUME Typed
  PROVE  /\ ScheduleReconnect => held' \in BOOLEAN /\ loose' \in Nat
         /\ \A b \in BOOLEAN : TimerElapses(b) => held' \in BOOLEAN /\ loose' \in Nat
         /\ \A b \in BOOLEAN : TimerThrows(b) => held' \in BOOLEAN /\ loose' \in Nat
<1>1. held \in BOOLEAN /\ loose \in Nat
  BY DEF Typed
<1>2. ASSUME ScheduleReconnect PROVE held' \in BOOLEAN /\ loose' \in Nat
  BY <1>1, <1>2 DEF ScheduleReconnect
<1>3. ASSUME NEW b \in BOOLEAN, TimerElapses(b)
      PROVE  held' \in BOOLEAN /\ loose' \in Nat
  <2>1. loose' \in Nat
    BY <1>1, <1>3 DEF TimerElapses
  <2>2. held' \in BOOLEAN
    BY <1>1, <1>3 DEF TimerElapses
  <2> QED
    BY <2>1, <2>2
<1>4. ASSUME NEW b \in BOOLEAN, TimerThrows(b)
      PROVE  held' \in BOOLEAN /\ loose' \in Nat
  <2>1. loose' \in Nat
    BY <1>1, <1>4 DEF TimerThrows, timers
  <2>2. held' \in BOOLEAN
    BY <1>1, <1>4 DEF TimerThrows, timers
  <2> QED
    BY <2>1, <2>2
<1> QED
  BY <1>2, <1>3, <1>4

(* What a socket delivers: text, or a Blob and later what was read of it.  *)
FrameStep(f, s) ==
  OnFrame(f, s) \/ OnBlob(f, s) \/ BlobDecoded(f, s) \/ BlobLost(f, s)

LEMMA FrameKeeps ==
  ASSUME NEW f \in Frame, NEW s \in Socket, FrameStep(f, s)
  PROVE  UNCHANGED <<ws, connected, target, timers, opened, sock, node>>
BY DEF FrameStep, OnFrame, OnBlob, BlobDecoded, BlobLost, HandleFrameText, flags

LEMMA SentTyped ==
  ASSUME Typed, NEW f \in Frame, NEW s \in Socket, Sends(f, s)
  PROVE  /\ SentOn(f, s) \in [Socket -> {"fresh", "unanswered", "answered",
                                         "accepted", "confirmed"}]
         /\ \A r \in Socket : r # s => SentOn(f, s)[r] = relay[r]
         /\ f = "auth_challenge" =>
              relay[s] = "fresh" /\ SentOn(f, s)[s] = "unanswered"
         /\ f # "auth_challenge" =>
              /\ relay[s] \in {"accepted", "confirmed"}
              /\ SentOn(f, s)[s] \in {"accepted", "confirmed"}
<1>1. CASE f = "auth_challenge"
  BY <1>1 DEF Typed, Sends, SentOn
<1>2. CASE f = "auth_success"
  BY <1>2 DEF Typed, Sends, SentOn
<1>3. CASE f = "envelope"
  BY <1>3 DEF Typed, Sends, SentOn
<1> QED
  BY <1>1, <1>2, <1>3 DEF Frame

LEMMA HandledTyped ==
  ASSUME Typed, NEW f \in Frame, NEW s \in Socket,
         NEW sent \in [Socket -> {"fresh", "unanswered", "answered", "accepted",
                                 "confirmed"}],
         HandleFrameText(f, s, sent)
  PROVE  /\ authenticated' \in BOOLEAN /\ challengeSeen' \in BOOLEAN
         /\ belated' \in BOOLEAN
         /\ relay' \in [Socket -> {"fresh", "unanswered", "answered",
                                  "accepted", "confirmed"}]
<1>1. CASE f = "auth_challenge"
  <2>1. HandleChallenge(s, sent)
    BY <1>1 DEF HandleFrameText
  <2>2. challengeSeen' \in BOOLEAN
    BY <2>1 DEF Typed, HandleChallenge
  <2>3. relay' \in [Socket -> {"fresh", "unanswered", "answered", "accepted",
                              "confirmed"}]
    BY <2>1 DEF HandleChallenge
  <2> QED
    BY <2>1, <2>2, <2>3 DEF Typed, HandleChallenge
<1>2. CASE f # "auth_challenge"
  <2>1. relay' = sent /\ challengeSeen' = challengeSeen
    BY <1>2 DEF HandleFrameText
  <2>2. \/ authenticated' = TRUE /\ belated' \in BOOLEAN
        \/ UNCHANGED <<authenticated, belated>>
    BY <1>2 DEF HandleFrameText, Authenticate
  <2> QED
    BY <2>1, <2>2 DEF Typed
<1> QED
  BY <1>1, <1>2

LEMMA FrameTyped ==
  ASSUME Typed, NEW f \in Frame, NEW s \in Socket, FrameStep(f, s)
  PROVE  /\ authenticated' \in BOOLEAN /\ challengeSeen' \in BOOLEAN
         /\ belated' \in BOOLEAN
         /\ relay' \in [Socket -> {"fresh", "unanswered", "answered",
                                  "accepted", "confirmed"}]
         /\ decoding' \subseteq Blob \X Socket
<1>1. CASE OnFrame(f, s)
  BY <1>1, SentTyped, HandledTyped DEF OnFrame, Typed
<1>2. CASE OnBlob(f, s)
  BY <1>2, SentTyped DEF OnBlob, Typed, flags
<1>3. CASE BlobDecoded(f, s)
  BY <1>3, HandledTyped DEF BlobDecoded, Typed
<1>4. CASE BlobLost(f, s)
  BY <1>4 DEF BlobLost, Typed, flags
<1> QED
  BY <1>1, <1>2, <1>3, <1>4 DEF FrameStep

LEMMA TypedStep == Typed /\ [Next]_vars => Typed'
<1> SUFFICES ASSUME Typed, [Next]_vars PROVE Typed'
  OBVIOUS
<1>1. ASSUME NEW s \in Socket, SocketStep(s) PROVE Typed'
  <2>1. CASE OnOpen(s)
    BY <2>1 DEF Typed, OnOpen, timers, wire, node
  <2>2. CASE RelayAccepts(s)
    BY <2>2 DEF Typed, RelayAccepts, flags, timers, node
  <2>3. CASE RelayDrops(s)
    BY <2>3 DEF Typed, RelayDrops, flags, timers, wire, node
  <2>4. CASE OnClose(s)
    <3>1. held' \in BOOLEAN /\ loose' \in Nat
      BY <2>4, TimerTyped DEF Typed, OnClose, timers
    <3> QED
      BY <2>4, <3>1 DEF Typed, OnClose, wire, node
  <2>5. ASSUME NEW f \in Frame, FrameStep(f, s) PROVE Typed'
    <3>1. UNCHANGED <<ws, connected, target, timers, opened, sock, node>>
      BY <2>5, FrameKeeps
    <3>2. /\ authenticated' \in BOOLEAN /\ challengeSeen' \in BOOLEAN
          /\ belated' \in BOOLEAN
          /\ relay' \in [Socket -> {"fresh", "unanswered", "answered",
                                   "accepted", "confirmed"}]
          /\ decoding' \subseteq Blob \X Socket
      BY <2>5, FrameTyped
    <3> QED
      BY <3>1, <3>2 DEF Typed, timers, node
  <2> QED
    BY <1>1, <2>1, <2>2, <2>3, <2>4, <2>5 DEF SocketStep, FrameStep
<1>2. ASSUME NEW b \in BOOLEAN,
             TimerConnects(b) \/ TimerFiresLate(b) \/ TimerThrows(b)
      PROVE  Typed'
  <2>1. held' \in BOOLEAN /\ loose' \in Nat
    BY <1>2, TimerTyped DEF TimerConnects, TimerFiresLate
  <2>2. CASE TimerConnects(b)
    BY <2>1, <2>2, ConnectTyped DEF Typed, TimerConnects, flags, wire, node
  <2>3. CASE TimerFiresLate(b)
    BY <2>1, <2>3 DEF Typed, TimerFiresLate, flags, wire, node
  <2>4. CASE TimerThrows(b)
    BY <2>1, <2>4 DEF Typed, TimerThrows, flags, wire, node
  <2> QED
    BY <1>2, <2>2, <2>3, <2>4
<1>3. ASSUME NEW i \in StartCall, StartStep(i) PROVE Typed'
  <2>1. CASE Start(i)
    BY <2>1, ConnectTyped DEF Typed, Start, flags, timers, wire
  <2>2. CASE StartThrows(i)
    BY <2>2, TimerTyped DEF Typed, StartThrows, flags, wire
  <2>3. CASE Ready(i) \/ NotReady(i)
    BY <2>3 DEF Typed, Ready, NotReady, flags, timers, wire
  <2>4. CASE Published(i) \/ NotPublished(i)
    BY <2>4 DEF Typed, Published, NotPublished, flags, timers, wire
  <2> QED
    BY <1>3, <2>1, <2>2, <2>3, <2>4 DEF StartStep
<1>4. CASE Stop
  BY <1>4 DEF Typed, Stop, flags, timers, wire
<1>5. CASE Stopped
  BY <1>5 DEF Typed, Stopped, Disconnect, wire
<1>6. CASE UNCHANGED vars
  BY <1>6 DEF Typed, vars
<1> QED
  BY <1>1, <1>2, <1>3, <1>4, <1>5, <1>6 DEF Next

-----------------------------------------------------------------------------
(* Stops.  A stop takes `started' away, and a start() that came to its end *)
(* gave it.                                                                *)

Done == {i \in StartCall : call[i] = "done"}
StopInv ==
  /\ stopping \in Nat
  /\ stopping + (IF started THEN 1 ELSE 0) <= Cardinality(Done)

LEMMA DoneType ==
  /\ IsFiniteSet(Done) /\ Cardinality(Done) \in Nat
  /\ Cardinality(Done) <= MaxStarts
<1>1. IsFiniteSet(StartCall) /\ Cardinality(StartCall) = MaxStarts
  BY BoundAssumption, FS_Interval DEF StartCall
<1>2. Done \in SUBSET StartCall
  BY DEF Done
<1> QED
  BY <1>1, <1>2, FS_Subset, FS_CardinalityType

LEMMA StopStep ==
  ASSUME Typed, StopInv, [Next]_vars
  PROVE  StopInv'
<1>1. ASSUME Done' = Done, stopping' = stopping, started' = started PROVE StopInv'
  <2>1. Cardinality(Done') = Cardinality(Done)
    BY <1>1
  <2> QED
    BY <1>1, <2>1 DEF StopInv
<1>2. ASSUME UNCHANGED <<call, stopping, started>> PROVE StopInv'
  BY <1>1, <1>2 DEF Done
<1>3. ASSUME NEW i \in StartCall, Published(i) PROVE StopInv'
  <2>1. Done' = Done \cup {i} /\ i \notin Done
    BY <1>3 DEF Typed, Published, Done
  <2>2. Cardinality(Done') = Cardinality(Done) + 1
    BY <2>1, DoneType, FS_AddElement
  <2> QED
    BY <1>3, <2>2, DoneType DEF StopInv, Published
<1>4. ASSUME NEW i \in StartCall, StartStep(i), ~Published(i) PROVE StopInv'
  <2>1. \A j \in StartCall : call'[j] = "done" <=> call[j] = "done"
    BY <1>4 DEF Typed, StartStep, Start, StartThrows, Ready, NotReady, NotPublished
  <2>2. Done' = Done
    BY <2>1 DEF Done
  <2>3. UNCHANGED <<stopping, started>>
    BY <1>4 DEF StartStep, Start, StartThrows, Ready, NotReady, NotPublished
  <2> QED
    BY <1>1, <2>2, <2>3
<1>5. CASE Stop \/ Stopped
  <2>1. Cardinality(Done') = Cardinality(Done)
    BY <1>5 DEF Stop, Stopped, Done
  <2>2. CASE Stop
    BY <2>1, <2>2, DoneType DEF Stop, StopInv
  <2>3. CASE Stopped
    BY <2>1, <2>3, DoneType DEF Stopped, StopInv
  <2> QED
    BY <1>5, <2>2, <2>3
<1>6. ASSUME NEW s \in Socket, SocketStep(s) PROVE StopInv'
  <2>1. ASSUME NEW f \in Frame, FrameStep(f, s) PROVE StopInv'
    BY <1>2, <2>1, FrameKeeps DEF node
  <2> QED
    BY <1>2, <1>6, <2>1
       DEF SocketStep, FrameStep, OnOpen, RelayAccepts, RelayDrops, OnClose, node
<1> QED
  BY <1>2, <1>3, <1>4, <1>5, <1>6
     DEF Next, TimerConnects, TimerFiresLate, TimerThrows, node, vars

LEMMA TypeInvariant == Spec => [](Typed /\ StopInv)
<1>1. Init => Typed /\ StopInv
  <2>1. Init => Done = {}
    BY DEF Init, Done
  <2>2. Init => StopInv
    BY <2>1, FS_EmptySet DEF Init, StopInv
  <2> QED
    BY <2>2, InitTyped
<1>2. Typed /\ StopInv /\ [Next]_vars => Typed' /\ StopInv'
  BY TypedStep, StopStep
<1> QED
  BY <1>1, <1>2, PTL DEF Spec

(* The session keeps its types; there are never more stops under way than  *)
(* starts that came to their end.                                          *)
THEOREM TypeCorrect == Spec => []TypeOK
<1>1. Typed /\ StopInv => TypeOK
  <2> SUFFICES ASSUME Typed, StopInv PROVE stopping \in 0..MaxStarts
    BY DEF Typed, TypeOK
  <2>1. stopping \in Nat /\ stopping <= Cardinality(Done)
    BY DoneType DEF StopInv
  <2> QED
    BY <2>1, DoneType, BoundAssumption
<1> QED
  BY <1>1, TypeInvariant, PTL

-----------------------------------------------------------------------------
(* The flag and the session.                                               *)

(* A Blob that is being read was sent by a relay that had come so far.     *)
BlobInv ==
  \A f \in Frame, s \in Socket : <<f, s>> \in decoding =>
    relay[s] \in IF f = "auth_challenge" THEN {"unanswered"}
                                         ELSE {"accepted", "confirmed"}

(* Before the first text of a Blob is handled too late, the flag stands    *)
(* for a socket that lives.                                                *)
Accepted(s) == relay[s] \in {"accepted", "confirmed"}
FlagInv ==
  /\ authenticated => \E r \in Socket : Accepted(r)
  /\ authenticated /\ ~belated => \E r \in Alive : Accepted(r)
SessionInv == BlobInv /\ FlagInv

LEMMA FlagInvMeaning == FlagInv <=> AuthenticatedHasSession
<1>1. Alive \subseteq Socket
  BY DEF Alive
<1> QED
  BY <1>1 DEF FlagInv, AuthenticatedHasSession, Accepted

(* A text of socket s keeps what the relay has accepted, and sets the flag *)
(* for a frame of an accepted socket only.                                 *)
LEMMA HandledKeeps ==
  ASSUME Typed, SessionInv, NEW f \in Frame, NEW s \in Socket,
         NEW sent \in [Socket -> {"fresh", "unanswered", "answered", "accepted",
                                 "confirmed"}],
         \A r \in Socket : r # s => sent[r] = relay[r],
         Accepted(s) => sent[s] \in {"accepted", "confirmed"},
         f = "auth_challenge" => ~Accepted(s),
         f # "auth_challenge" => sent[s] \in {"accepted", "confirmed"},
         HandleFrameText(f, s, sent)
  PROVE  /\ FlagInv'
         /\ \A r \in Socket : r # s => relay'[r] = relay[r]
         /\ Accepted(s) => Accepted(s)'
<1>1. Alive' = Alive /\ Alive \subseteq Socket
  BY DEF HandleFrameText, Alive
<1>2. \A r \in Socket : r # s => relay'[r] = relay[r]
  BY DEF HandleFrameText, HandleChallenge
<1>3. Accepted(s) => Accepted(s)'
  BY DEF HandleFrameText, Accepted
<1>4. \A r \in Socket : Accepted(r) => Accepted(r)'
  BY <1>2, <1>3 DEF Accepted
<1>5. ASSUME UNCHANGED <<authenticated, belated>> PROVE FlagInv'
  BY <1>1, <1>4, <1>5 DEF SessionInv, FlagInv, Accepted
<1>6. ASSUME ~UNCHANGED <<authenticated, belated>> PROVE FlagInv'
  <2>1. f # "auth_challenge" /\ Authenticate(s) /\ relay' = sent
    BY <1>6 DEF HandleFrameText, HandleChallenge
  <2>2. Accepted(s)'
    BY <2>1 DEF Accepted
  <2>3. CASE belated'
    <3>1. \E r \in Socket : Accepted(r)'
      BY <2>2
    <3> QED
      BY <2>3, <3>1 DEF FlagInv
  <2>4. CASE ~belated'
    <3>1. s \in Alive \/ (authenticated /\ ~belated)
      <4>1. ~(s \notin Alive /\ (belated \/ ~authenticated))
        BY <2>1, <2>4 DEF Authenticate
      <4> QED
        BY <4>1 DEF Typed
    <3>2. \E r \in Alive : Accepted(r)'
      BY <1>1, <1>4, <2>2, <3>1 DEF SessionInv, FlagInv
    <3> QED
      BY <1>1, <3>2 DEF FlagInv
  <2> QED
    BY <2>3, <2>4
<1> QED
  BY <1>2, <1>3, <1>5, <1>6

LEMMA FrameKeepsSession ==
  ASSUME Typed, SessionInv, NEW f \in Frame, NEW s \in Socket, FrameStep(f, s)
  PROVE  SessionInv'
<1>1. CASE OnFrame(f, s)
  <2>1. /\ FlagInv'
        /\ \A r \in Socket : r # s => relay'[r] = relay[r]
        /\ Accepted(s) => Accepted(s)'
    BY <1>1, SentTyped, HandledKeeps DEF OnFrame, Accepted
  <2>2. relay[s] # "unanswered" /\ decoding' = decoding
    BY <1>1, SentTyped DEF OnFrame
  <2>3. BlobInv'
    BY <2>1, <2>2 DEF SessionInv, BlobInv, Accepted
  <2> QED
    BY <2>1, <2>3 DEF SessionInv
<1>2. CASE OnBlob(f, s)
  <2>1. /\ relay' = SentOn(f, s) /\ Sends(f, s)
        /\ decoding' = decoding \cup {<<f, s>>}
        /\ UNCHANGED <<authenticated, belated, sock>>
    BY <1>2 DEF OnBlob, flags
  <2>2. \A r \in Socket : Accepted(r) => Accepted(r)'
    BY <2>1, SentTyped DEF Accepted
  <2>3. FlagInv'
    BY <2>1, <2>2 DEF SessionInv, FlagInv, Alive
  <2>4. ASSUME NEW g \in Frame, NEW r \in Socket, <<g, r>> \in decoding'
        PROVE  relay'[r] \in IF g = "auth_challenge" THEN {"unanswered"}
                                                    ELSE {"accepted", "confirmed"}
    <3>1. CASE r = s /\ g = f
      BY <2>1, <3>1, SentTyped
    <3>2. CASE r = s /\ g # f
      BY <2>1, <2>2, <2>4, <3>2, SentTyped DEF SessionInv, BlobInv, Accepted
    <3>3. CASE r # s
      BY <2>1, <2>4, <3>3, SentTyped DEF SessionInv, BlobInv
    <3> QED
      BY <3>1, <3>2, <3>3
  <2> QED
    BY <2>3, <2>4 DEF SessionInv, BlobInv
<1>3. CASE BlobDecoded(f, s)
  <2>1. /\ HandleFrameText(f, s, relay) /\ <<f, s>> \in decoding
        /\ decoding' = decoding \ {<<f, s>>}
    BY <1>3 DEF BlobDecoded
  <2>2. /\ f = "auth_challenge" => relay[s] = "unanswered"
        /\ f # "auth_challenge" => Accepted(s)
    BY <2>1 DEF SessionInv, BlobInv, Accepted
  <2>3. relay \in [Socket -> {"fresh", "unanswered", "answered", "accepted",
                             "confirmed"}]
    BY DEF Typed
  <2>4. /\ FlagInv'
        /\ \A r \in Socket : r # s => relay'[r] = relay[r]
        /\ Accepted(s) => Accepted(s)'
    BY <2>1, <2>2, <2>3, HandledKeeps DEF Accepted
  <2>5. f # "auth_challenge" => relay' = relay
    BY <2>1 DEF HandleFrameText
  <2>6. BlobInv'
    BY <2>1, <2>2, <2>4, <2>5 DEF SessionInv, BlobInv, Accepted
  <2> QED
    BY <2>4, <2>6 DEF SessionInv
<1>4. CASE BlobLost(f, s)
  BY <1>4 DEF BlobLost, flags, SessionInv, BlobInv, FlagInv, Accepted, Alive
<1> QED
  BY <1>1, <1>2, <1>3, <1>4 DEF FrameStep

LEMMA SessionStep ==
  ASSUME Typed, SessionInv, [Next]_vars
  PROVE  SessionInv'
<1>1. ASSUME UNCHANGED wire,
             authenticated' => authenticated /\ belated' = belated,
             authenticated' => \A s \in Alive : Accepted(s) => s \in Alive'
      PROVE  SessionInv'
  <2>1. BlobInv'
    BY <1>1 DEF SessionInv, BlobInv, wire
  <2>2. FlagInv'
    BY <1>1 DEF SessionInv, FlagInv, Accepted, wire
  <2> QED
    BY <2>1, <2>2 DEF SessionInv
<1>2. ASSUME NEW s \in Socket, SocketStep(s) PROVE SessionInv'
  <2>1. CASE OnOpen(s) \/ RelayDrops(s)
    BY <1>1, <2>1 DEF Typed, OnOpen, RelayDrops, Alive, flags
  <2>2. CASE OnClose(s)
    BY <1>1, <2>2 DEF OnClose
  <2>3. CASE RelayAccepts(s)
    <3>1. /\ UNCHANGED <<authenticated, belated, sock, decoding>>
          /\ relay' = [relay EXCEPT ![s] = "accepted"] /\ relay[s] = "answered"
      BY <2>3 DEF RelayAccepts, flags
    <3>2. \A r \in Socket : Accepted(r) => Accepted(r)'
      BY <3>1 DEF Typed, Accepted
    <3>3. FlagInv'
      BY <3>1, <3>2 DEF SessionInv, FlagInv, Alive
    <3>4. BlobInv'
      BY <3>1 DEF Typed, SessionInv, BlobInv
    <3> QED
      BY <3>3, <3>4 DEF SessionInv
  <2>4. ASSUME NEW f \in Frame, FrameStep(f, s) PROVE SessionInv'
    BY <2>4, FrameKeepsSession
  <2> QED
    BY <1>2, <2>1, <2>2, <2>3, <2>4 DEF SocketStep, FrameStep
<1>3. ASSUME DoConnect, UNCHANGED <<flags, wire>> PROVE SessionInv'
  BY <1>1, <1>3, ConnectTyped DEF Typed, flags, Alive
<1>4. ASSUME UNCHANGED <<flags, sock, wire>> PROVE SessionInv'
  BY <1>1, <1>4 DEF flags, Alive
<1>5. ASSUME NEW i \in StartCall, StartStep(i) PROVE SessionInv'
  BY <1>3, <1>4, <1>5 DEF StartStep, Start, StartThrows, Ready, NotReady,
     Published, NotPublished
<1>6. CASE Stopped
  BY <1>1, <1>6 DEF Stopped, Disconnect
<1>7. CASE UNCHANGED vars
  BY <1>4, <1>7 DEF vars, flags, wire
<1> QED
  BY <1>2, <1>3, <1>4, <1>5, <1>6, <1>7
     DEF Next, TimerConnects, TimerFiresLate, TimerThrows, Stop

LEMMA SessionInvariant == Spec => []SessionInv
<1>1. Init => SessionInv
  BY DEF Init, SessionInv, BlobInv, FlagInv
<1> QED
  BY <1>1, SessionStep, TypeInvariant, PTL DEF Spec

(* Whoever sees `authenticated' has the relay's acceptance of a socket,    *)
(* which has not closed unless a Blob was read too late.                   *)
THEOREM FlagHasSession == Spec => []AuthenticatedHasSession
BY SessionInvariant, FlagInvMeaning, PTL DEF SessionInv

(* Where every frame that can set the flag comes as text, none is handled  *)
(* too late: the flag always stands for a socket that lives.               *)
TextOnly == Blob \subseteq {"auth_challenge"}
LiveSession ==
  authenticated => \E s \in Alive : relay[s] \in {"accepted", "confirmed"}

LEMMA TextStep ==
  ASSUME TextOnly, Typed, ~belated, [Next]_vars
  PROVE  ~belated'
<1>1. ASSUME NEW f \in Frame, NEW s \in Socket, FrameStep(f, s) PROVE ~belated'
  <2>1. CASE OnFrame(f, s)
    <3>1. s \in Alive
      BY <2>1 DEF OnFrame, Sends, Alive
    <3> QED
      BY <2>1, <3>1 DEF OnFrame, HandleFrameText, HandleChallenge, Authenticate
  <2>2. CASE BlobDecoded(f, s)
    <3>1. f = "auth_challenge"
      BY <2>2 DEF BlobDecoded, Typed, TextOnly
    <3> QED
      BY <2>2, <3>1 DEF BlobDecoded, HandleFrameText, HandleChallenge
  <2>3. CASE OnBlob(f, s) \/ BlobLost(f, s)
    BY <2>3 DEF OnBlob, BlobLost, flags
  <2> QED
    BY <1>1, <2>1, <2>2, <2>3 DEF FrameStep
<1>2. ASSUME NEW s \in Socket, SocketStep(s) PROVE ~belated'
  BY <1>1, <1>2
     DEF SocketStep, FrameStep, OnOpen, RelayAccepts, RelayDrops, OnClose, flags
<1> QED
  BY <1>2 DEF Next, TimerConnects, TimerFiresLate, TimerThrows, StartStep, Start,
     StartThrows, Ready, NotReady, Published, NotPublished, Stop, Stopped,
     Disconnect, vars, flags

(* On a platform that hands over as text what can set the flag, whoever    *)
(* sees `authenticated' has a socket that is accepted and has not closed.  *)
THEOREM TextFlagHasLiveSession == TextOnly => (Spec => []LiveSession)
<1> SUFFICES ASSUME TextOnly PROVE Spec => []LiveSession
  OBVIOUS
<1>1. Init => ~belated
  BY DEF Init
<1>2. Typed /\ ~belated /\ [Next]_vars => ~belated'
  BY TextStep
<1>3. Spec => []~belated
  BY <1>1, <1>2, TypeInvariant, PTL DEF Spec
<1>4. FlagInv /\ ~belated => LiveSession
  BY DEF FlagInv, LiveSession, Accepted
<1> QED
  BY <1>3, <1>4, SessionInvariant, PTL DEF SessionInv

-----------------------------------------------------------------------------
(* Chains: a socket that lives, or a timer that will open one.             *)

Timers == loose + (IF held THEN 1 ELSE 0)
Called == {i \in StartCall : call[i] # "idle"}

LEMMA TimersType == Typed => Timers \in Nat
BY DEF Typed, Timers

LEMMA TimersNext == (Typed => Timers \in Nat)'
BY TimersType, PTL

LEMMA ChainType ==
  ASSUME Typed
  PROVE  /\ IsFiniteSet(Alive) /\ Cardinality(Alive) \in Nat
         /\ IsFiniteSet(Called) /\ Connects = Cardinality(Called)
         /\ Connects \in Nat /\ Timers \in Nat
<1>1. IsFiniteSet(Socket) /\ IsFiniteSet(StartCall)
  BY BoundAssumption, FS_Interval DEF Socket, StartCall
<1>2. Alive \in SUBSET Socket /\ Called \in SUBSET StartCall
  BY DEF Alive, Called
<1>3. IsFiniteSet(Alive) /\ IsFiniteSet(Called)
  BY <1>1, <1>2, FS_Subset
<1>4. Cardinality(Alive) \in Nat /\ Cardinality(Called) \in Nat
  BY <1>3, FS_CardinalityType
<1>5. Connects = Cardinality(Called)
  BY DEF Connects, Called
<1>6. Timers \in Nat
  BY TimersType
<1> QED
  BY <1>3, <1>4, <1>5, <1>6

(* scheduleReconnect adds one timer.                                       *)
LEMMA OneMoreTimer ==
  ASSUME Typed, ScheduleReconnect
  PROVE  Timers' = Timers + 1
BY DEF Typed, ScheduleReconnect, Timers

(* A timer that fires is one less.                                         *)
LEMMA OneTimerLess ==
  ASSUME Typed, NEW b \in BOOLEAN, TimerElapses(b)
  PROVE  Timers' = Timers - 1
<1>1. CASE b
  BY <1>1 DEF Typed, TimerElapses, Timers
<1>2. CASE ~b
  BY <1>2 DEF Typed, TimerElapses, Timers
<1> QED
  BY <1>1, <1>2

LEMMA OneMoreSocket ==
  ASSUME Typed, DoConnect
  PROVE  Cardinality(Alive') <= Cardinality(Alive) + 1
<1>1. Alive' = Alive \cup {ws'}
  BY ConnectTyped DEF Typed, Alive
<1>2. \/ Cardinality(Alive \cup {ws'}) = Cardinality(Alive)
      \/ Cardinality(Alive \cup {ws'}) = Cardinality(Alive) + 1
  BY ChainType, FS_AddElement
<1> QED
  BY <1>1, <1>2, ChainType

LEMMA OneMoreCall ==
  ASSUME Typed, NEW i \in StartCall, call[i] = "idle",
         call' = [call EXCEPT ![i] = "waiting"]
  PROVE  Connects' = Connects + 1
<1>1. Called' = Called \cup {i} /\ i \notin Called
  BY DEF Typed, Called
<1>2. Cardinality(Called') = Cardinality(Called) + 1
  BY <1>1, ChainType, FS_AddElement
<1> QED
  BY <1>2 DEF Connects, Called

LEMMA ChainStep ==
  ASSUME Typed, Typed', OneChainPerStart, [Next]_vars
  PROVE  OneChainPerStart'
<1>1. /\ Cardinality(Alive) \in Nat /\ Cardinality(Alive') \in Nat
  <2>1. IsFiniteSet(Socket)
    BY BoundAssumption, FS_Interval DEF Socket
  <2>2. Alive' \in SUBSET Socket
    BY DEF Alive
  <2> QED
    BY <2>1, <2>2, ChainType, FS_Subset, FS_CardinalityType
<1>2. Connects \in Nat /\ Timers \in Nat /\ Timers' \in Nat
  <2>1. Timers' \in Nat
    BY TimersNext
  <2> QED
    BY <2>1, ChainType
<1>3. /\ Cardinality(Alive) + Timers <= Connects
      /\ Cardinality(Alive') + Timers' <= Connects' => OneChainPerStart'
  <2>1. held \in BOOLEAN /\ loose \in Nat /\ held' \in BOOLEAN /\ loose' \in Nat
    BY DEF Typed
  <2>2. Connects' \in Nat
    <3>1. IsFiniteSet(StartCall)
      BY BoundAssumption, FS_Interval DEF StartCall
    <3>2. {i \in StartCall : call'[i] # "idle"} \in SUBSET StartCall
      OBVIOUS
    <3> QED
      BY <3>1, <3>2, FS_Subset, FS_CardinalityType DEF Connects
  <2> QED
    BY <1>1, <1>2, <2>1, <2>2 DEF OneChainPerStart, Timers
<1>4. ASSUME UNCHANGED <<timers, sock, call>> PROVE OneChainPerStart'
  BY <1>4 DEF OneChainPerStart, Connects, Alive, timers
<1>5. ASSUME UNCHANGED <<timers, call>>, Alive' = Alive PROVE OneChainPerStart'
  BY <1>5 DEF OneChainPerStart, Connects, timers
<1>6. ASSUME UNCHANGED call PROVE Connects' = Connects
  BY <1>6 DEF Connects
<1>7. ASSUME NEW s \in Socket, OnClose(s) PROVE OneChainPerStart'
  <2>1. Alive' = Alive \ {s} /\ s \in Alive
    BY <1>7 DEF Typed, OnClose, Alive
  <2>2. Cardinality(Alive') = Cardinality(Alive) - 1
    BY <2>1, ChainType, FS_RemoveElement
  <2>3. Timers' <= Timers + 1
    <3>1. CASE target
      <4>1. ScheduleReconnect
        BY <1>7, <3>1 DEF OnClose
      <4> QED
        BY <1>2, <4>1, OneMoreTimer
    <3>2. CASE ~target
      <4>1. Timers' = Timers
        BY <1>7, <3>2 DEF OnClose, timers, Timers
      <4> QED
        BY <1>2, <4>1
    <3> QED
      BY <3>1, <3>2
  <2>4. Connects' = Connects
    BY <1>6, <1>7 DEF OnClose, node
  <2> QED
    BY <1>1, <1>2, <1>3, <2>2, <2>3, <2>4
<1>8. ASSUME NEW s \in Socket, SocketStep(s), ~OnClose(s) PROVE OneChainPerStart'
  <2>1. \A r \in Socket : sock'[r] \in {"connecting", "open", "closing"} <=>
                          sock[r] \in {"connecting", "open", "closing"}
    <3>1. ASSUME NEW f \in Frame, FrameStep(f, s) PROVE sock' = sock
      BY <3>1, FrameKeeps
    <3> QED
      BY <1>8, <3>1 DEF Typed, SocketStep, FrameStep, OnOpen, RelayAccepts,
         RelayDrops
  <2>2. Alive' = Alive
    BY <2>1 DEF Alive
  <2>3. UNCHANGED <<timers, call>>
    <3>1. ASSUME NEW f \in Frame, FrameStep(f, s)
          PROVE  UNCHANGED <<timers, call>>
      BY <3>1, FrameKeeps DEF node
    <3> QED
      BY <1>8, <3>1 DEF SocketStep, FrameStep, OnOpen, RelayAccepts, RelayDrops,
         node
  <2> QED
    BY <1>5, <2>2, <2>3
<1>9. ASSUME NEW b \in BOOLEAN, TimerConnects(b) PROVE OneChainPerStart'
  <2>1. Cardinality(Alive') <= Cardinality(Alive) + 1
    BY <1>9, OneMoreSocket DEF TimerConnects
  <2>2. Timers' = Timers - 1
    BY <1>9, OneTimerLess DEF TimerConnects
  <2>3. Connects' = Connects
    BY <1>6, <1>9 DEF TimerConnects, node
  <2> QED
    BY <1>1, <1>2, <1>3, <2>1, <2>2, <2>3
<1>10. ASSUME NEW b \in BOOLEAN, TimerFiresLate(b) PROVE OneChainPerStart'
  <2>1. Timers' = Timers - 1
    BY <1>10, OneTimerLess DEF TimerFiresLate
  <2>2. Alive' = Alive /\ Connects' = Connects
    BY <1>6, <1>10 DEF TimerFiresLate, Alive, node
  <2> QED
    BY <1>1, <1>2, <1>3, <2>1, <2>2
<1>11. ASSUME NEW b \in BOOLEAN, TimerThrows(b) PROVE OneChainPerStart'
  <2>1. CASE b
    BY <1>4, <1>11, <2>1 DEF TimerThrows, node
  <2>2. CASE ~b
    <3>1. Timers' = Timers
      <4>1. CASE held
        BY <1>11, <2>2, <4>1 DEF Typed, TimerThrows, Timers
      <4>2. CASE ~held
        BY <1>11, <2>2, <4>2 DEF Typed, TimerThrows, Timers
      <4> QED
        BY <4>1, <4>2
    <3>2. Alive' = Alive /\ Connects' = Connects
      BY <1>6, <1>11 DEF TimerThrows, Alive, node
    <3> QED
      BY <1>1, <1>2, <1>3, <3>1, <3>2
  <2> QED
    BY <2>1, <2>2
<1>12. ASSUME NEW i \in StartCall, Start(i) PROVE OneChainPerStart'
  <2>1. Connects' = Connects + 1
    BY <1>12, OneMoreCall DEF Start
  <2>2. Cardinality(Alive') <= Cardinality(Alive) + 1
    BY <1>12, OneMoreSocket DEF Start
  <2>3. Timers' = Timers
    BY <1>12 DEF Start, timers, Timers
  <2> QED
    BY <1>1, <1>2, <1>3, <2>1, <2>2, <2>3
<1>13. ASSUME NEW i \in StartCall, StartThrows(i) PROVE OneChainPerStart'
  <2>1. Connects' = Connects + 1
    BY <1>13, OneMoreCall DEF StartThrows
  <2>2. Timers' = Timers + 1
    BY <1>13, OneMoreTimer DEF StartThrows
  <2>3. Alive' = Alive
    BY <1>13 DEF StartThrows, Alive
  <2> QED
    BY <1>1, <1>2, <1>3, <2>1, <2>2, <2>3
<1>14. ASSUME NEW i \in StartCall,
              Ready(i) \/ NotReady(i) \/ Published(i) \/ NotPublished(i)
       PROVE  OneChainPerStart'
  <2>1. \A j \in StartCall : call'[j] # "idle" <=> call[j] # "idle"
    BY <1>14 DEF Typed, Ready, NotReady, Published, NotPublished
  <2>2. UNCHANGED <<timers, sock>>
    BY <1>14 DEF Ready, NotReady, Published, NotPublished
  <2>3. {j \in StartCall : call'[j] # "idle"} = {j \in StartCall : call[j] # "idle"}
    BY <2>1
  <2> QED
    BY <2>2, <2>3 DEF OneChainPerStart, Connects, Alive, timers
<1>15. CASE Stopped
  <2>1. \A r \in Socket : sock'[r] \in {"connecting", "open", "closing"} <=>
                          sock[r] \in {"connecting", "open", "closing"}
    BY <1>15 DEF Typed, Stopped, Disconnect
  <2>2. Alive' = Alive
    BY <2>1 DEF Alive
  <2>3. Timers' <= Timers
    BY <1>15 DEF Typed, Stopped, Disconnect, Timers
  <2>4. Connects' = Connects
    BY <1>6, <1>15 DEF Stopped
  <2> QED
    BY <1>1, <1>2, <1>3, <2>2, <2>3, <2>4
<1> QED
  BY <1>4, <1>7, <1>8, <1>9, <1>10, <1>11, <1>12, <1>13, <1>14, <1>15
     DEF Next, StartStep, Stop, vars, timers

LEMMA ChainInvariant == Spec => []OneChainPerStart
<1>1. Init => OneChainPerStart
  <2> SUFFICES ASSUME Init PROVE OneChainPerStart
    OBVIOUS
  <2>1. Alive = {} /\ Called = {}
    BY DEF Init, Alive, Called
  <2>2. Connects = 0 /\ Cardinality(Alive) = 0
    BY <2>1, FS_EmptySet DEF Connects, Called
  <2> QED
    BY <2>2 DEF Init, OneChainPerStart
<1>2. Spec => []Typed
  BY TypeInvariant, PTL
<1>3. Typed /\ OneChainPerStart /\ [Next]_vars /\ Typed' => OneChainPerStart'
  BY ChainStep
<1> QED
  BY <1>1, <1>2, <1>3, PTL DEF Spec

(* Sockets and timers do not multiply: each goes back to a start() of its  *)
(* own.                                                                    *)
THEOREM ChainsDoNotMultiply == Spec => []OneChainPerStart
BY ChainInvariant

-----------------------------------------------------------------------------
(* With one start there is one socket that lives, and ws is it.            *)

WsAlive == ws # Null => ws \in Alive

LEMMA WsStep ==
  ASSUME Typed, WsAlive, [Next]_vars
  PROVE  WsAlive'
<1>1. ASSUME UNCHANGED <<ws, sock>> PROVE WsAlive'
  BY <1>1 DEF WsAlive, Alive
<1>2. ASSUME NEW s \in Socket, SocketStep(s) PROVE WsAlive'
  <2>1. CASE OnClose(s)
    BY <2>1 DEF OnClose, WsAlive
  <2>2. CASE OnOpen(s) \/ RelayDrops(s)
    BY <2>2 DEF Typed, OnOpen, RelayDrops, WsAlive, Alive
  <2>3. ASSUME NEW f \in Frame, FrameStep(f, s) PROVE WsAlive'
    BY <1>1, <2>3, FrameKeeps
  <2> QED
    BY <1>1, <1>2, <2>1, <2>2, <2>3 DEF SocketStep, FrameStep, RelayAccepts
<1>3. ASSUME DoConnect PROVE WsAlive'
  BY <1>3, ConnectTyped DEF Typed, WsAlive, Alive
<1>4. CASE Stopped
  BY <1>4 DEF Stopped, Disconnect, WsAlive
<1> QED
  BY <1>1, <1>2, <1>3, <1>4
     DEF Next, TimerConnects, TimerFiresLate, TimerThrows, StartStep, Start,
         StartThrows, Ready, NotReady, Published, NotPublished, Stop, vars

(* Of one chain there is a socket or a timer, not both, and only after a   *)
(* start().                                                                *)
LEMMA OneLink ==
  ASSUME Typed, OneChainPerStart, Connects <= 1
  PROVE  /\ \A r, s \in Alive : r = s
         /\ Timers > 0 \/ Connects = 0 => Alive = {}
<1>1. Cardinality(Alive) + Timers <= Connects /\ Timers \in Nat /\ Connects \in Nat
      /\ Cardinality(Alive) \in Nat /\ IsFiniteSet(Alive)
  BY ChainType DEF Typed, OneChainPerStart, Timers
<1>2. ASSUME NEW r \in Alive, NEW s \in Alive PROVE r = s
  <2>1. Cardinality(Alive \ {s}) = Cardinality(Alive) - 1
        /\ IsFiniteSet(Alive \ {s})
    BY <1>1, FS_RemoveElement
  <2>2. Cardinality(Alive \ {s}) \in Nat
    BY <2>1, FS_CardinalityType
  <2>3. Alive \ {s} = {}
    BY <1>1, <2>1, <2>2, FS_EmptySet
  <2> QED
    BY <2>3
<1>3. Cardinality(Alive) = 0 => Alive = {}
  BY <1>1, FS_EmptySet
<1>4. Timers > 0 \/ Connects = 0 => Cardinality(Alive) = 0
  BY <1>1
<1> QED
  BY <1>2, <1>3, <1>4

(* In a node that is started once, envelopes go out on a socket that the   *)
(* relay has accepted, unless a Blob of an earlier one was read too late.  *)
THEOREM SendsReachSession == Spec => []SendsGoToSession
<1>1. Init => WsAlive
  BY DEF Init, WsAlive
<1>2. Spec => []WsAlive
  BY <1>1, WsStep, TypeInvariant, PTL DEF Spec
<1>3. Typed /\ WsAlive /\ OneChainPerStart /\ AuthenticatedHasSession
        => SendsGoToSession
  <2> SUFFICES ASSUME Typed, WsAlive, OneChainPerStart, AuthenticatedHasSession,
                      Connects <= 1, Usable, ~belated
               PROVE  relay[ws] \in {"accepted", "confirmed"}
    BY DEF SendsGoToSession
  <2>1. ws \in Alive
    BY DEF Usable, WsAlive
  <2>2. PICK s \in Alive : relay[s] \in {"accepted", "confirmed"}
    BY DEF Usable, AuthenticatedHasSession
  <2> QED
    BY <2>1, <2>2, OneLink
<1> QED
  BY <1>2, <1>3, TypeInvariant, ChainInvariant, FlagHasSession, PTL
-----------------------------------------------------------------------------
(* What a stop leaves behind.                                              *)

Up(s) == sock[s] \in {"connecting", "open"}

(* In a node that is started once, the socket that is up is the client's   *)
(* own: none is forgotten that only the relay knows of.                    *)
NoStraySocket == Connects <= 1 => \A s \in Socket : Up(s) => ws = s

(* When such a node is stopped, or has not been started, no socket is up:  *)
(* neither a late timer nor a late onclose has brought one back.           *)
StoppedIsDown == Connects <= 1 /\ ~target => \A s \in Socket : ~Up(s)

LinkInv == Connects <= 1 => \A s \in Socket : Up(s) => ws = s /\ target

LEMMA LinkStep ==
  ASSUME Typed, OneChainPerStart, LinkInv, [Next]_vars
  PROVE  LinkInv'
<1>1. Connects \in Nat
  BY ChainType
<1>2. ASSUME UNCHANGED call PROVE Connects' = Connects
  BY <1>2 DEF Connects
<1>3. ASSUME UNCHANGED <<ws, target, sock>>, Connects' = Connects PROVE LinkInv'
  BY <1>3 DEF LinkInv, Up
<1>4. ASSUME NEW r \in Socket, SocketStep(r) PROVE LinkInv'
  <2>1. Connects' = Connects
    <3>1. ASSUME NEW f \in Frame, FrameStep(f, r) PROVE call' = call
      BY <3>1, FrameKeeps DEF node
    <3> QED
      BY <1>2, <1>4, <3>1 DEF SocketStep, FrameStep, OnOpen, RelayAccepts,
         RelayDrops, OnClose, node
  <2>2. CASE OnOpen(r) \/ RelayDrops(r)
    BY <2>1, <2>2 DEF Typed, OnOpen, RelayDrops, LinkInv, Up
  <2>3. CASE OnClose(r)
    <3>1. ASSUME Connects <= 1, NEW s \in Socket, Up(s)' PROVE FALSE
      <4>1. r # s /\ Up(s)
        BY <2>3, <3>1 DEF Typed, OnClose, Up
      <4>2. r \in Alive /\ s \in Alive
        BY <2>3, <4>1 DEF OnClose, Up, Alive
      <4> QED
        BY <3>1, <4>1, <4>2, OneLink
    <3> QED
      BY <2>1, <3>1 DEF LinkInv
  <2>4. ASSUME NEW f \in Frame, FrameStep(f, r) PROVE LinkInv'
    BY <1>3, <2>1, <2>4, FrameKeeps
  <2> QED
    BY <1>3, <1>4, <2>1, <2>2, <2>3, <2>4 DEF SocketStep, FrameStep, RelayAccepts
<1>5. ASSUME DoConnect, Connects' <= 1 => Alive = {}, target'
      PROVE  LinkInv'
  BY <1>5, ConnectTyped DEF Typed, LinkInv, Up, Alive
<1>6. ASSUME NEW b \in BOOLEAN, TimerConnects(b) PROVE LinkInv'
  <2>1. Timers' = Timers - 1 /\ Timers' \in Nat /\ Timers \in Nat
    BY <1>6, OneTimerLess, ChainType DEF TimerConnects, TimerElapses, Timers, Typed
  <2>2. Connects' = Connects
    BY <1>2, <1>6 DEF TimerConnects, node
  <2> QED
    BY <1>5, <1>6, <2>1, <2>2, OneLink DEF TimerConnects
<1>7. ASSUME NEW i \in StartCall, Start(i) \/ StartThrows(i) PROVE LinkInv'
  <2>1. Connects' = Connects + 1
    BY <1>7, OneMoreCall DEF Start, StartThrows
  <2>2. Connects' <= 1 => Alive = {}
    BY <1>1, <2>1, OneLink
  <2>3. CASE Start(i)
    BY <1>5, <2>2, <2>3 DEF Start
  <2>4. CASE StartThrows(i)
    BY <2>2, <2>4 DEF StartThrows, LinkInv, Up, Alive
  <2> QED
    BY <1>7, <2>3, <2>4
<1>8. ASSUME NEW i \in StartCall,
             Ready(i) \/ NotReady(i) \/ Published(i) \/ NotPublished(i)
      PROVE  LinkInv'
  <2>1. \A j \in StartCall : call'[j] # "idle" <=> call[j] # "idle"
    BY <1>8 DEF Typed, Ready, NotReady, Published, NotPublished
  <2>2. {j \in StartCall : call'[j] # "idle"} = {j \in StartCall : call[j] # "idle"}
    BY <2>1
  <2> QED
    BY <1>3, <1>8, <2>2 DEF Connects, Ready, NotReady, Published, NotPublished
<1>9. CASE Stopped
  BY <1>2, <1>9 DEF Stopped, Disconnect, LinkInv, Up
<1> QED
  BY <1>2, <1>3, <1>4, <1>6, <1>7, <1>8, <1>9
     DEF Next, StartStep, TimerFiresLate, TimerThrows, Stop, vars, node

(* A node that is started once has no socket but its own, and none when it *)
(* is stopped, whatever was under way when stop() cut in.                  *)
THEOREM StopLeavesNothing == Spec => [](NoStraySocket /\ StoppedIsDown)
<1>1. Init => LinkInv
  BY DEF Init, LinkInv, Up
<1>2. LinkInv => NoStraySocket /\ StoppedIsDown
  BY DEF LinkInv, NoStraySocket, StoppedIsDown
<1> QED
  BY <1>1, <1>2, LinkStep, TypeInvariant, ChainInvariant, PTL DEF Spec
=============================================================================
