--------------------------- MODULE MsgBoxSession ---------------------------
(***************************************************************************)
(* The WebSocket session between a node and the MsgBox relay, from the     *)
(* node's start() and stop() down to the sockets.  The client keeps one    *)
(* set of module variables (ws, connected, authenticated, ...) that the    *)
(* callbacks of every socket write, the callbacks of a socket it has given *)
(* up included: close() only asks for a close, onclose runs later.         *)
(*                                                                         *)
(* The relay opens, challenges, accepts and drops sockets as it likes.     *)
(* A frame that is text is handled as it arrives; one that the platform    *)
(* hands over as a Blob is read first, and handled when that is done,      *)
(* whatever has become of its socket.  Backoff delays and the content of   *)
(* frames are left out.                                                    *)
(***************************************************************************)
EXTENDS Naturals, FiniteSets

CONSTANTS
  MaxStarts,   \* bound: calls of start()
  MaxSockets,  \* bound: sockets opened
  MaxBlobs,    \* bound: Blobs that are being read at a time
  Blob,        \* the kinds of frames that may come as Blobs
  Null

Frame == {"auth_challenge", "auth_success", "envelope"}

ASSUME BoundAssumption ==
  MaxStarts \in Nat /\ MaxSockets \in Nat \ {0} /\ MaxBlobs \in Nat
ASSUME BlobAssumption == Blob \subseteq Frame
ASSUME NullAssumption == Null \notin Nat

Socket == 1..MaxSockets
StartCall == 1..MaxStarts

VARIABLES
  ws,            \* the socket the client thinks it has
  connected,
  authenticated,
  challengeSeen, \* authChallengeSeen
  target,        \* shouldReconnect and currentURL, which change together
  held,          \* reconnectTimer is pending
  loose,         \* timers pending that reconnectTimer was overwritten with
  opened,        \* sockets opened so far
  sock,          \* per socket, its readyState, "none" before it is opened
  relay,         \* per socket, how far the relay is with its handshake
  decoding,      \* Blob frames that are being read, with their sockets
  belated,       \* the flag was set by a Blob whose socket had closed
  call,          \* per start() call, where it is
  started,
  stopping       \* stop() calls that wait for the runners to drain

flags == <<connected, authenticated, challengeSeen, belated>>
timers == <<held, loose>>
wire == <<relay, decoding>>
node == <<call, started, stopping>>
vars == <<ws, connected, authenticated, challengeSeen, belated, target, held,
          loose, opened, sock, relay, decoding, call, started, stopping>>

TypeOK ==
  /\ ws \in Socket \cup {Null}
  /\ connected \in BOOLEAN /\ authenticated \in BOOLEAN
  /\ challengeSeen \in BOOLEAN /\ belated \in BOOLEAN /\ target \in BOOLEAN
  /\ decoding \subseteq Blob \X Socket
  /\ held \in BOOLEAN /\ loose \in Nat
  /\ opened \in 0..MaxSockets
  /\ sock \in [Socket -> {"none", "connecting", "open", "closing", "closed"}]
  /\ relay \in [Socket -> {"fresh", "unanswered", "answered", "accepted",
                           "confirmed"}]
  /\ call \in [StartCall -> {"idle", "waiting", "publishing", "done", "failed"}]
  /\ started \in BOOLEAN
  /\ stopping \in 0..MaxStarts

Init ==
  /\ ws = Null /\ connected = FALSE /\ authenticated = FALSE
  /\ challengeSeen = FALSE /\ belated = FALSE /\ target = FALSE
  /\ decoding = {}
  /\ held = FALSE /\ loose = 0 /\ opened = 0
  /\ sock = [s \in Socket |-> "none"]
  /\ relay = [s \in Socket |-> "fresh"]
  /\ call = [i \in StartCall |-> "idle"]
  /\ started = FALSE /\ stopping = 0

-----------------------------------------------------------------------------
(* The client.                                                             *)

(* scheduleReconnect, for the callers that have checked `target'.  It does *)
(* not clear the timer it overwrites.                                      *)
ScheduleReconnect ==
  /\ held' = TRUE
  /\ loose' = IF held THEN loose + 1 ELSE loose

(* doConnect: the new socket takes the place of whatever ws was.           *)
DoConnect ==
  /\ opened < MaxSockets
  /\ opened' = opened + 1
  /\ ws' = opened'
  /\ sock' = [sock EXCEPT ![opened'] = "connecting"]

OnOpen(s) ==
  /\ sock[s] = "connecting"
  /\ sock' = [sock EXCEPT ![s] = "open"]
  /\ connected' = TRUE
  /\ UNCHANGED <<ws, authenticated, challengeSeen, belated, target, timers,
                 opened, wire, node>>

RelayAccepts(s) ==
  /\ sock[s] = "open" /\ relay[s] = "answered"
  /\ relay' = [relay EXCEPT ![s] = "accepted"]
  /\ UNCHANGED <<ws, flags, target, timers, opened, sock, decoding, node>>

(* The relay sends a frame on an open socket: a challenge first, then      *)
(* auth_success and envelopes on one that it has accepted.  Some relays    *)
(* send envelopes without an auth_success before.                          *)
Sends(f, s) ==
  /\ sock[s] = "open"
  /\ relay[s] \in [auth_challenge |-> {"fresh"}, auth_success |-> {"accepted"},
                   envelope |-> {"accepted", "confirmed"}][f]

SentOn(f, s) ==
  [relay EXCEPT ![s] = [auth_challenge |-> "unanswered",
                        auth_success |-> "confirmed", envelope |-> @][f]]

Alive == {s \in Socket : sock[s] \in {"connecting", "open", "closing"}}

(* The flag is set for a frame of s.                                       *)
Authenticate(s) ==
  /\ authenticated' = TRUE
  /\ belated' = (s \notin Alive /\ (belated \/ ~authenticated))

(* The challenge is answered on ws, whichever socket asked; not at all     *)
(* when another one is authenticated or when there is no ws.  On a socket  *)
(* that is still connecting, send throws.                                  *)
HandleChallenge(s, sent) ==
  /\ relay' = IF ~authenticated /\ ws = s /\ sock[s] = "open"
              THEN [sent EXCEPT ![s] = "answered"] ELSE sent
  /\ challengeSeen' = IF authenticated \/ ws = Null THEN challengeSeen
                      ELSE challengeSeen \/ sock[ws] # "connecting"
  /\ UNCHANGED <<authenticated, belated>>

(* An auth_success, or an envelope after the challenge was answered.       *)
Authenticates(f) ==
  \/ f = "auth_success"
  \/ f = "envelope" /\ ~authenticated /\ challengeSeen

(* handleFrameText, when `sent' is how far the relay is.                   *)
HandleFrameText(f, s, sent) ==
  /\ IF f = "auth_challenge" THEN HandleChallenge(s, sent)
     ELSE /\ relay' = sent /\ UNCHANGED challengeSeen
          /\ IF Authenticates(f) THEN Authenticate(s)
             ELSE UNCHANGED <<authenticated, belated>>
  /\ UNCHANGED <<ws, connected, target, timers, opened, sock, node>>

(* A frame arrives as text.                                                *)
OnFrame(f, s) ==
  /\ Sends(f, s)
  /\ HandleFrameText(f, s, SentOn(f, s))
  /\ UNCHANGED decoding

(* ... or as a Blob, whose reading starts.                                 *)
OnBlob(f, s) ==
  /\ f \in Blob /\ Sends(f, s) /\ <<f, s>> \notin decoding
  /\ Cardinality(decoding) < MaxBlobs
  /\ relay' = SentOn(f, s)
  /\ decoding' = decoding \cup {<<f, s>>}
  /\ UNCHANGED <<ws, flags, target, timers, opened, sock, node>>

(* Its text is there: it is handled as if it had just arrived.             *)
BlobDecoded(f, s) ==
  /\ <<f, s>> \in decoding
  /\ HandleFrameText(f, s, relay)
  /\ decoding' = decoding \ {<<f, s>>}

(* It cannot be read, and is dropped.                                      *)
BlobLost(f, s) ==
  /\ <<f, s>> \in decoding
  /\ decoding' = decoding \ {<<f, s>>}
  /\ UNCHANGED <<ws, flags, target, timers, opened, sock, relay, node>>

(* The bound leaves every chain of reconnects a last socket to go on with. *)
Droppable == opened + loose + (IF held THEN 1 ELSE 0)
             + Cardinality({s \in Socket : sock[s] = "closing"}) < MaxSockets

(* Slip: the error that comes before a close reconnects as well.           *)
ErrorReconnects(s) ==
  /\ Droppable
  /\ sock[s] \in {"connecting", "open"}
  /\ sock' = [sock EXCEPT ![s] = "closing"]
  /\ ScheduleReconnect
  /\ UNCHANGED <<ws, flags, target, opened, wire, node>>

(* The connection is lost: onerror does nothing, onclose will follow.      *)
RelayDrops(s) ==
  /\ Droppable
  /\ sock[s] \in {"connecting", "open"}
  /\ sock' = [sock EXCEPT ![s] = "closing"]
  /\ UNCHANGED <<ws, flags, target, timers, opened, wire, node>>

(* Slip: the authentication survives the socket.                           *)
CloseKeepsAuth(s) ==
  /\ sock[s] = "closing"
  /\ sock' = [sock EXCEPT ![s] = "closed"]
  /\ connected' = FALSE /\ ws' = Null
  /\ IF target THEN ScheduleReconnect ELSE UNCHANGED timers
  /\ UNCHANGED <<authenticated, challengeSeen, belated, target, opened, wire,
                 node>>

(* onclose, of any socket, resets what the client knows of its socket.     *)
OnClose(s) ==
  /\ sock[s] = "closing"
  /\ sock' = [sock EXCEPT ![s] = "closed"]
  /\ connected' = FALSE /\ authenticated' = FALSE /\ challengeSeen' = FALSE
  /\ belated' = FALSE /\ ws' = Null
  /\ IF target THEN ScheduleReconnect ELSE UNCHANGED timers
  /\ UNCHANGED <<target, opened, wire, node>>

(* A timer fires, the one in reconnectTimer or a loose one.                *)
TimerElapses(isHeld) ==
  IF isHeld THEN held /\ held' = FALSE /\ UNCHANGED loose
            ELSE loose > 0 /\ loose' = loose - 1 /\ UNCHANGED held

TimerConnects(isHeld) ==
  /\ target
  /\ TimerElapses(isHeld)
  /\ DoConnect
  /\ UNCHANGED <<flags, target, wire, node>>

TimerFiresLate(isHeld) ==
  /\ ~target
  /\ TimerElapses(isHeld)
  /\ UNCHANGED <<ws, flags, target, opened, sock, wire, node>>

(* Slip: the attempt that the factory refuses is the last one.             *)
ThrowGivesUp(isHeld) ==
  /\ target
  /\ TimerElapses(isHeld)
  /\ UNCHANGED <<ws, flags, target, opened, sock, wire, node>>

(* The factory throws: the timer that fired is scheduled anew.  When it is *)
(* a loose one, reconnectTimer may be pending and becomes loose itself.    *)
TimerThrows(isHeld) ==
  /\ target
  /\ IF isHeld THEN held /\ UNCHANGED timers
               ELSE /\ loose > 0 /\ held' = TRUE
                    /\ loose' = IF held THEN loose ELSE loose - 1
  /\ UNCHANGED <<ws, flags, target, opened, sock, wire, node>>

(* disconnect: the socket in ws is asked to close, and no other one.       *)
Disconnect ==
  /\ target' = FALSE
  /\ held' = FALSE
  /\ sock' = [s \in Socket |->
       IF s = ws /\ sock[s] \in {"connecting", "open"}
       THEN "closing" ELSE sock[s]]
  /\ ws' = Null /\ belated' = FALSE
  /\ connected' = FALSE /\ authenticated' = FALSE /\ challengeSeen' = FALSE
  /\ UNCHANGED <<loose, opened, wire>>

-----------------------------------------------------------------------------
(* The node.                                                               *)

(* start() up to the wait for the handshake.  `started' is set at its end  *)
(* only, so a call while another one is on its way connects as well.       *)
Start(i) ==
  /\ call[i] = "idle" /\ ~started
  /\ \A j \in 1..(i - 1) : call[j] # "idle"
  /\ call' = [call EXCEPT ![i] = "waiting"]
  /\ target' = TRUE
  /\ DoConnect
  /\ UNCHANGED <<flags, timers, wire, started, stopping>>

(* ... when the factory throws at once.                                    *)
StartThrows(i) ==
  /\ call[i] = "idle" /\ ~started
  /\ \A j \in 1..(i - 1) : call[j] # "idle"
  /\ call' = [call EXCEPT ![i] = "waiting"]
  /\ target' = TRUE
  /\ ScheduleReconnect
  /\ UNCHANGED <<ws, flags, opened, sock, wire, started, stopping>>

(* waitForAuthenticated: its poll finds the flag, or its time is over.     *)
Ready(i) ==
  /\ call[i] = "waiting" /\ authenticated
  /\ call' = [call EXCEPT ![i] = "publishing"]
  /\ UNCHANGED <<ws, flags, target, timers, opened, sock, wire, started,
                 stopping>>

NotReady(i) ==
  /\ call[i] = "waiting" /\ ~authenticated
  /\ call' = [call EXCEPT ![i] = "failed"]
  /\ UNCHANGED <<ws, flags, target, timers, opened, sock, wire, started,
                 stopping>>

(* The service profile is published, or that throws: then the node is not  *)
(* started, and its connection stays.                                      *)
Published(i) ==
  /\ call[i] = "publishing"
  /\ call' = [call EXCEPT ![i] = "done"]
  /\ started' = TRUE
  /\ UNCHANGED <<ws, flags, target, timers, opened, sock, wire, stopping>>

NotPublished(i) ==
  /\ call[i] = "publishing"
  /\ call' = [call EXCEPT ![i] = "failed"]
  /\ UNCHANGED <<ws, flags, target, timers, opened, sock, wire, started,
                 stopping>>

(* Slip: a node that is stopping can be stopped again.                     *)
StopTwice ==
  /\ started
  /\ stopping' = stopping + 1
  /\ UNCHANGED <<ws, flags, target, timers, opened, sock, wire, call,
                 started>>

(* stop(), a no-op on a node that is not started: first the runners drain, *)
(* then the relay is disconnected.                                         *)
Stop ==
  /\ started
  /\ started' = FALSE /\ stopping' = stopping + 1
  /\ UNCHANGED <<ws, flags, target, timers, opened, sock, wire, call>>

Stopped ==
  /\ stopping > 0 /\ stopping' = stopping - 1
  /\ Disconnect
  /\ UNCHANGED <<call, started>>

SocketStep(s) ==
  \/ OnOpen(s) \/ RelayAccepts(s) \/ RelayDrops(s) \/ OnClose(s)
  \/ \E f \in Frame :
       OnFrame(f, s) \/ OnBlob(f, s) \/ BlobDecoded(f, s) \/ BlobLost(f, s)

StartStep(i) ==
  Start(i) \/ StartThrows(i) \/ Ready(i) \/ NotReady(i) \/ Published(i)
  \/ NotPublished(i)

Next ==
  \/ \E s \in Socket : SocketStep(s)
  \/ \E isHeld \in BOOLEAN :
       TimerConnects(isHeld) \/ TimerFiresLate(isHeld) \/ TimerThrows(isHeld)
  \/ \E i \in StartCall : StartStep(i)
  \/ Stop \/ Stopped

(* Timers fire, events of a socket are delivered, and a relay that can be  *)
(* reached answers: sooner or later it challenges, and sends something on  *)
(* a socket it has accepted, as text.  What comes as a Blob, which may     *)
(* never be read, is not counted on.  A relay that refuses does so, by the *)
(* bound on sockets, a bounded number of times.                            *)
Fairness ==
  /\ SF_vars(TimerConnects(TRUE))
  /\ \A s \in Socket :
       /\ WF_vars(OnOpen(s)) /\ WF_vars(OnFrame("auth_challenge", s))
       /\ WF_vars(RelayAccepts(s)) /\ WF_vars(OnClose(s))
       /\ WF_vars(OnFrame("auth_success", s) \/ OnFrame("envelope", s))

Spec == Init /\ [][Next]_vars /\ Fairness

-----------------------------------------------------------------------------
(* Properties.                                                             *)

(* The calls of connectToMsgBox so far.                                    *)
Connects == Cardinality({i \in StartCall : call[i] # "idle"})

(* Reconnecting does not multiply: every socket that lives and every timer *)
(* that is pending goes back to a start() of its own, however sockets die, *)
(* timers overwrite each other and stop() cuts in.                         *)
OneChainPerStart ==
  Cardinality(Alive) + loose + (IF held THEN 1 ELSE 0) <= Connects

(* Whoever relies on `authenticated' (the wait in start(), a send) has the *)
(* relay's acceptance of a socket, and of one that has not closed unless a *)
(* Blob was read too late: no other late callback, no stop and no restart  *)
(* leaves the flag behind, and none sets it without an acceptance.         *)
AuthenticatedHasSession ==
  authenticated =>
    \E s \in Socket : /\ relay[s] \in {"accepted", "confirmed"}
                      /\ s \in Alive \/ belated

(* isAuthenticated(), which is also when sendEnvelope sends.               *)
Usable == ws # Null /\ connected /\ authenticated

(* In a node that is started once, envelopes go out on a socket that the   *)
(* relay has accepted, until a Blob of an earlier one is read.             *)
SendsGoToSession ==
  Connects <= 1 /\ Usable /\ ~belated => relay[ws] \in {"accepted", "confirmed"}

(* A node that is started once comes back to a usable session after every  *)
(* loss of its socket, until it is stopped.                                *)
ComesBack == [](Connects <= 1) => (target ~> (Usable \/ ~target))
=============================================================================
