---------------------------- MODULE EventSocket -----------------------------
(***************************************************************************)
(* The dashboard's WebSocket provider (shared/contexts/websocket-context). *)
(* The provider opens one socket to the event endpoint when it mounts,     *)
(* reconnects 3 s after every close, and on unmount cancels the pending    *)
(* reconnect, detaches onclose and closes the socket.                      *)
(*                                                                         *)
(* Sockets are numbered in creation order.  A socket's readyState follows  *)
(* the browser's: CONNECTING, OPEN, CLOSING (close() was called or the     *)
(* connection failed, the close event is pending), CLOSED (the close event *)
(* has been dispatched).  Every browser event is an action of its own:     *)
(* JavaScript runs each handler to completion, so an action is atomic.     *)
(***************************************************************************)
EXTENDS Naturals, FiniteSets

CONSTANTS
    MaxMounts,  \* bound on provider mounts (navigation, StrictMode remount)
    MaxDrops    \* bound on connection failures and server-side closes

\* A socket is created by a mount or by a reconnect after a close that was
\* not a cleanup, i.e. after a drop.
MaxSockets == MaxMounts + MaxDrops
SocketIds == 1..MaxSockets
None == 0

VARIABLES
    mounted,      \* the provider's effect is active
    ready,        \* ready[s]: readyState of socket s ("none": not created)
    onclose,      \* onclose[s]: socket s still has the provider's onclose
    cur,          \* ws.current (None for null)
    timer,        \* reconnectTimeout.current is pending
    isConnected,  \* the isConnected state
    nSockets,     \* sockets created so far
    mounts,       \* mounts so far
    drops         \* drops so far

vars == <<mounted, ready, onclose, cur, timer, isConnected, nSockets,
          mounts, drops>>

States == {"none", "connecting", "open", "closing", "closed"}
Live == {"connecting", "open"}

TypeOK ==
    /\ mounted \in BOOLEAN
    /\ ready \in [SocketIds -> States]
    /\ onclose \in [SocketIds -> BOOLEAN]
    /\ cur \in SocketIds \cup {None}
    /\ timer \in BOOLEAN
    /\ isConnected \in BOOLEAN
    /\ nSockets \in 0..MaxSockets
    /\ mounts \in 0..MaxMounts
    /\ drops \in 0..MaxDrops

Init ==
    /\ mounted = FALSE
    /\ ready = [s \in SocketIds |-> "none"]
    /\ onclose = [s \in SocketIds |-> FALSE]
    /\ cur = None
    /\ timer = FALSE
    /\ isConnected = FALSE
    /\ nSockets = 0
    /\ mounts = 0
    /\ drops = 0

\* connect(): unless ws.current is OPEN, create a socket with the
\* provider's handlers and make it ws.current.
Connect ==
    IF cur # None /\ ready[cur] = "open"
    THEN UNCHANGED <<ready, onclose, cur, nSockets>>
    ELSE LET s == nSockets + 1 IN
         /\ ready' = [ready EXCEPT ![s] = "connecting"]
         /\ onclose' = [onclose EXCEPT ![s] = TRUE]
         /\ cur' = s
         /\ nSockets' = s

\* The effect runs: connect().
Mount ==
    /\ ~mounted
    /\ mounts < MaxMounts
    /\ mounted' = TRUE
    /\ mounts' = mounts + 1
    /\ Connect
    /\ UNCHANGED <<timer, isConnected, drops>>

\* Mutant: the pending reconnect is not cancelled.
CleanupKeepsTimer ==
    /\ mounted
    /\ mounted' = FALSE
    /\ IF cur # None
       THEN /\ onclose' = [onclose EXCEPT ![cur] = FALSE]
            /\ ready' = [ready EXCEPT ![cur] =
                           IF @ \in Live THEN "closing" ELSE @]
       ELSE UNCHANGED <<onclose, ready>>
    /\ UNCHANGED <<cur, timer, isConnected, nSockets, mounts, drops>>

\* Mutant: the socket is closed with its onclose still attached.
CleanupKeepsOnclose ==
    /\ mounted
    /\ mounted' = FALSE
    /\ timer' = FALSE
    /\ IF cur # None
       THEN ready' = [ready EXCEPT ![cur] = IF @ \in Live THEN "closing" ELSE @]
       ELSE UNCHANGED ready
    /\ UNCHANGED <<onclose, cur, isConnected, nSockets, mounts, drops>>

\* Mutant: onclose is detached but close() is not called.
CleanupWithoutClose ==
    /\ mounted
    /\ mounted' = FALSE
    /\ timer' = FALSE
    /\ IF cur # None
       THEN onclose' = [onclose EXCEPT ![cur] = FALSE]
       ELSE UNCHANGED onclose
    /\ UNCHANGED <<ready, cur, isConnected, nSockets, mounts, drops>>

\* The effect's cleanup: clearTimeout, then, if ws.current is set, detach
\* its onclose and close() it.  ws.current itself is left as it is.
Cleanup ==
    /\ mounted
    /\ mounted' = FALSE
    /\ timer' = FALSE
    /\ IF cur # None
       THEN /\ onclose' = [onclose EXCEPT ![cur] = FALSE]
            /\ ready' = [ready EXCEPT ![cur] =
                           IF @ \in Live THEN "closing" ELSE @]
       ELSE UNCHANGED <<onclose, ready>>
    /\ UNCHANGED <<cur, isConnected, nSockets, mounts, drops>>

\* onopen: the handshake completed; setIsConnected(true).
SocketOpen(s) ==
    /\ ready[s] = "connecting"
    /\ ready' = [ready EXCEPT ![s] = "open"]
    /\ isConnected' = TRUE
    /\ UNCHANGED <<mounted, onclose, cur, timer, nSockets, mounts, drops>>

\* The connection fails or the server closes it (onerror calls close(),
\* a no-op on a socket that is already closing): the close event is now
\* pending.
Drop(s) ==
    /\ ready[s] \in Live
    /\ drops < MaxDrops
    /\ drops' = drops + 1
    /\ ready' = [ready EXCEPT ![s] = "closing"]
    /\ UNCHANGED <<mounted, onclose, cur, timer, isConnected, nSockets,
                   mounts>>

\* Mutant: onclose forgets to schedule the reconnect.
SocketClosedNoRetry(s) ==
    /\ ready[s] = "closing"
    /\ ready' = [ready EXCEPT ![s] = "closed"]
    /\ IF onclose[s]
       THEN /\ isConnected' = FALSE
            /\ cur' = None
            /\ UNCHANGED timer
       ELSE UNCHANGED <<isConnected, cur, timer>>
    /\ UNCHANGED <<mounted, onclose, nSockets, mounts, drops>>

\* The close event: if onclose is still attached, setIsConnected(false),
\* ws.current = null and a reconnect is scheduled in 3 s.
SocketClosed(s) ==
    /\ ready[s] = "closing"
    /\ ready' = [ready EXCEPT ![s] = "closed"]
    /\ IF onclose[s]
       THEN /\ isConnected' = FALSE
            /\ cur' = None
            /\ timer' = TRUE
       ELSE UNCHANGED <<isConnected, cur, timer>>
    /\ UNCHANGED <<mounted, onclose, nSockets, mounts, drops>>

\* The reconnect timer fires: connect().
ReconnectTimerFires ==
    /\ timer
    /\ timer' = FALSE
    /\ Connect
    /\ UNCHANGED <<mounted, isConnected, mounts, drops>>

Next ==
    \/ Mount
    \/ Cleanup
    \/ \E s \in SocketIds : SocketOpen(s) \/ Drop(s) \/ SocketClosed(s)
    \/ ReconnectTimerFires

\* The browser dispatches the events of a socket, and the timer fires; the
\* user's navigation (Mount, Cleanup) and the network's failures are not
\* forced.
Fairness ==
    /\ \A s \in SocketIds : WF_vars(SocketOpen(s)) /\ WF_vars(SocketClosed(s))
    /\ WF_vars(ReconnectTimerFires)

Spec == Init /\ [][Next]_vars /\ Fairness

-----------------------------------------------------------------------------
(* Properties                                                              *)

LiveSockets == {s \in SocketIds : ready[s] \in Live}

\* At most one socket can receive events at a time, across remounts and
\* reconnects: an event the server publishes reaches the handlers once.
AtMostOneLiveSocket == Cardinality(LiveSockets) <= 1

\* Once the provider is unmounted no socket is connecting or open, however
\* the unmount interleaves with a pending reconnect or a close event still
\* in flight (the "reconnect loop" the cleanup's comment guards against).
NoLiveSocketWhileUnmounted == ~mounted => LiveSockets = {}

\* ws.current is an open socket.
Connected == cur # None /\ ready[cur] = "open"

\* A mounted provider keeps coming back to an open connection: after the
\* last drop, onclose schedules the reconnect and the new socket opens,
\* unless the provider is unmounted first.
EventuallyConnected == mounted ~> (Connected \/ ~mounted)

=============================================================================
