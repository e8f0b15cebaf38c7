---------------------------- MODULE SafetyStream ----------------------------
(***************************************************************************)
(* The live connection of the safety queue (api/realtime.ts): one connect() *)
(* from the mount of the screen to its unmount.  A ticket is minted, a     *)
(* socket opened, a hello awaited, channels subscribed; a connection that  *)
(* closes, or goes silent for more than two heartbeats, is retried with a  *)
(* backoff.  Frames are nudges: what a list holds comes from the API.      *)
(***************************************************************************)
EXTENDS ConsoleBase

CONSTANTS MaxGenerations,   \* bound on the connections one stream opens
          Missed            \* MISSED_HEARTBEATS_BEFORE_DROP

Generations == 1 .. MaxGenerations

VARIABLES
    generation, attempt, refused, stopped,
    timers,        \* retry timeouts that are set: the handle holds only the last
    minting,       \* generations whose ticket has been asked for
    socket,        \* the generation of the socket held, or None
    beating,       \* whether the heartbeat interval is set
    silence,       \* its ticks since the last frame (lastHeard)
    streamState,   \* what the screen was last told
    link           \* generation -> what the network makes of its socket

\* A link is none, opening, open, silent, closing or gone.  A browser delivers no
\* message on a socket it is closing, only its close event.

streamVars == <<generation, attempt, refused, stopped, timers, minting, socket,
                beating, silence, streamState, link>>

StreamInit ==
    /\ generation = 0 /\ attempt = 0 /\ refused = FALSE /\ stopped = FALSE
    /\ timers = 1              \* connect() starts at once, as an expired timeout does
    /\ minting = {} /\ socket = None /\ beating = FALSE /\ silence = 0
    /\ streamState = "closed"
    /\ link = [g \in Generations |-> "none"]

\* The delay doubles up to a ceiling: attempts past it are alike.
backoffDelay(n) == Min({30, 2 ^ (Max({0, n - 1}))})

scheduleRetry ==
    /\ attempt' = IF backoffDelay(attempt + 1) = backoffDelay(attempt) THEN attempt
                  ELSE attempt + 1
    /\ streamState' = "retrying"
    /\ timers' = timers + 1

Closing(l, g) == IF g = None THEN l ELSE [l EXCEPT ![g] = "closing"]

\* The retry timeout fires, and the first start.
start ==
    /\ timers > 0 /\ ~stopped /\ generation < MaxGenerations
    /\ timers' = timers - 1
    /\ generation' = generation + 1
    /\ minting' = minting \cup {generation'}
    /\ refused' = FALSE /\ streamState' = "connecting"
    /\ UNCHANGED <<attempt, stopped, socket, beating, silence, link>>

\* Unmounted, or overtaken, while the ticket was being minted: nothing opens.
TicketMinted ==
    \E mine \in minting :
        /\ minting' = minting \ {mine}
        /\ IF stopped \/ mine # generation THEN UNCHANGED <<socket, link>>
           ELSE socket' = mine /\ link' = [link EXCEPT ![mine] = "opening"]
        /\ UNCHANGED <<generation, attempt, refused, stopped, timers, beating, silence, streamState>>

TicketFails ==
    \E mine \in minting :
        /\ minting' = minting \ {mine}
        /\ IF mine = generation /\ ~stopped THEN scheduleRetry
           ELSE UNCHANGED <<attempt, streamState, timers>>
        /\ UNCHANGED <<generation, refused, stopped, socket, beating, silence, link>>

\* The first frame: live, watched, subscribed.
Hello ==
    \E mine \in Generations :
        /\ link[mine] = "opening"
        /\ link' = [link EXCEPT ![mine] = "open"]
        /\ IF mine = generation
           THEN attempt' = 0 /\ streamState' = "live" /\ beating' = TRUE /\ silence' = 0
           ELSE UNCHANGED <<attempt, streamState, beating, silence>>
        /\ UNCHANGED <<generation, refused, stopped, timers, minting, socket>>

\* Any frame says the connection lives; one may say the channel is refused.
handle ==
    \E mine \in Generations, isRefusal \in BOOLEAN :
        /\ link[mine] = "open" /\ mine = generation
        /\ silence' = 0
        /\ refused' = (refused \/ isRefusal)
        /\ streamState' = IF isRefusal /\ ~refused THEN "live" ELSE streamState
        /\ UNCHANGED <<generation, attempt, stopped, timers, minting, socket, beating, link>>

\* A tick after at most two and a half silent intervals pings; a later one
\* gives the connection up.  The third tick may fall on either side.
HeartbeatTick_NeverDrops(drops) == beating /\ ~drops /\ silence <= Missed
HeartbeatTick(drops) == beating /\ IF drops THEN silence >= Missed ELSE silence <= Missed
Ping ==
    /\ HeartbeatTick(FALSE)
    /\ silence' = silence + 1
    /\ UNCHANGED <<generation, attempt, refused, stopped, timers, minting, socket, beating,
                   streamState, link>>

\* The generation moves on first, so that the close event of the dropped
\* socket is nobody's.
GiveUp ==
    /\ HeartbeatTick(TRUE) /\ generation < MaxGenerations
    /\ generation' = generation + 1
    /\ link' = Closing(link, socket) /\ socket' = None
    /\ beating' = FALSE
    /\ scheduleRetry
    /\ UNCHANGED <<refused, stopped, minting, silence>>

\* The close event, whoever closed.
closed ==
    \E mine \in Generations :
        /\ link[mine] \in {"opening", "open", "closing"}
        /\ link' = [link EXCEPT ![mine] = "gone"]
        /\ IF mine = generation
           THEN beating' = FALSE /\ socket' = None /\ scheduleRetry
           ELSE UNCHANGED <<beating, socket, attempt, streamState, timers>>
        /\ UNCHANGED <<generation, refused, stopped, minting, silence>>

\* The network drops a connection without a word to either side; before the
\* hello nothing watches it, and the screen says that it is connecting.
GoSilent ==
    \E mine \in Generations :
        /\ link[mine] \in {"opening", "open"}
        /\ link' = [link EXCEPT ![mine] = "silent"]
        /\ UNCHANGED <<generation, attempt, refused, stopped, timers, minting, socket, beating,
                       silence, streamState>>

\* The screen unmounts.
CloseStream ==
    /\ ~stopped /\ generation < MaxGenerations
    /\ stopped' = TRUE /\ generation' = generation + 1
    /\ timers' = 0 /\ beating' = FALSE
    /\ link' = Closing(link, socket) /\ socket' = None
    /\ streamState' = "closed"
    /\ UNCHANGED <<attempt, refused, minting, silence>>

StreamNext ==
    \/ start \/ TicketMinted \/ TicketFails \/ Hello \/ handle \/ Ping \/ GiveUp
    \/ closed \/ GoSilent \/ CloseStream

\* The interval fires until it is cleared, while this screen is on.
StreamFairness == WF_streamVars(screen = "stream" /\ (Ping \/ GiveUp))

-----------------------------------------------------------------------------
\* "Live" is never a connection nobody watches: a socket that has died in
\* silence is noticed, by the heartbeat (realtime.ts, startHeartbeat).
SilenceIsNoticed ==
    (streamState = "live" /\ link[socket] = "silent")
        ~> (streamState # "live" \/ generation = MaxGenerations)
=============================================================================
