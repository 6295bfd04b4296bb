---------------------------- MODULE NativeClient ----------------------------
(* The game client outside the match: LobbyClientState with its request      *)
(* threads, the one-use codes it copies to the OS clipboard, the RustScale   *)
(* worker thread of PeerSession, and the lobby shell that drives both from   *)
(* the Godot thread.  A reset blocks the Godot thread in cancel() and in     *)
(* clear_lobby_session() while the other threads go on: `main` says where.   *)
(* A capability is modelled by the lobby generation that asked for it, an    *)
(* invitation code by its number, a frame by its number.  Polls, reports and *)
(* every other cancellable call are one operation, "poll".                   *)
EXTENDS Naturals, Sequences, FiniteSets, SequencesExt

CONSTANTS
    MaxGeneration,    \* lobby generations explored (u64, wrapping, in the code)
    MaxRequests,      \* requests in flight plus events queued
    MaxLobbies,       \* create requests
    MaxCodes,         \* invitation codes copied
    MaxWorkers,       \* worker generations (a reset retires one too)
    MaxFrames,        \* frames queued to workers
    MaxEvents         \* events a worker has queued

VARIABLES
    main,             \* "run", or the blocking step of a reset
    shell,            \* screen, buttons enabled, _leaving, transport being stopped, inputs armed
    lobby,            \* LobbyClientState: generation, player, creator, participant, copied, auto
    clipboard,        \* the OS clipboard: a code, or 0 for anything else
    unreliable,       \* codes a clipboard helper process failed on
    requests,         \* request threads not finished
    channel,          \* events they sent
    peer,             \* PeerSession: tx, rx, handle, generation, state
    workers,          \* the RustScale workers, by worker generation
    counts            \* lobbies created, frames made, codes minted and the sessions they were for

vars == <<main, shell, lobby, clipboard, unreliable, requests, channel, peer, workers, counts>>

OneShot == {"create", "creator_join", "share", "join"}
Operation == OneShot \cup {"readiness", "poll", "leave"}

(* WorkerCommand: a frame's number, or Stop. *)
Stop == 0

NoWorker == [phase |-> "none", lobby |-> 0, cmds |-> <<>>, deferred |-> <<>>, out |-> <<>>]

(* PeerSession::init, LobbyClientState::default and the shell's _ready. *)
Init ==
    /\ main = "run"
    /\ shell = [screen |-> "title", enabled |-> FALSE, leaving |-> FALSE, stopping |-> FALSE,
                armed |-> {"create", "join"}]
    /\ lobby = [generation |-> 1, player |-> TRUE, creator |-> 0, participant |-> 0,
                copied |-> 0, auto |-> 0]
    /\ clipboard = 0 /\ unreliable = {}
    /\ requests = {[op |-> "readiness", gen |-> 1, lobby |-> 0]}
    /\ channel = <<>>
    /\ peer = [tx |-> 0, rx |-> 0, handle |-> 0, generation |-> 0, state |-> "offline"]
    /\ workers = [w \in 1..MaxWorkers |-> NoWorker]
    /\ counts = [lobbies |-> 0, codes |-> 0, frames |-> 0, minted |-> <<>>]
-----------------------------------------------------------------------------
(* Requests.                                                                 *)

Event(kind, r) == [kind |-> kind, op |-> r.op, gen |-> r.gen, lobby |-> r.lobby]

Request(op, n) == [op |-> op, gen |-> lobby.generation, lobby |-> n]

HasRoom == Cardinality(requests) + Len(channel) < MaxRequests

(* spawn_request.  An OS that gives no thread sends the same failure event   *)
(* as a thread that fails at once. *)
Spawned(r, queue) == requests' = requests \cup {r} /\ channel' = queue

(* fail_now: the answer of a request that is not sent. *)
FailNow(r, queue) == requests' = requests /\ channel' = Append(queue, Event("failed", r))

(* A request thread ends.  A one-shot request is never raced with            *)
(* cancellation; any other one may lose that race once its generation ended. *)
Finish ==
    \E r \in requests, kind \in {"ok", "failed"} :
        /\ requests' = requests \ {r}
        /\ channel' = Append(channel, Event(kind, r))
        /\ UNCHANGED <<main, shell, lobby, clipboard, unreliable, peer, workers, counts>>
-----------------------------------------------------------------------------
(* The codes and the clipboard.                                              *)

(* capture_launch_code, capture_join_code: the native input is emptied and   *)
(* armed.  What the player then types shows in the button's action. *)
Armed(op) == [shell EXCEPT !.armed = @ \cup {op}]

Capture(op) ==
    /\ main = "run" /\ shell.screen = "title" /\ op \notin shell.armed
    /\ shell' = Armed(op)
    /\ UNCHANGED <<main, lobby, clipboard, unreliable, requests, channel, peer, workers, counts>>

(* A paste into an armed input: the clipboard is read, and cleared when it   *)
(* still holds what was read. *)
Paste ==
    /\ main = "run" /\ shell.screen = "title" /\ shell.armed # {} /\ clipboard # 0
    /\ \/ clipboard' = 0 /\ UNCHANGED unreliable
       \/ clipboard' = clipboard /\ unreliable' = unreliable \cup {clipboard}
    /\ UNCHANGED <<main, shell, lobby, requests, channel, peer, workers, counts>>

(* Somebody else writes the clipboard. *)
HumanCopies ==
    /\ clipboard # 0 /\ clipboard' = 0
    /\ UNCHANGED <<main, shell, lobby, unreliable, requests, channel, peer, workers, counts>>

(* native_clipboard_clear_if_matches: reads, and clears a match; either      *)
(* helper process may fail, which leaves the code where it is.               *)
ClearedIfMatches(code) ==
    IF code # 0 /\ clipboard = code THEN {<<0, {}>>, <<code, {code}>>} ELSE {<<clipboard, {}>>}

(* copy_invitation: the previous code is cleared and forgotten, then the new *)
(* one is written, then remembered. *)
CopyInvitation(code) ==
    \E cleared \in ClearedIfMatches(lobby.copied), written \in BOOLEAN :
        /\ clipboard' = IF written THEN code ELSE cleared[1]
        /\ unreliable' = unreliable \cup cleared[2]
        /\ lobby' = [lobby EXCEPT !.copied = IF written THEN code ELSE 0]
-----------------------------------------------------------------------------
(* The shell's buttons.                                                      *)

(* consume, consume_join_code: the input is emptied and disarmed. *)
Consumed(op) == [shell EXCEPT !.armed = @ \ {op}, !.enabled = FALSE]

(* The request a button sends when the input held a well-formed code and the *)
(* player is configured; a failure event otherwise. *)
Submit(r) ==
    \/ r.op \in shell.armed /\ lobby.player /\ Spawned(r, channel)
    \/ FailNow(r, channel)

(* _on_create_pressed, submit_create, LobbyClientState::create. *)
CreatePressed ==
    /\ main = "run" /\ shell.screen = "title" /\ shell.enabled /\ HasRoom
    /\ counts.lobbies < MaxLobbies
    /\ shell' = Consumed("create")
    /\ counts' = [counts EXCEPT !.lobbies = @ + 1]
    /\ Submit(Request("create", counts.lobbies + 1))
    /\ UNCHANGED <<main, lobby, clipboard, unreliable, peer, workers>>

(* _on_join_pressed, submit_join, LobbyClientState::join. *)
JoinPressed ==
    /\ main = "run" /\ shell.screen = "title" /\ shell.enabled /\ HasRoom
    /\ shell' = Consumed("join")
    /\ Submit(Request("join", 0))
    /\ UNCHANGED <<main, lobby, clipboard, unreliable, peer, workers, counts>>

(* The shell's polls, reports, renewals and heartbeats. *)
Poll ==
    /\ main = "run" /\ shell.screen # "title" /\ lobby.participant # 0 /\ HasRoom
    /\ Spawned(Request("poll", 0), channel)
    /\ UNCHANGED <<main, shell, lobby, clipboard, unreliable, peer, workers, counts>>

(* copy_invitation_to_clipboard, called again in the waiting room. *)
ShareAgain ==
    /\ main = "run" /\ shell.screen = "waiting" /\ HasRoom /\ counts.codes < MaxCodes
    /\ LET r == Request("share", 0)
       IN  IF lobby.creator = 0 THEN FailNow(r, channel) ELSE Spawned(r, channel)
    /\ UNCHANGED <<main, shell, lobby, clipboard, unreliable, peer, workers, counts>>

(* shutdown: Stop is queued and the command sender dropped. *)
StoppedPeer == IF peer.tx = 0 THEN peer ELSE [peer EXCEPT !.tx = 0, !.state = "disconnecting"]
StoppedWorkers ==
    IF peer.tx = 0 THEN workers
    ELSE [workers EXCEPT ![peer.tx].cmds = Append(@, Stop)]

(* _begin_leave shows the teardown screen and stops the transport, once.     *)
BeginLeave ==
    IF shell.leaving THEN shell
    ELSE [shell EXCEPT !.screen = "teardown", !.leaving = TRUE, !.stopping = TRUE]

LeavePressed ==
    /\ main = "run" /\ shell.screen = "waiting" /\ ~shell.leaving
    /\ shell' = BeginLeave
    /\ peer' = StoppedPeer /\ workers' = StoppedWorkers
    /\ UNCHANGED <<main, lobby, clipboard, unreliable, requests, channel, counts>>

(* _begin_leave after its await, once the peer is offline or a second has    *)
(* passed: the leave request goes out.  If a reset came first there is no    *)
(* lobby to name any more. *)
RequestLeave ==
    /\ main = "run" /\ shell.stopping /\ HasRoom
    /\ shell' = [shell EXCEPT !.stopping = FALSE]
    /\ LET r == Request("leave", 0)
       IN  IF shell.leaving THEN Spawned(r, channel) ELSE FailNow(r, channel)
    /\ UNCHANGED <<main, lobby, clipboard, unreliable, peer, workers, counts>>

(* configure_lobby_player, before another session of the same client. *)
Configure ==
    /\ main = "run" /\ shell.screen = "title" /\ ~lobby.player /\ HasRoom
    /\ lobby' = [lobby EXCEPT !.player = TRUE]
    /\ Spawned(Request("readiness", 0), channel)
    /\ UNCHANGED <<main, shell, clipboard, unreliable, peer, workers, counts>>
-----------------------------------------------------------------------------
(* _reset_to_title: cancel_lobby_operations, then clear_lobby_session.       *)

(* LobbyClientState::cancel up to the read of the clipboard. *)
Cancelled ==
    [lobby EXCEPT !.generation = @ + 1, !.player = FALSE, !.creator = 0, !.participant = 0,
                  !.auto = 0]
Cancel(queue) ==
    /\ lobby.generation < MaxGeneration
    /\ main' = "cancelling" /\ lobby' = Cancelled
    /\ channel' = queue /\ UNCHANGED requests

(* cancel: the remembered code is cleared from the clipboard and the queued  *)
(* events are dropped; the request threads are joined only after that. *)
DrainEvents ==
    /\ main = "cancelling"
    /\ \E cleared \in ClearedIfMatches(lobby.copied) :
           clipboard' = cleared[1] /\ unreliable' = unreliable \cup cleared[2]
    /\ lobby' = [lobby EXCEPT !.copied = 0]
    /\ channel' = <<>>
    /\ main' = "joining"
    /\ UNCHANGED <<shell, requests, peer, workers, counts>>

(* The last request thread is joined; then shutdown and clear_capture. *)
JoinRequests ==
    /\ main = "joining" /\ requests = {}
    /\ peer' = StoppedPeer /\ workers' = StoppedWorkers
    /\ shell' = [shell EXCEPT !.armed = {}]
    /\ main' = "clearing"
    /\ UNCHANGED <<lobby, clipboard, unreliable, requests, channel, counts>>

(* clear_lobby_session: the worker is joined and its generation retired. *)
Ended(w) == w # 0 => workers[w].phase = "ended"
WorkerJoined == Ended(peer.handle)
ClearSession ==
    /\ main = "clearing" /\ WorkerJoined
    /\ peer' = [peer EXCEPT !.handle = 0, !.generation = @ + 1, !.state = "offline"]
    /\ shell' = [shell EXCEPT !.screen = "title", !.enabled = FALSE, !.leaving = FALSE]
    /\ main' = "run"
    /\ UNCHANGED <<lobby, clipboard, unreliable, requests, channel, workers, counts>>
-----------------------------------------------------------------------------
(* poll_lobby_events, one event at a time with the shell's reaction.         *)

(* Fault: late events of a cancelled session are applied. *)
CurrentAny(event) == TRUE

(* An event of another generation is skipped. *)
Current(event) == event.gen = lobby.generation

(* _on_request_failed on the title screen arms the input again and probes;   *)
(* a failed poll is ignored, and elsewhere only a text changes.              *)
RequestFailed(op, queue) ==
    IF op = "poll" \/ shell.screen # "title"
    THEN UNCHANGED <<shell, requests>> /\ channel' = queue
    ELSE /\ shell' = CASE op = "create" -> Armed("create")
                       [] op \in {"join", "creator_join"} -> Armed("join")
                       [] OTHER -> shell
         /\ Spawned(Request("readiness", 0), queue)

(* connect_native: the receiver and the thread handle of the worker before   *)
(* are dropped. *)
Connected(w) ==
    /\ peer' = [tx |-> w, rx |-> w, handle |-> w, generation |-> w, state |-> "connecting"]
    /\ workers' = [v \in DOMAIN workers |->
                       IF v = w THEN [NoWorker EXCEPT !.phase = "starting", !.lobby = lobby.generation]
                       ELSE [workers[v] EXCEPT !.out = <<>>]]

(* connect_native refuses while a command sender is held; when the OS gives  *)
(* no thread, the worker generation is used up all the same. *)
Refused ==
    /\ UNCHANGED workers
    /\ \/ peer.tx # 0 /\ UNCHANGED peer
       \/ /\ peer.tx = 0 /\ peer.generation < MaxWorkers
          /\ peer' = [peer EXCEPT !.generation = @ + 1]

(* _on_joined: the lobby is shown and its creator asks for a code to share,  *)
(* whether or not the client is leaving.  A projection that cannot be read   *)
(* or bound is a failed request like any other, and a course that cannot be  *)
(* set up sends a leave: both keep the screen, the worker and the capability. *)
OnJoined(queue) ==
    \/ /\ shell' = [shell EXCEPT !.screen = "waiting"]
       /\ IF lobby.creator # 0 /\ counts.codes < MaxCodes
          THEN Spawned(Request("share", 0), queue)
          ELSE requests' = requests /\ channel' = queue
    \/ RequestFailed("join", queue)
    \/ shell' = shell /\ Spawned(Request("leave", 0), queue)

(* Joined: the worker is started with the enrollment key, and then the       *)
(* capability installed and the shell told. *)
JoinedPosse(queue) ==
    \/ /\ peer.tx = 0 /\ peer.generation < MaxWorkers
       /\ Connected(peer.generation + 1)
       /\ lobby' = [lobby EXCEPT !.participant = lobby.generation]
       /\ OnJoined(queue)
    \/ Refused /\ RequestFailed("join", queue) /\ UNCHANGED lobby

PollLobbyEvent ==
    /\ main = "run" /\ channel # <<>>
    /\ LET event == Head(channel)
           rest == Tail(channel)
           Still == UNCHANGED <<main, clipboard, unreliable, peer, workers, counts>>
       IN  \/ /\ ~Current(event)
              /\ channel' = rest /\ UNCHANGED <<shell, lobby, requests>> /\ Still
           \/ /\ Current(event) /\ event.kind = "failed"
              /\ RequestFailed(event.op, rest) /\ UNCHANGED lobby /\ Still
           \/ /\ Current(event) /\ event.kind = "ok" /\ event.op = "readiness"
              /\ \E open \in BOOLEAN : shell' = [shell EXCEPT !.enabled = open]
              /\ channel' = rest /\ UNCHANGED <<lobby, requests>> /\ Still
           \/ /\ Current(event) /\ event.kind = "ok" /\ event.op = "create"
              /\ lobby' = [lobby EXCEPT !.creator = event.gen, !.auto = event.lobby]
              /\ Spawned(Request("creator_join", event.lobby), rest)
              /\ UNCHANGED shell /\ Still
           \/ /\ Current(event) /\ event.kind = "ok" /\ event.op = "creator_join"
              /\ lobby' = [lobby EXCEPT !.auto = 0]
              /\ IF lobby.auto # event.lobby THEN requests' = requests /\ channel' = rest
                 ELSE IF lobby.player THEN Spawned(Request("join", event.lobby), rest)
                 ELSE FailNow(Request("join", event.lobby), rest)
              /\ UNCHANGED shell /\ Still
           \/ /\ Current(event) /\ event.kind = "ok" /\ event.op = "share"
              /\ counts.codes < MaxCodes
              /\ counts' = [counts EXCEPT !.codes = @ + 1, !.minted = Append(@, event.gen)]
              /\ CopyInvitation(counts.codes + 1)
              /\ IF lobby'.copied = 0 THEN RequestFailed("share", rest)
                 ELSE channel' = rest /\ UNCHANGED <<shell, requests>>
              /\ UNCHANGED <<main, peer, workers>>
           \/ /\ Current(event) /\ event.kind = "ok" /\ event.op = "join"
              /\ JoinedPosse(rest)
              /\ UNCHANGED <<main, clipboard, unreliable, counts>>
           \/ /\ Current(event) /\ event.kind = "ok" /\ event.op = "poll"
              /\ channel' = rest /\ UNCHANGED <<shell, lobby, requests>> /\ Still
           \/ /\ Current(event) /\ event.kind = "ok"
              /\ event.op = "leave" \/ (event.op = "poll" /\ shell.screen = "teardown")
              /\ Cancel(rest)
              /\ UNCHANGED <<shell, clipboard, unreliable, peer, workers, counts>>
-----------------------------------------------------------------------------
(* The RustScale worker.                                                     *)

Become(w, phase, events) ==
    workers' = [workers EXCEPT ![w].phase = phase,
                               ![w].out = IF w = peer.rx THEN @ \o events ELSE <<>>,
                               ![w].cmds = IF phase = "ended" THEN <<>> ELSE @,
                               ![w].deferred = IF phase = "ended" THEN <<>> ELSE @]

(* A dropped sender closes the command channel once it is empty. *)
Closed(w) == peer.tx # w /\ workers[w].cmds = <<>>

WorkerOnly == UNCHANGED <<main, shell, lobby, clipboard, unreliable, requests, channel, peer, counts>>

(* run_worker: the runtime is built, or the worker ends at once. *)
StartWorker(w) ==
    /\ workers[w].phase = "starting"
    /\ \/ Become(w, "enrolling", <<>>)
       \/ Become(w, "ended", <<"failed">>)
    /\ WorkerOnly

(* enroll_with_cancellation: a command while enrollment is in flight. *)
EnrollCommand(w) ==
    /\ workers[w].phase = "enrolling"
    /\ \/ /\ Closed(w) \/ (workers[w].cmds # <<>> /\ Head(workers[w].cmds) = Stop)
          /\ Become(w, "ended", <<"stopped">>)
       \/ /\ workers[w].cmds # <<>> /\ Head(workers[w].cmds) # Stop
          /\ workers' = [workers EXCEPT ![w].cmds = Tail(@),
                                        ![w].deferred = Append(@, Head(workers[w].cmds))]
    /\ WorkerOnly

(* enroll_with_cancellation: the answer.  What was queued meanwhile is       *)
(* drained first, and a Stop or a closed channel among it cancels. *)
EnrollAnswer(w) ==
    /\ workers[w].phase = "enrolling"
    /\ \/ /\ peer.tx # w
          /\ Become(w, "ended", <<"stopped">>)
       \/ /\ peer.tx = w
          /\ workers' = [workers EXCEPT ![w].phase = "live", ![w].out = Append(@, "connected"),
                                        ![w].deferred = @ \o workers[w].cmds, ![w].cmds = <<>>]
       \/ /\ peer.tx = w
          /\ Become(w, "ended", <<"failed">>)
    /\ WorkerOnly

(* handle_command for a frame: sent, or reported as failed. *)
HandleFrame(w, field) ==
    \/ workers' = [workers EXCEPT ![w][field] = Tail(@)]
    \/ workers' = [workers EXCEPT ![w][field] = Tail(@),
                                  ![w].out = IF w = peer.rx THEN Append(@, "failed") ELSE <<>>]

Replay(w) ==
    /\ workers[w].phase = "live" /\ workers[w].deferred # <<>>
    /\ Len(workers[w].out) < MaxEvents
    /\ HandleFrame(w, "deferred")
    /\ WorkerOnly

(* The network loop: queued commands before each receive. *)
LiveCommand(w) ==
    /\ workers[w].phase = "live" /\ workers[w].deferred = <<>>
    /\ \/ /\ Closed(w) \/ (workers[w].cmds # <<>> /\ Head(workers[w].cmds) = Stop)
          /\ Become(w, "closing", <<>>)
       \/ /\ workers[w].cmds # <<>> /\ Head(workers[w].cmds) # Stop
          /\ Len(workers[w].out) < MaxEvents
          /\ HandleFrame(w, "cmds")
    /\ WorkerOnly

(* recv_datagram fails.  (A packet it receives is passed on and changes      *)
(* nothing here.) *)
Receive(w) ==
    /\ workers[w].phase = "live" /\ workers[w].deferred = <<>>
    /\ Len(workers[w].out) < MaxEvents
    /\ Become(w, "closing", <<"failed">>)
    /\ WorkerOnly

(* close_peer, at most four attempts, then Stopped. *)
CloseWorker(w) ==
    /\ workers[w].phase = "closing"
    /\ \/ Become(w, "ended", <<"stopped">>)
       \/ Become(w, "ended", <<"failed", "stopped">>)
    /\ WorkerOnly

WorkerStep(w) ==
    \/ StartWorker(w) \/ EnrollCommand(w) \/ EnrollAnswer(w) \/ Replay(w) \/ LiveCommand(w)
    \/ Receive(w) \/ CloseWorker(w)

(* send_packet. *)
SendPacket ==
    /\ main = "run" /\ peer.tx # 0 /\ counts.frames < MaxFrames
    /\ workers' = [workers EXCEPT ![peer.tx].cmds = Append(@, counts.frames + 1)]
    /\ counts' = [counts EXCEPT !.frames = @ + 1]
    /\ UNCHANGED <<main, shell, lobby, clipboard, unreliable, requests, channel, peer>>

(* poll_events, one event at a time; a finished worker is joined.  An event  *)
(* of a retired worker is skipped; a failure makes the shell leave, whatever *)
(* screen it is on (_on_peer_failed). *)
OfThisWorker(w) == w = peer.generation
PollWorkerEvent ==
    /\ main = "run" /\ peer.rx # 0 /\ workers[peer.rx].out # <<>>
    /\ LET w == peer.rx
           event == Head(workers[w].out)
           popped == [workers EXCEPT ![w].out = Tail(@)]
           Joined(p) == [p EXCEPT !.handle = IF Ended(@) THEN 0 ELSE @]
       IN  /\ workers' = popped
           /\ IF ~OfThisWorker(w)
              THEN peer' = Joined(peer) /\ UNCHANGED shell
              ELSE /\ peer' = Joined(CASE event = "connected" -> [peer EXCEPT !.state = "connected"]
                                       [] event = "failed" -> [peer EXCEPT !.state = "error", !.tx = 0]
                                       [] event = "stopped" -> [peer EXCEPT !.state = "offline", !.tx = 0])
                   /\ shell' = IF event = "failed" THEN BeginLeave ELSE shell
    /\ UNCHANGED <<main, lobby, clipboard, unreliable, requests, channel, counts>>

(* What ends without the players' help: the request threads and workers the  *)
(* Godot thread waits for, and that thread itself. *)
Progress ==
    \/ Finish \/ DrainEvents \/ JoinRequests \/ ClearSession
    \/ \E w \in 1..MaxWorkers : StartWorker(w) \/ EnrollCommand(w) \/ EnrollAnswer(w) \/ CloseWorker(w)

Next ==
    \/ Progress
    \/ \E op \in {"create", "join"} : Capture(op)
    \/ Paste \/ HumanCopies \/ CreatePressed \/ JoinPressed \/ Poll \/ ShareAgain \/ LeavePressed
    \/ RequestLeave \/ Configure \/ PollLobbyEvent \/ SendPacket \/ PollWorkerEvent
    \/ \E w \in 1..MaxWorkers : Replay(w) \/ LiveCommand(w) \/ Receive(w)

Spec == Init /\ [][Next]_vars
-----------------------------------------------------------------------------
Runs(w) == workers[w].phase \notin {"none", "ended"}

(* A worker that runs although its thread handle was dropped for that of the *)
(* next worker. *)
Replaced(w) == Runs(w) /\ w # peer.handle

(* Nothing of a cancelled session takes part in the next one: the            *)
(* capabilities held are those of this generation and, when the Godot thread *)
(* is not inside a reset, the code remembered was minted for it and no       *)
(* worker enrolled for another generation runs, except one that was replaced *)
(* and is on its way out (see OneWorker).                                    *)
SessionsDoNotMix ==
    /\ {lobby.creator, lobby.participant} \subseteq {0, lobby.generation}
    /\ main = "run" /\ lobby.copied # 0 => counts.minted[lobby.copied] = lobby.generation
    /\ main = "run" => \A w \in 1..MaxWorkers :
           Runs(w) => workers[w].lobby = lobby.generation \/ Replaced(w)

(* A one-use code stays on the clipboard only while the client remembers it, *)
(* so that a reset removes it; a failing helper process is the exception.    *)
CodesAreTracked ==
    clipboard # 0 => clipboard = lobby.copied \/ clipboard \in unreliable

(* connection_state tells the truth about the current worker: "connected"    *)
(* means that it runs or that the event of its end is still to be polled,    *)
(* unless the OS refused the thread of another worker since.                 *)
ConnectionIsTrue ==
    peer.state \in {"connecting", "connected"} =>
        LET w == peer.rx
        IN  /\ w # 0 /\ w <= peer.generation
            /\ \/ workers[w].phase # "ended"
               \/ \E i \in DOMAIN workers[w].out : workers[w].out[i] \in {"failed", "stopped"}
               \/ w < peer.generation

(* Two embedded peers may overlap, when a join is answered after the worker  *)
(* of an earlier one failed or was stopped.  But only the newest, the one a  *)
(* reset waits for, can be sent frames or be heard: a replaced worker has    *)
(* its commands closed, which ends it, and its events dropped.               *)
OneWorker ==
    \A w \in 1..MaxWorkers : Replaced(w) =>
        /\ w \notin {peer.tx, peer.rx} /\ workers[w].out = <<>>
        /\ \A v \in 1..MaxWorkers : Runs(v) /\ ~Replaced(v) => v > w
=============================================================================
