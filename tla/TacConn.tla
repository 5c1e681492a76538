-------------------------------- MODULE TacConn --------------------------------
(***************************************************************************)
(* One TACACS+ connection of an edge client: the goroutines that serve it  *)
(* (serve, readLoop and writeLoop of pkg/public/tacplus/conn.go), the      *)
(* goroutine of each session multiplexed on it (serveSession of server.go) *)
(* and the idle timer.                                                     *)
(*                                                                         *)
(* The channels rc, wc and sessClose are unbuffered: a send and its        *)
(* receive are one step, and a select with several ready cases may take    *)
(* any of them.  A session's channel in holds one packet.  Of a packet     *)
(* only the session id and the sequence number matter here; the parity     *)
(* check never fails once the sequence number is the expected one.         *)
(***************************************************************************)
EXTENDS Naturals

CONSTANTS
    Ids,           \* session ids in packet headers
    None,          \* no session, no packet, no id
    MuxModes,      \* ConnConfig: values LegacyMux and Mux may have
    IdleTimeout,   \* ConnConfig: whether it is greater than zero
    MaxPackets,    \* bound on packets received
    MaxPrompts     \* bound on prompts of one login

\* Sessions in the order they are created; each takes a packet to create.
Sessions == 1 .. MaxPackets

\* Devices send odd sequence numbers: 1 starts a session, 3 answers its first
\* prompt.
Packet == [id : Ids, seq : {1, 3}]

ASSUME ConnAssumption ==
    /\ MuxModes \subseteq [LegacyMux : BOOLEAN, Mux : BOOLEAN]
    /\ IdleTimeout \in BOOLEAN
    /\ MaxPackets \in Nat /\ MaxPrompts \in Nat
    /\ None \notin Nat /\ None \notin Packet /\ None \notin Ids

VARIABLES
    closed,      \* conn.done is closed
    broken,      \* history: a read or a write of the network failed
    serving,     \* serve: "serve", "leave" (about to clean up), "ended"
    mux,
    checkMux,
    sess,        \* the session each id stands for
    idleT,       \* idle timer: "nil", "running", "stopped", "fired"
    reader,      \* readLoop: "run", "ended"
    rc,          \* the packet readLoop offers to serve
    writer,      \* writeLoop: "run", "ended"
    writing,     \* the session whose packet writeLoop writes
    received,    \* history: number of packets received
    born,        \* history: number of sessions created
    id,          \* session.id
    open,        \* session.done exists and is not closed
    in,          \* session.in: sequence number of the packet queued, 0: none
    overflowed,  \* history: the session was closed for a full queue
    pc,          \* where the session's goroutine is
    what,        \* what it reads or writes: "start", "prompt", "final", "error"
    p,           \* sequence number of ServerSession.p, 0: nil
    seq,         \* session.seq, of the last packet written
    ec,          \* the result of its write request: "none", "ok", "err"
    prompts,     \* history: number of prompts made
    replied      \* history: a final reply or an error was written

connVars == <<closed, broken, serving, mux, checkMux, sess, idleT>>
loopVars == <<reader, rc, writer, writing, received>>
sessionVars == <<born, id, open, in, overflowed>>
handlerVars == <<pc, what, p, seq, ec, prompts, replied>>
vars == <<connVars, loopVars, sessionVars, handlerVars>>

\* newConn
Init ==
    /\ closed = FALSE /\ broken = FALSE
    /\ serving = "serve"
    /\ \E mode \in MuxModes : /\ mux = mode.LegacyMux
                              /\ checkMux = (~mode.LegacyMux /\ mode.Mux)
    /\ sess = [i \in Ids |-> None]
    /\ idleT = "nil"
    /\ reader = "run" /\ rc = None
    /\ writer = "run" /\ writing = None
    /\ received = 0 /\ born = 0
    /\ id = [s \in Sessions |-> None]
    /\ open = [s \in Sessions |-> FALSE]
    /\ in = [s \in Sessions |-> 0]
    /\ overflowed = [s \in Sessions |-> FALSE]
    /\ pc = [s \in Sessions |-> "unborn"]
    /\ what = [s \in Sessions |-> "start"]
    /\ p = [s \in Sessions |-> 0]
    /\ seq = [s \in Sessions |-> 0]
    /\ ec = [s \in Sessions |-> "none"]
    /\ prompts = [s \in Sessions |-> 0]
    /\ replied = [s \in Sessions |-> FALSE]

-----------------------------------------------------------------------------
(* serve and the idle timer. *)

NoSessions == \A i \in Ids : sess[i] = None

\* Mutant: a connection that is not multiplexed is left after any event.
LeaveUnlessMux == serving' = IF mux' THEN "serve" ELSE "leave"

\* The end of the loop's body: a connection that is not multiplexed is left
\* when it has no session.
LeaveWhenDone ==
    serving' = IF ~mux' /\ NoSessions' THEN "leave" ELSE "serve"

\* Receive a packet; the first one tells whether the device multiplexes.
TakePacket(packet) ==
    /\ serving = "serve"
    /\ rc = packet /\ packet # None
    /\ rc' = None
    /\ checkMux' = FALSE
    /\ IF checkMux THEN mux' \in BOOLEAN ELSE UNCHANGED mux
    /\ UNCHANGED <<closed, broken, reader, writer, writing, received>>

\* Mutant: the idle timer is left running.
LeaveTimer == idleT' = idleT

\* idleT.Stop() succeeded, or there is no timer to stop.
StopTimer == idleT' = IF NoSessions /\ idleT # "nil" THEN "stopped" ELSE idleT

\* processPacket, for an id that no session has.
NewSession(packet) ==
    LET s == born + 1 IN
    /\ TakePacket(packet)
    /\ sess[packet.id] = None
    /\ ~(NoSessions /\ idleT \in {"fired", "stopped"})
    /\ s \in Sessions
    /\ StopTimer
    /\ born' = s
    /\ sess' = [sess EXCEPT ![packet.id] = s]
    /\ id' = [id EXCEPT ![s] = packet.id]
    /\ open' = [open EXCEPT ![s] = TRUE]
    /\ in' = [in EXCEPT ![s] = packet.seq]
    /\ pc' = [pc EXCEPT ![s] = "read"]
    /\ UNCHANGED <<overflowed, what, p, seq, ec, prompts, replied>>
    /\ LeaveWhenDone

\* processPacket, when the idle timer was triggered already: the packet is
\* dropped and the connection is about to close.
DropPacket(packet) ==
    /\ TakePacket(packet)
    /\ sess[packet.id] = None
    /\ NoSessions /\ idleT \in {"fired", "stopped"}
    /\ UNCHANGED <<sess, idleT, sessionVars, handlerVars>>
    /\ LeaveWhenDone

\* processPacket, for a session that has room for it.
QueuePacket(packet) ==
    LET s == sess[packet.id] IN
    /\ TakePacket(packet)
    /\ s # None
    /\ in[s] = 0
    /\ in' = [in EXCEPT ![s] = packet.seq]
    /\ UNCHANGED <<sess, idleT, born, id, open, overflowed, handlerVars>>
    /\ LeaveWhenDone

\* Mutant: whatever session has the id is forgotten.
CloseById(s) ==
    /\ sess' = [sess EXCEPT ![id[s]] = None]
    /\ open' = [open EXCEPT ![s] = FALSE]
    /\ idleT' = IF NoSessions' /\ mux /\ IdleTimeout THEN "running" ELSE idleT

\* Mutant: the timer is created the first time and not reset later.
CloseWithoutReset(s) ==
    IF sess[id[s]] = s
    THEN /\ sess' = [sess EXCEPT ![id[s]] = None]
         /\ open' = [open EXCEPT ![s] = FALSE]
         /\ idleT' = IF NoSessions' /\ mux /\ IdleTimeout /\ idleT = "nil"
                     THEN "running" ELSE idleT
    ELSE UNCHANGED <<sess, open, idleT>>

\* closeSession: nothing to do for a session that was closed already, even if
\* another one has taken its id.
CloseSession(s) ==
    IF sess[id[s]] = s
    THEN /\ sess' = [sess EXCEPT ![id[s]] = None]
         /\ open' = [open EXCEPT ![s] = FALSE]
         /\ idleT' = IF NoSessions' /\ mux /\ IdleTimeout THEN "running" ELSE idleT
    ELSE UNCHANGED <<sess, open, idleT>>

\* processPacket, for a session that has not read its last packet yet.
OverflowSession(packet) ==
    LET s == sess[packet.id] IN
    /\ TakePacket(packet)
    /\ s # None
    /\ in[s] # 0
    /\ CloseSession(s)
    /\ overflowed' = [overflowed EXCEPT ![s] = TRUE]
    /\ UNCHANGED <<born, id, in, handlerVars>>
    /\ LeaveWhenDone

\* Receive a session to close from its goroutine, which then waits for done.
TakeClose(s) ==
    /\ serving = "serve"
    /\ pc[s] = "close"
    /\ CloseSession(s)
    /\ pc' = [pc EXCEPT ![s] = "closing"]
    /\ UNCHANGED <<closed, broken, mux, checkMux, loopVars, born, id, in,
                   overflowed, what, p, seq, ec, prompts, replied>>
    /\ LeaveWhenDone

\* serve returns and cleans up.  No session was left, or done was closed long
\* before: its closing and the sessions' need not be told apart.
Cleanup ==
    /\ serving = "leave" \/ (serving = "serve" /\ closed)
    /\ serving' = "ended"
    /\ closed' = TRUE
    /\ open' = [s \in Sessions |-> FALSE]
    /\ idleT' = IF idleT = "nil" THEN "nil" ELSE "stopped"
    /\ UNCHANGED <<broken, mux, checkMux, sess, loopVars, born, id, in,
                   overflowed, handlerVars>>

\* The idle timer expires; Stop reports it from now on ...
TimerFires ==
    /\ idleT = "running"
    /\ idleT' = "fired"
    /\ UNCHANGED <<closed, broken, serving, mux, checkMux, sess, loopVars,
                   sessionVars, handlerVars>>

\* ... and the timer's goroutine runs conn.close.
TimerCloses ==
    /\ idleT = "fired" /\ ~closed
    /\ closed' = TRUE
    /\ UNCHANGED <<broken, serving, mux, checkMux, sess, idleT, loopVars,
                   sessionVars, handlerVars>>

-----------------------------------------------------------------------------
(* readLoop and writeLoop. *)

Receive(packet) ==
    /\ reader = "run" /\ rc = None
    /\ serving # "ended"
    /\ received < MaxPackets
    /\ received' = received + 1
    /\ rc' = packet
    /\ UNCHANGED <<connVars, reader, writer, writing, sessionVars, handlerVars>>

\* The device closes the connection, a read fails or times out, or cleanup has
\* closed the connection under the read.
ReadFails ==
    /\ reader = "run" /\ rc = None
    /\ reader' = "ended"
    /\ closed' = TRUE
    /\ broken' = (broken \/ ~closed)
    /\ UNCHANGED <<serving, mux, checkMux, sess, idleT, rc, writer, writing,
                   received, sessionVars, handlerVars>>

\* The packet it offers is not wanted any more.
StopReading ==
    /\ reader = "run" /\ rc # None /\ closed
    /\ reader' = "ended"
    /\ rc' = None
    /\ UNCHANGED <<connVars, writer, writing, received, sessionVars, handlerVars>>

\* Receive a write request.  Its goroutine chose between this and giving up
\* the session in one select: the session may be closed.
AcceptWrite(s) ==
    /\ writer = "run" /\ writing = None
    /\ pc[s] = "send"
    /\ writing' = s
    /\ pc' = [pc EXCEPT ![s] = "wait"]
    /\ UNCHANGED <<connVars, reader, rc, writer, received, sessionVars, what, p,
                   seq, ec, prompts, replied>>

WriteSucceeds ==
    /\ writing # None
    /\ serving # "ended"
    /\ ec' = [ec EXCEPT ![writing] = "ok"]
    /\ replied' = [replied EXCEPT ![writing] = @ \/ what[writing] # "prompt"]
    /\ writing' = None
    /\ UNCHANGED <<connVars, reader, rc, writer, received, sessionVars, pc, what,
                   p, seq, prompts>>

\* Mutant: the goroutine that waits for the result is forgotten.
WriteFailsQuietly ==
    /\ writing # None
    /\ closed' = TRUE /\ broken' = TRUE
    /\ writer' = "ended" /\ writing' = None
    /\ UNCHANGED <<serving, mux, checkMux, sess, idleT, reader, rc, received,
                   sessionVars, handlerVars>>

WriteFails ==
    /\ writing # None
    /\ ec' = [ec EXCEPT ![writing] = "err"]
    /\ closed' = TRUE /\ broken' = TRUE
    /\ writer' = "ended" /\ writing' = None
    /\ UNCHANGED <<serving, mux, checkMux, sess, idleT, reader, rc, received,
                   sessionVars, pc, what, p, seq, prompts, replied>>

StopWriting ==
    /\ writer = "run" /\ writing = None /\ closed
    /\ writer' = "ended"
    /\ UNCHANGED <<connVars, reader, rc, writing, received, sessionVars,
                   handlerVars>>

-----------------------------------------------------------------------------
(* serveSession and the handlers it calls. *)

GoTo(s, place) == pc' = [pc EXCEPT ![s] = place]

\* readPacket, when a packet is queued: it must carry the number after the
\* last one written, else an error is sent.
ReadPacket(s) ==
    /\ pc[s] = "read" /\ in[s] # 0
    /\ p' = [p EXCEPT ![s] = in[s]]
    /\ in' = [in EXCEPT ![s] = 0]
    /\ IF in[s] = seq[s] + 1
       THEN GoTo(s, "handle") /\ UNCHANGED what
       ELSE GoTo(s, "write") /\ what' = [what EXCEPT ![s] = "error"]
    /\ UNCHANGED <<connVars, loopVars, born, id, open, overflowed, seq, ec,
                   prompts, replied>>

\* The session ends: ServerSession.close.  After a failed prompt this is also
\* where HandleAuthenStart's reply meets a nil packet: handleAuthenStart
\* panics, the deferred close runs and serveSession recovers.
Give(s) ==
    /\ GoTo(s, "close")
    /\ p' = [p EXCEPT ![s] = 0]

\* readPacket, when the session was closed: there is nothing to answer.
ReadNothing(s) ==
    /\ pc[s] = "read" /\ in[s] = 0 /\ ~open[s]
    /\ Give(s)
    /\ UNCHANGED <<connVars, loopVars, sessionVars, what, seq, ec, prompts,
                   replied>>

\* The request was handled; a request that cannot be decoded, or a reply that
\* cannot be encoded, is answered by an error.  myHandler always replies.
Handle(s) ==
    /\ pc[s] = "handle"
    /\ GoTo(s, "write")
    /\ \E reply \in {"final", "error"} : what' = [what EXCEPT ![s] = reply]
    /\ UNCHANGED <<connVars, loopVars, sessionVars, p, seq, ec, prompts, replied>>

\* GetUser or GetPass
Prompt(s) ==
    /\ pc[s] = "handle"
    /\ prompts[s] < MaxPrompts
    /\ prompts' = [prompts EXCEPT ![s] = @ + 1]
    /\ GoTo(s, "write")
    /\ what' = [what EXCEPT ![s] = "prompt"]
    /\ UNCHANGED <<connVars, loopVars, sessionVars, p, seq, ec, replied>>

\* writePacket does not start on a closed session ...
RefuseWrite(s) ==
    /\ pc[s] = "write" /\ ~open[s]
    /\ Give(s)
    /\ UNCHANGED <<connVars, loopVars, sessionVars, what, seq, ec, prompts,
                   replied>>

BeginWrite(s) ==
    /\ pc[s] = "write" /\ open[s]
    /\ seq' = [seq EXCEPT ![s] = p[s] + 1]
    /\ GoTo(s, "send")
    /\ UNCHANGED <<connVars, loopVars, sessionVars, what, p, ec, prompts, replied>>

\* ... and gives up when it is closed before writeLoop takes the request.
AbortWrite(s) ==
    /\ pc[s] = "send" /\ ~open[s]
    /\ Give(s)
    /\ UNCHANGED <<connVars, loopVars, sessionVars, what, seq, ec, prompts,
                   replied>>

\* A prompt that was written is followed by its answer; anything else ends the
\* session.
FinishWrite(s) ==
    /\ pc[s] = "wait" /\ ec[s] # "none"
    /\ ec' = [ec EXCEPT ![s] = "none"]
    /\ IF what[s] = "prompt" /\ ec[s] = "ok"
       THEN GoTo(s, "read") /\ UNCHANGED p
       ELSE Give(s)
    /\ UNCHANGED <<connVars, loopVars, sessionVars, what, seq, prompts, replied>>

\* session.close returns once done is closed, whether or not serve took the
\* session.
EndSession(s) ==
    /\ pc[s] \in {"close", "closing"} /\ ~open[s]
    /\ GoTo(s, "ended")
    /\ UNCHANGED <<connVars, loopVars, sessionVars, what, p, seq, ec, prompts,
                   replied>>

-----------------------------------------------------------------------------
ProcessPacket(packet) ==
    \/ NewSession(packet) \/ DropPacket(packet)
    \/ QueuePacket(packet) \/ OverflowSession(packet)

Session(s) ==
    \/ ReadPacket(s) \/ ReadNothing(s)
    \/ Handle(s) \/ Prompt(s)
    \/ RefuseWrite(s) \/ BeginWrite(s) \/ AbortWrite(s) \/ FinishWrite(s)
    \/ EndSession(s)

Next ==
    \/ \E packet \in Packet : ProcessPacket(packet) \/ Receive(packet)
    \/ \E s \in Sessions : TakeClose(s) \/ AcceptWrite(s) \/ Session(s)
    \/ Cleanup \/ TimerFires \/ TimerCloses
    \/ ReadFails \/ StopReading
    \/ WriteSucceeds \/ WriteFails \/ StopWriting

Spec == Init /\ [][Next]_vars

\* Every goroutine that can run is scheduled, a select with several ready
\* cases takes each of them in the long run, a timer expires, a write ends (it
\* has a deadline) and a read of a closed connection fails.  The device need
\* not send anything.
FairSpec ==
    /\ Spec
    /\ WF_vars(\E packet \in Packet : ProcessPacket(packet))
    /\ \A s \in Sessions : /\ WF_vars(TakeClose(s))
                           /\ WF_vars(AcceptWrite(s))
                           /\ WF_vars(Session(s))
    /\ WF_vars(Cleanup) /\ WF_vars(TimerFires) /\ WF_vars(TimerCloses)
    /\ WF_vars(serving = "ended" /\ ReadFails) /\ WF_vars(StopReading)
    /\ WF_vars(WriteSucceeds \/ WriteFails) /\ WF_vars(StopWriting)

-----------------------------------------------------------------------------
TypeOK ==
    /\ closed \in BOOLEAN /\ broken \in BOOLEAN
    /\ serving \in {"serve", "leave", "ended"}
    /\ mux \in BOOLEAN /\ checkMux \in BOOLEAN
    /\ sess \in [Ids -> Sessions \cup {None}]
    /\ idleT \in {"nil", "running", "stopped", "fired"}
    /\ reader \in {"run", "ended"} /\ rc \in Packet \cup {None}
    /\ writer \in {"run", "ended"} /\ writing \in Sessions \cup {None}
    /\ received \in 0 .. MaxPackets /\ born \in 0 .. MaxPackets
    /\ id \in [Sessions -> Ids \cup {None}]
    /\ open \in [Sessions -> BOOLEAN]
    /\ in \in [Sessions -> {0, 1, 3}]
    /\ overflowed \in [Sessions -> BOOLEAN]
    /\ pc \in [Sessions -> {"unborn", "read", "handle", "write", "send", "wait",
                            "close", "closing", "ended"}]
    /\ what \in [Sessions -> {"start", "prompt", "final", "error"}]
    /\ p \in [Sessions -> {0, 1, 3}]
    /\ seq \in [Sessions -> {0, 2, 4}]
    /\ ec \in [Sessions -> {"none", "ok", "err"}]
    /\ prompts \in [Sessions -> 0 .. MaxPrompts]
    /\ replied \in [Sessions -> BOOLEAN]

\* While a connection is served its table holds exactly the sessions whose done
\* channel is open: none that cannot be found to be closed, and no channel that
\* would be closed twice, though a session that was closed for a full queue
\* still asks to be closed when its id belongs to another.
RegistryIsExact ==
    serving # "ended" =>
        \A s \in Sessions : open[s] <=> \E i \in Ids : sess[i] = s /\ id[s] = i

\* The idle timer never runs, nor has it expired, while a session is served: a
\* packet that races with the timer is either dropped or stops it.
TimerSparesSessions ==
    serving # "ended" /\ idleT \in {"running", "fired"} => NoSessions

\* A session that ends was answered, unless the network failed or the device
\* sent it more packets than the protocol allows.  Neither the idle timer, nor
\* the end of a connection that is not multiplexed, nor the close request of
\* another session takes its reply away.
EverySessionIsAnswered ==
    \A s \in Sessions : pc[s] = "ended" =>
        replied[s] \/ overflowed[s] \/ broken

(* The invariants above are not inductive: these parts make them so. *)

\* What the sessions that exist, and those that do not yet, look like.
BirthInv ==
    \A s \in Sessions :
        /\ s > born => pc[s] = "unborn" /\ ~open[s]
        /\ s <= born => pc[s] # "unborn" /\ id[s] \in Ids
        /\ pc[s] \in {"handle", "write"} => p[s] # 0

\* The table and the open channels agree.
RegistryInv ==
    serving # "ended" =>
        /\ \A i \in Ids : sess[i] # None => /\ open[sess[i]]
                                            /\ id[sess[i]] = i
        /\ \A s \in Sessions : open[s] => sess[id[s]] = s

\* When the timer may run and why serve may be about to return.
TimerInv ==
    /\ TimerSparesSessions
    /\ serving = "leave" => NoSessions
    /\ closed /\ ~broken /\ serving # "ended" => idleT = "fired"

\* A session that is closed, or whose goroutine asks for it, has its reply or
\* an excuse.
ReplyInv ==
    /\ writing # None => pc[writing] = "wait" /\ ec[writing] = "none"
    /\ \A s \in Sessions :
           LET excused == replied[s] \/ overflowed[s] \/ broken IN
           /\ pc[s] \in {"close", "closing", "ended"} => excused
           /\ s <= born /\ ~open[s] => excused
           /\ ec[s] # "none" => pc[s] = "wait"
           /\ ec[s] = "ok" /\ what[s] # "prompt" => replied[s]
           /\ ec[s] = "err" => broken

ConnInv == TypeOK /\ BirthInv /\ RegistryInv /\ TimerInv /\ ReplyInv

\* A connection that is closed ends with all its goroutines: none of them waits
\* for ever for another that has gone.
ConnectionEnds ==
    closed ~> /\ serving = "ended" /\ reader = "ended" /\ writer = "ended"
              /\ \A s \in Sessions : pc[s] \in {"unborn", "ended"}

\* A multiplexed connection whose sessions are over is closed after the idle
\* timeout, unless another session begins.
IdleConnectionCloses ==
    (mux /\ IdleTimeout /\ NoSessions /\ born > 0) ~> (closed \/ ~NoSessions)

=============================================================================
