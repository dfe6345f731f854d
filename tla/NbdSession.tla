----------------------------- MODULE NbdSession -----------------------------
(***************************************************************************)
(* The NBD server (server/nbd-plugin/nbd.go): the accept loop, the option  *)
(* negotiation and the transmission phase of each connection, on top of    *)
(* the export manager that hands out the backend.                          *)
(*                                                                         *)
(* Threads: the accept loop, one goroutine per connection, the goroutine   *)
(* that closes all connections at shutdown, and the callers of the export  *)
(* manager.                                                                *)
(*                                                                         *)
(* Data.  The client's stream is a sequence of frames: request headers     *)
(* and, after the header of a WRITE, its payload, a frame of its own, so   *)
(* that taking one for the other is visible.                               *)
(* Offsets and lengths count blocks, of which a backend has Blocks.  A     *)
(* block's value names where it came from: the backend, or the connection  *)
(* that wrote it.  The counters of perf.Registry follow the phases and are *)
(* left out.                                                               *)
(***************************************************************************)
EXTENDS ExportManager, Sequences, Functions

CONSTANTS
    Blocks,         \* Backend.Size
    Card,           \* the blocks that WriteAt accepts: a card's extent
    MaxRequest,     \* Server.MaxRequest
    Requests,       \* the commands, offsets and lengths that clients send
    MaxOptions,     \* bound: options a client sends
    MaxRequests     \* bound: requests of all connections

ASSUME ServerAssumption ==
    /\ {Blocks, MaxRequest, MaxOptions, MaxRequests} \subseteq Nat \ {0}
    /\ Card \subseteq 0 .. Blocks - 1
    /\ None \notin Session

VARIABLES
    conn,           \* handle's local state, per connection
    stream,         \* what the client has sent and the server has not read
    buffer, free,   \* requestBuffers: contents, and those in the pool
    data,           \* the backends' blocks
    active,         \* Server.active
    stopping        \* the context of Serve has ended

serverVars == <<conn, stream, buffer, free, data, active, stopping>>
nbdVars == <<managerVars, conn, stream, buffer, free, data, active, stopping>>

Buffer == Session               \* a new buffer for every taker, if need be
\* STARTTLS; EXPORT_NAME and GO of this export; ABORT, or EXPORT_NAME of another;
\* INFO, GO of another export, anything else; a frame that is not an option.
Options == {"starttls", "select", "abort", "other", "invalid"}
Commands == {"read", "write", "flush", "trim", "zeroes", "unknown", "disconnect",
             "invalid"}
ASSUME RequestAssumption == Requests \subseteq [cmd : Commands, off : Nat, len : Nat]

Request == [cmd : Commands, off : Nat, len : Nat, handle : 0 .. MaxRequests]
NoRequest == [cmd |-> "flush", off |-> 0, len |-> 0, handle |-> 0]
Frame == [kind : {"header", "payload"}, req : Request]
FrameOf(kind, req) == [kind |-> kind, req |-> req]
Stale == <<None, 0>>            \* what a pooled buffer holds of earlier requests
Payload(c) == <<c, 1>>          \* what connection c writes
Value == {Stale} \cup (Profile \X (0 .. Blocks - 1)) \cup {Payload(c) : c \in Session}
Pooled == [i \in 1 .. MaxRequest |-> Stale]

\* phase: new, accepted, begin, flags, options (secured or not), tls, header, body,
\* serve, reply, closed; a client that connects again is a new connection.
\* want: what the request's buffer must hold; last: the last reply,
\* and whether the data of a successful one was what it had to be.
NoConn == [phase |-> "new", secured |-> FALSE, cut |-> FALSE, options |-> 0,
           requests |-> 0, answered |-> 0, req |-> NoRequest, buf |-> None,
           want |-> <<>>, status |-> "ok",
           last |-> [handle |-> 0, true |-> TRUE]]

Status == {"ok", "EINVAL", "EPERM", "EIO"}
Negotiating == {"flags", "options", "tls"}
Transmitting == {"header", "body", "serve", "reply"}

ServerTypeOK ==
    /\ \A c \in Session :
          /\ conn[c].phase \in {"new", "accepted", "begin", "closed"} \cup Negotiating
                                \cup Transmitting
          /\ conn[c].req \in Request /\ conn[c].buf \in Buffer \cup {None}
          /\ conn[c].status \in Status /\ conn[c].want \in Seq(Value)
          /\ stream[c] \in Seq(Frame)
    /\ buffer \in [Buffer -> Seq(Value)]
    /\ data \in [Profile -> [0 .. Blocks - 1 -> Value]]
    /\ free \subseteq Buffer /\ active \subseteq Session
    /\ stopping \in BOOLEAN

NbdInit ==
    /\ ManagerInit
    /\ conn = [c \in Session |-> NoConn] /\ stream = [c \in Session |-> <<>>]
    /\ buffer = [b \in Buffer |-> Pooled] /\ free = Buffer
    /\ data = [p \in Profile |-> [b \in 0 .. Blocks - 1 |-> <<p, b>>]]
    /\ active = {} /\ stopping = FALSE

\* releaseRequestBuffer
Put(bs) == /\ free' = free \cup (bs \ {None})
           /\ buffer' = [b \in Buffer |-> IF b \in bs THEN Pooled ELSE buffer[b]]

Update(c, r) == conn' = [conn EXCEPT ![c] = r]
At(c, phase) == conn[c].phase = phase

\* Serve --------------------------------------------------------------------

\* The names of the connections are given out in a fixed order.
Accept(c) ==
    /\ At(c, "new") /\ c = (CHOOSE d \in Session : At(d, "new")) /\ ~stopping
    /\ Update(c, [NoConn EXCEPT !.phase = "accepted"])
    /\ stream' = [stream EXCEPT ![c] = <<>>]
    /\ UNCHANGED <<managerVars, buffer, free, data, active, stopping>>

\* active[conn] = struct{}{}, and the goroutine is started.
Register(c) ==
    /\ At(c, "accepted")
    /\ active' = active \cup {c}
    /\ Update(c, [conn[c] EXCEPT !.phase = "begin"])
    /\ UNCHANGED <<managerVars, stream, buffer, free, data, stopping>>

\* The context ends: the listener is closed, then everything in active.  What
\* was accepted and is not registered yet is missed.
CloseActive ==
    /\ ~stopping /\ stopping' = TRUE
    /\ conn' = [c \in Session |-> IF c \in active THEN [conn[c] EXCEPT !.cut = TRUE]
                                  ELSE conn[c]]
    /\ UNCHANGED <<managerVars, stream, buffer, free, data, active>>

\* handle begins: the backend is pinned before anything is sent.
Begin(c) ==
    /\ At(c, "begin") /\ BeginSession(c)
    /\ Update(c, [conn[c] EXCEPT !.phase = "flags"])
    /\ UNCHANGED <<stream, buffer, free, data, active, stopping>>

Ended(c) == [NoConn EXCEPT !.phase = "closed", !.requests = conn[c].requests]

\* Mutant: an error returns before the backend is released.
FinishUnreleased(c) ==
    /\ IF At(c, "header") THEN Release(c) ELSE UNCHANGED managerVars
    /\ conn' = [conn EXCEPT ![c] = Ended(c)] /\ active' = active \ {c}
    /\ Put({conn[c].buf})
    /\ UNCHANGED <<data, stopping>>

\* handle returns: the deferred release, and the goroutine's clean-up.
Finish(c) ==
    /\ Release(c)
    /\ conn' = [conn EXCEPT ![c] = Ended(c)] /\ active' = active \ {c}
    /\ Put({conn[c].buf})
    /\ UNCHANGED <<data, stopping>>
End(c) == Finish(c) /\ stream' = [stream EXCEPT ![c] = <<>>]

\* There is no backend to export: BeginSession's error ends the connection.
Refused(c) ==
    /\ At(c, "begin") /\ state \notin Serving
    /\ conn' = [conn EXCEPT ![c] = Ended(c)] /\ active' = active \ {c}
    /\ UNCHANGED <<managerVars, stream, buffer, free, data, stopping>>

\* A read or a write fails on a connection that either side closed; before
\* transmission also when the deadline passes.
Broken(c) ==
    /\ conn[c].phase \in Negotiating \cup {"header", "body", "reply"} /\ conn[c].cut
    /\ End(c)
Deadline(c) == conn[c].phase \in Negotiating /\ End(c)

\* Negotiation --------------------------------------------------------------
\* The client waits for each answer, so a frame is sent and read in one step.

Consume(c) == stream' = [stream EXCEPT ![c] = Tail(@)]
Stay(c, r) == /\ Update(c, r)
              /\ UNCHANGED <<managerVars, stream, buffer, free, data, active, stopping>>
Take(c, r) == /\ Update(c, r) /\ Consume(c)
              /\ UNCHANGED <<managerVars, buffer, free, data, active, stopping>>

\* The client flags, with or without fixed-newstyle.
TakeFlags(c) ==
    /\ At(c, "flags") /\ ~conn[c].cut
    /\ End(c) \/ Stay(c, [conn[c] EXCEPT !.phase = "options"])

\* Only STARTTLS does anything before the handshake; other options are answered
\* with an error and the negotiation goes on.
TakeOption(c, opt) ==
    LET k == [conn[c] EXCEPT !.options = @ + 1]
    IN  /\ At(c, "options") /\ ~k.cut /\ conn[c].options < MaxOptions
        /\ \/ opt = "invalid" /\ End(c)
           \/ /\ opt # "invalid" /\ ~k.secured
              /\ Stay(c, [k EXCEPT !.phase = IF opt = "starttls" THEN "tls" ELSE @])
           \/ k.secured /\ opt \in {"starttls", "other"} /\ Stay(c, k)
           \/ k.secured /\ opt = "abort" /\ End(c)
           \/ /\ k.secured /\ opt = "select"
              /\ Stay(c, [k EXCEPT !.phase = "header", !.options = 0])

Handshake(c) ==
    /\ At(c, "tls")
    /\ \/ /\ Update(c, [conn[c] EXCEPT !.phase = "options", !.secured = TRUE])
          /\ UNCHANGED <<managerVars, stream, buffer, free, data, active, stopping>>
       \/ End(c)

\* Transmission -------------------------------------------------------------

InRange(r) == r.len > 0 /\ r.len <= MaxRequest /\ r.off <= Blocks
              /\ r.len <= Blocks - r.off

\* What the header alone decides.
Verdict(r) == CASE r.cmd \in {"read", "write"} /\ ~InRange(r) -> "EINVAL"
                [] r.cmd = "zeroes" /\ r.len > MaxRequest -> "EINVAL"
                [] r.cmd \in {"trim", "zeroes"} -> "EPERM"
                [] r.cmd = "unknown" -> "EINVAL"
                [] OTHER -> "ok"

Oversized(r) == r.cmd = "write" /\ r.len > MaxRequest

\* Mutant: the payload of a refused WRITE is left in the stream.
HasBodyIfServed(r) == r.cmd = "write" /\ InRange(r)

HasBody(r) == r.cmd = "write" /\ r.len \in 1 .. MaxRequest

\* A request header.  A frame that is not one has no request magic.
TakeHeader(c) ==
    /\ At(c, "header") /\ stream[c] # <<>>
    /\ LET f == Head(stream[c])
           r == f.req
       IN  IF f.kind # "header" \/ r.cmd \in {"invalid", "disconnect"} \/ Oversized(r)
           THEN End(c)
           ELSE \/ /\ Verdict(r) = "ok" /\ r.cmd \in {"read", "write"}
                   /\ \E b \in free :
                        /\ free' = free \ {b} /\ Consume(c)
                        /\ Update(c, [conn[c] EXCEPT !.req = r, !.buf = b, !.status = "ok",
                                        !.phase = IF HasBody(r) THEN "body" ELSE "serve"])
                        /\ UNCHANGED <<managerVars, buffer, data, active, stopping>>
                \/ /\ Verdict(r) # "ok" \/ r.cmd = "flush"
                   /\ Take(c, [conn[c] EXCEPT !.req = r, !.status = Verdict(r),
                                 !.phase = CASE HasBody(r) -> "body"
                                             [] r.cmd = "flush" -> "serve"
                                             [] OTHER -> "reply"])

Filled(value, old) == [i \in 1 .. MaxRequest |-> IF i <= Len(value) THEN value[i]
                                                  ELSE old[i]]

\* The payload: into the buffer, or discarded.
TakeBody(c) ==
    /\ At(c, "body") /\ stream[c] # <<>>
    /\ LET k == conn[c]
           value == [i \in 1 .. k.req.len |-> Payload(c)]
       IN  IF k.buf = None
           THEN Take(c, [k EXCEPT !.phase = "reply"])
           ELSE /\ buffer' = [buffer EXCEPT ![k.buf] = Filled(value, @)] /\ Consume(c)
                /\ Update(c, [k EXCEPT !.phase = "serve", !.want = value])
                /\ UNCHANGED <<managerVars, free, data, active, stopping>>

ReadOnly(c) == pinned[c] = Wii
Reply(k, status) == [k EXCEPT !.phase = "reply", !.status = status]

\* The blocks that ReadAt is asked for, up to n.
Asked(c, n) == [i \in 1 .. n |-> data[pinned[c]][conn[c].req.off + i - 1]]

\* Mutant: the buffer goes back to the pool before the reply is sent.
ServeReadPooled(c) ==
    LET k == conn[c]
    IN  /\ At(c, "serve") /\ k.req.cmd = "read"
        /\ buffer' = [buffer EXCEPT ![k.buf] = Filled(Asked(c, k.req.len), @)]
        /\ Update(c, [Reply(k, "ok") EXCEPT !.want = Asked(c, k.req.len)])
        /\ free' = free \cup {k.buf}
        /\ UNCHANGED <<managerVars, stream, data, active, stopping>>

\* ReadAt.  On an error, or when it read less than was asked for, the buffer
\* goes back before the reply.
ServeRead(c) ==
    LET k == conn[c]
    IN  /\ At(c, "serve") /\ k.req.cmd = "read"
        /\ \/ /\ buffer' = [buffer EXCEPT ![k.buf] = Filled(Asked(c, k.req.len), @)]
              /\ Update(c, [Reply(k, "ok") EXCEPT !.want = Asked(c, k.req.len)])
              /\ UNCHANGED free
           \/ Update(c, [Reply(k, "EIO") EXCEPT !.buf = None]) /\ Put({k.buf})
        /\ UNCHANGED <<managerVars, stream, data, active, stopping>>

Touched(r) == r.off .. r.off + r.len - 1

\* Mutant: only the first block is looked at.
WriteAllowedFirst(c) == ~ReadOnly(c) /\ conn[c].req.off \in Card

\* A read-only backend is not asked; another refuses what is not all in a
\* card's extent.
WriteAllowed(c) == ~ReadOnly(c) /\ Touched(conn[c].req) \subseteq Card

\* WriteAt, which may fail having written a part.
ServeWrite(c) ==
    LET k == conn[c]
        Written(n) == [data EXCEPT ![pinned[c]] =
                        [b \in 0 .. Blocks - 1 |->
                            IF b \in k.req.off .. k.req.off + n - 1
                            THEN buffer[k.buf][b - k.req.off + 1] ELSE @[b]]]
    IN  /\ At(c, "serve") /\ k.req.cmd = "write"
        /\ \/ ~WriteAllowed(c) /\ Update(c, Reply(k, "EPERM")) /\ data' = data
           \/ WriteAllowed(c) /\ Update(c, Reply(k, "ok")) /\ data' = Written(k.req.len)
           \/ /\ WriteAllowed(c) /\ Update(c, Reply(k, "EIO"))
              /\ \E n \in 0 .. k.req.len : data' = Written(n)
        /\ UNCHANGED <<managerVars, stream, buffer, free, active, stopping>>

\* Sync, on a writable backend.
ServeFlush(c) ==
    /\ At(c, "serve") /\ conn[c].req.cmd = "flush"
    /\ \E s \in {"ok"} \cup (IF ReadOnly(c) THEN {} ELSE {"EIO"}) :
          Update(c, Reply(conn[c], s))
    /\ UNCHANGED <<managerVars, stream, buffer, free, data, active, stopping>>

\* The reply: its data is what the request's buffer holds now.
Send(c) ==
    LET k == conn[c]
        value == IF k.buf # None THEN SubSeq(buffer[k.buf], 1, k.req.len) ELSE <<>>
    IN  /\ At(c, "reply")
        /\ Put({k.buf})
        /\ Update(c, [k EXCEPT !.phase = "header", !.buf = None, !.req = NoRequest,
                               !.want = <<>>, !.status = "ok", !.answered = @ + 1,
                               !.last = [handle |-> k.req.handle,
                                         true |-> k.status = "ok" => value = k.want]])
        /\ UNCHANGED <<managerVars, stream, data, active, stopping>>

\* Clients ------------------------------------------------------------------

Pushed(c, frames, k) ==
    /\ stream' = [stream EXCEPT ![c] = @ \o frames] /\ Update(c, k)
    /\ UNCHANGED <<managerVars, buffer, free, data, active, stopping>>

\* A request, with its payload; it need not wait for the replies to earlier ones.
SendRequest(c) ==
    /\ conn[c].phase \in Transmitting /\ ~conn[c].cut
    /\ SumFunction([s \in Session |-> conn[s].requests]) < MaxRequests
    /\ \E q \in Requests :
          LET n == conn[c].requests + 1
              r == [cmd |-> q.cmd, off |-> q.off, len |-> q.len, handle |-> n]
          IN  Pushed(c, <<FrameOf("header", r)>> \o
                        (IF r.cmd = "write" /\ r.len > 0
                         THEN <<FrameOf("payload", r)>> ELSE <<>>),
                     [conn[c] EXCEPT !.requests = n])

\* The client goes away, also between a header and its payload.
ClientCloses(c) ==
    /\ conn[c].phase \in Negotiating \cup Transmitting /\ ~conn[c].cut
    /\ Update(c, [conn[c] EXCEPT !.cut = TRUE])
    /\ \/ UNCHANGED stream
       \/ /\ stream[c] # <<>> /\ stream[c][Len(stream[c])].kind = "payload"
          /\ stream' = [stream EXCEPT ![c] = SubSeq(@, 1, Len(@) - 1)]
    /\ UNCHANGED <<managerVars, buffer, free, data, active, stopping>>

\* The platform switch, as in PlatformSwitch.
Switch ==
    /\ Disconnect \/ (\E next \in Profile \ closed : SelectValid(next))
    /\ UNCHANGED serverVars

ServerStep(c) ==
    \/ Register(c) \/ Begin(c) \/ Refused(c) \/ Broken(c)
    \/ TakeHeader(c) \/ TakeBody(c)
    \/ ServeRead(c) \/ ServeWrite(c) \/ ServeFlush(c) \/ Send(c)

ClientStep(c) == SendRequest(c) \/ ClientCloses(c)

NbdNext ==
    \/ \E c \in Session :
          \/ Accept(c) \/ ServerStep(c) \/ Deadline(c) \/ ClientStep(c)
          \/ TakeFlags(c) \/ Handshake(c) \/ \E opt \in Options : TakeOption(c, opt)
    \/ CloseActive \/ Switch

\* A goroutine that can run does, and the deadline passes.  A handshake need
\* not finish, and a client need not send.
NbdSpec ==
    /\ NbdInit /\ [][NbdNext]_nbdVars
    /\ \A c \in Session : WF_nbdVars(ServerStep(c)) /\ WF_nbdVars(Deadline(c))

-----------------------------------------------------------------------------
\* A connection never takes a payload for a header nor a header for a payload:
\* whichever request was refused, rejected by the backend or cut short, the next
\* byte that transmission reads starts what it expects.
FramesStayAligned ==
    \A c \in Session :
        stream[c] # <<>> =>
            /\ At(c, "header") => Head(stream[c]).kind = "header"
            /\ At(c, "body") => /\ Head(stream[c]).kind = "payload"
                                /\ Head(stream[c]).req = conn[c].req

\* Requests are answered once each and in their order, and a successful reply
\* carries (a successful write has stored) exactly the request's own data, with
\* all connections sharing one pool of buffers.
AnswersAreTrue ==
    \A c \in Session :
        LET k == conn[c] IN
        /\ k.last.handle = k.answered
        /\ k.last.true

\* Whatever clients send, in whatever state of switching, the Wii disk never
\* changes, and of the GameCube disk only the blocks of a memory card do.
OnlyCardChanges ==
    \A p \in Profile, b \in 0 .. Blocks - 1 :
        data[p][b] # <<p, b>> => p # Wii /\ b \in Card

\* A connection that is negotiating, or whose peer or server has closed it,
\* gives its backend back (or reaches transmission), so that it does not block
\* the platform switch for ever.
SessionsEnd ==
    \A c \in Session :
        (pinned[c] # None /\ (conn[c].cut \/ conn[c].phase \in Negotiating))
            ~> (pinned[c] = None \/ (conn[c].phase \in Transmitting /\ ~conn[c].cut))

=============================================================================
