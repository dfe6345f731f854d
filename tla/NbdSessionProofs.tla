-------------------------- MODULE NbdSessionProofs --------------------------
(***************************************************************************)
(* Theorems about NbdSession, for every set of connections, every number   *)
(* and mix of requests and every size of the disk, of a request and of the *)
(* card.                                                                   *)
(***************************************************************************)
EXTENDS NbdSession, FiniteSetTheorems, SequenceTheorems, TLAPS

-----------------------------------------------------------------------------
\* The export manager.

\* A manager that hands out sessions has an open backend.
ServingIsOpen == state \in Serving => current \notin closed

MInv ==
    /\ ManagerTypeOK
    /\ ServingIsOpen
    /\ PinnedBackendOpen
    /\ ActiveWhileSessionsOpen

\* The open connections are finitely many, and there is none exactly when
\* their number is 0.
LEMMA OpenSessionsFinite ==
    ASSUME ManagerTypeOK
    PROVE  /\ IsFiniteSet(OpenSessions)
           /\ Cardinality(OpenSessions) \in Nat
           /\ Cardinality(OpenSessions) = 0 <=> OpenSessions = {}
<1>1. OpenSessions \subseteq Session
  BY DEF OpenSessions
<1>2. IsFiniteSet(OpenSessions)
  BY <1>1, FS_Subset, ManagerAssumption
<1> QED
  BY <1>2, FS_CardinalityType, FS_EmptySet

\* Init establishes the invariant.
LEMMA MInvInit == ManagerInit => MInv
<1> SUFFICES ASSUME ManagerInit PROVE MInv
  OBVIOUS
<1>1. ManagerTypeOK
  BY ManagerAssumption DEF ManagerInit, ManagerTypeOK, States
<1>2. OpenSessions = {}
  BY DEF ManagerInit, OpenSessions
<1>3. ActiveWhileSessionsOpen
  BY <1>2, FS_EmptySet DEF ActiveWhileSessionsOpen, ManagerInit
<1> QED
  BY <1>1, <1>2, <1>3
  DEF MInv, ServingIsOpen, PinnedBackendOpen, ManagerInit

\* A step that changes neither the connections nor their number keeps the set
\* of open connections.
LEMMA SameSessions ==
    ASSUME UNCHANGED pinned
    PROVE  OpenSessions' = OpenSessions
BY DEF OpenSessions

\* BeginSession is the only step that opens a connection, and it opens it on
\* the current backend of a serving manager.
LEMMA BeginSessionKeepsMInv ==
    ASSUME MInv, NEW s \in Session, BeginSession(s)
    PROVE  MInv'
<1> USE DEF MInv
<1>1. ManagerTypeOK'
  BY DEF ManagerTypeOK, BeginSession, States
<1>2. /\ OpenSessions' = OpenSessions \cup {s}
      /\ s \notin OpenSessions
  BY ManagerAssumption DEF ManagerTypeOK, BeginSession, OpenSessions
<1>3. Cardinality(OpenSessions') = Cardinality(OpenSessions) + 1
  BY <1>2, OpenSessionsFinite, FS_AddElement
<1>4. ActiveWhileSessionsOpen'
  BY <1>2, <1>3 DEF ActiveWhileSessionsOpen, BeginSession
<1>5. PinnedBackendOpen'
  BY <1>2 DEF PinnedBackendOpen, ServingIsOpen, BeginSession, ManagerTypeOK
<1> QED
  BY <1>1, <1>4, <1>5 DEF ServingIsOpen, BeginSession

\* The last Release leaves ACTIVE, an earlier one does not.
LEMMA ReleaseKeepsMInv ==
    ASSUME MInv, NEW s \in Session, Release(s)
    PROVE  MInv'
<1> USE DEF MInv
<1>1. /\ OpenSessions' = OpenSessions \ {s}
      /\ s \in OpenSessions
  BY DEF ManagerTypeOK, Release, OpenSessions
<1>2. /\ Cardinality(OpenSessions') = Cardinality(OpenSessions) - 1
      /\ Cardinality(OpenSessions) # 0
  BY <1>1, OpenSessionsFinite, FS_RemoveElement
<1>3. ManagerTypeOK'
  BY <1>2, OpenSessionsFinite
  DEF ManagerTypeOK, Release, States, ActiveWhileSessionsOpen
<1>4. Cardinality(OpenSessions') = 0 <=> OpenSessions' = {}
  BY <1>1, OpenSessionsFinite, FS_RemoveElement, FS_EmptySet
<1>5. sessions' = Cardinality(OpenSessions')
  BY <1>2 DEF Release, ActiveWhileSessionsOpen
<1>6. state = "ACTIVE"
  BY <1>1 DEF ActiveWhileSessionsOpen
<1>7. ActiveWhileSessionsOpen'
  BY <1>4, <1>5, <1>6 DEF Release, ActiveWhileSessionsOpen
<1>8. PinnedBackendOpen'
  BY <1>1 DEF PinnedBackendOpen, Release, ManagerTypeOK, OpenSessions
<1>9. ServingIsOpen'
  BY <1>6 DEF ServingIsOpen, Release, Serving
<1> QED
  BY <1>3, <1>7, <1>8, <1>9

\* Every step keeps the invariant.
LEMMA MInvStep == MInv /\ [ManagerNext]_managerVars => MInv'
<1> SUFFICES ASSUME MInv, [ManagerNext]_managerVars PROVE MInv'
  OBVIOUS
<1> USE DEF MInv
<1>0. sessions = 0 => OpenSessions = {}
  BY OpenSessionsFinite DEF ActiveWhileSessionsOpen
<1>1. ASSUME NEW s \in Session, BeginSession(s) PROVE MInv'
  BY <1>1, BeginSessionKeepsMInv
<1>2. ASSUME NEW s \in Session, Release(s) PROVE MInv'
  BY <1>2, ReleaseKeepsMInv
<1>3. CASE Disconnect
  BY <1>3, <1>0, SameSessions
  DEF Disconnect, CanDisconnect, ManagerTypeOK, States, Serving, ServingIsOpen,
      PinnedBackendOpen, ActiveWhileSessionsOpen
<1>4. CASE MarkConnected
  BY <1>4, SameSessions
  DEF MarkConnected, ManagerTypeOK, States, Serving, ServingIsOpen,
      PinnedBackendOpen, ActiveWhileSessionsOpen
<1>5. CASE Recover
  BY <1>5, <1>0, SameSessions
  DEF Recover, ManagerTypeOK, States, Serving, ServingIsOpen,
      PinnedBackendOpen, ActiveWhileSessionsOpen
<1>6. ASSUME NEW next \in Profile \ closed, SelectInvalid(next) PROVE MInv'
  BY <1>6, <1>0, SameSessions
  DEF SelectInvalid, CanSelect, ManagerTypeOK, States, Serving, ServingIsOpen,
      PinnedBackendOpen, ActiveWhileSessionsOpen
<1>7. ASSUME NEW next \in Profile \ closed, SelectValid(next) PROVE MInv'
  BY <1>7, <1>0, SameSessions
  DEF SelectValid, CanSelect, ClosedBy, ManagerTypeOK, States, Serving,
      ServingIsOpen, PinnedBackendOpen, ActiveWhileSessionsOpen
<1>8. ASSUME NEW next \in Profile \ closed, SelectUnclean(next) PROVE MInv'
  BY <1>8, <1>0, SameSessions
  DEF SelectUnclean, CanSelect, ClosedBy, ManagerTypeOK, States, Serving,
      ServingIsOpen, PinnedBackendOpen, ActiveWhileSessionsOpen
<1>9. ASSUME NEW next \in Profile, CloseRejected(next) PROVE MInv'
  <2>1. state = "RECOVERY_REQUIRED" => OpenSessions = {}
    BY DEF ActiveWhileSessionsOpen
  <2> QED
    BY <1>9, <2>1, SameSessions
    DEF CloseRejected, ManagerTypeOK, States, Serving, ServingIsOpen,
        PinnedBackendOpen, ActiveWhileSessionsOpen
<1>10. CASE UNCHANGED managerVars
  BY <1>10, SameSessions
  DEF managerVars, ManagerTypeOK, ServingIsOpen, PinnedBackendOpen,
      ActiveWhileSessionsOpen
<1> QED
  BY <1>1, <1>2, <1>3, <1>4, <1>5, <1>6, <1>7, <1>8, <1>9, <1>10
  DEF ManagerNext

\* The manager's invariant holds in every reachable state.
THEOREM ManagerInvariant == ManagerSpec => []MInv
<1> QED
  BY MInvInit, MInvStep, PTL DEF ManagerSpec

\* No selection, failed selection, failed clean-up, caller's close or recovery
\* replaces or closes the backend of an open NBD connection
\* (exportprofile.Manager, all methods).
THEOREM PinnedBackendStaysOpen == ManagerSpec => []PinnedBackendOpen
<1>1. MInv => PinnedBackendOpen
  BY DEF MInv
<1> QED
  BY <1>1, ManagerInvariant, PTL

\* Manager.sessions counts the open connections exactly, and the manager is
\* ACTIVE exactly while there is one.
THEOREM SessionCountExact == ManagerSpec => []ActiveWhileSessionsOpen
<1>1. MInv => ActiveWhileSessionsOpen
  BY DEF MInv
<1> QED
  BY <1>1, ManagerInvariant, PTL

-----------------------------------------------------------------------------
\* The server.

Header == [cmd : Commands, off : Nat, len : Nat, handle : Nat]
Frames == [kind : {"header", "payload"}, req : Header]
Phases == {"new", "accepted", "begin", "closed"} \cup Negotiating \cup Transmitting
Conn == [phase : Phases, secured : BOOLEAN, cut : BOOLEAN, options : Nat,
         requests : Nat, answered : Nat, req : Header, buf : Buffer \cup {None},
         want : Seq(Value), status : Status, last : [handle : Nat, true : BOOLEAN]]
Room == [1 .. MaxRequest -> Value]

Types ==
    /\ conn \in [Session -> Conn] /\ stream \in [Session -> Seq(Frames)]
    /\ buffer \in [Buffer -> Room] /\ free \subseteq Buffer
    /\ data \in [Profile -> [0 .. Blocks - 1 -> Value]]

\* A connection that has begun holds a backend.
Pinned(c) == conn[c].phase \in Negotiating \cup Transmitting => pinned[c] \in Profile

\* After the header of a WRITE with data comes its payload, after everything
\* else the header of the next request.
WithPayload(r) == r.cmd = "write" /\ r.len > 0
Opens(f) == f.kind = "header" /\ WithPayload(f.req)
Then(f, g) == IF Opens(f) THEN g = FrameOf("payload", f.req)
              ELSE g.kind = "header" /\ g.req.handle = f.req.handle + 1
Chain(s) == \A i \in 1 .. Len(s) - 1 : Then(s[i], s[i + 1])

Busy == {"body", "serve", "reply"}

\* How the unread stream s continues what connection k has read: the frames are
\* a chain that starts with what k expects, the requests are numbered without a
\* gap, and nothing is missing at the end as long as the client is there.
Fits(k, s) ==
    /\ k.phase \notin Transmitting => s = <<>> /\ k.answered = 0
    /\ k.phase \notin Transmitting \cup {"closed"} => k.requests = 0
    /\ Chain(s)
    /\ k.phase \in Busy => k.req.handle = k.answered + 1
    /\ k.phase = "body" => WithPayload(k.req)
    /\ s # <<>> =>
          /\ k.phase = "header" => Head(s).kind = "header" /\ Head(s).req.handle = k.answered + 1
          /\ k.phase = "body" => Head(s) = FrameOf("payload", k.req)
          /\ k.phase \in {"serve", "reply"} =>
                Head(s).kind = "header" /\ Head(s).req.handle = k.answered + 2
          /\ s[Len(s)].req.handle = k.requests
          /\ ~k.cut => ~Opens(s[Len(s)])
    /\ s = <<>> =>
          /\ k.phase = "header" => k.requests = k.answered
          /\ k.phase \in Busy => k.requests = k.answered + 1
          /\ k.phase = "body" => k.cut

\* The request's buffer is its own, and holds what it must by the time of the
\* reply.
Holds(k, b) == k.want = SubSeq(b, 1, k.req.len)
Owns(c) ==
    LET k == conn[c] IN
    /\ k.buf # None =>
          /\ k.phase \in Busy /\ k.buf \notin free /\ InRange(k.req)
          /\ \A d \in Session \ {c} : conn[d].buf # k.buf
    /\ k.phase \notin {"serve", "reply"} => k.want = <<>>
    /\ k.phase = "body" /\ k.buf = None => k.status # "ok"
    /\ k.phase = "serve" =>
          \/ k.req.cmd = "flush" /\ k.buf = None /\ k.want = <<>>
          \/ k.req.cmd = "read" /\ k.buf # None
          \/ k.req.cmd = "write" /\ k.buf # None /\ Holds(k, buffer[k.buf])
    /\ k.phase = "reply" /\ k.status = "ok" =>
          IF k.buf = None THEN k.want = <<>> ELSE Holds(k, buffer[k.buf])
    /\ k.phase = "body" /\ k.buf # None => k.req.cmd = "write"

Answers(c) == conn[c].last.handle = conn[c].answered /\ conn[c].last.true

ConnOK(c) == Pinned(c) /\ Fits(conn[c], stream[c]) /\ Owns(c) /\ Answers(c)

NInv == MInv /\ Types /\ OnlyCardChanges /\ \A c \in Session : ConnOK(c)

-----------------------------------------------------------------------------
\* The stream of one connection.

LEMMA ChainTail ==
    ASSUME NEW s \in Seq(Frames), s # <<>>, Chain(s)
    PROVE  /\ Tail(s) \in Seq(Frames) /\ Chain(Tail(s)) /\ Head(s) \in Frames
           /\ Len(s) \in Nat /\ Head(s) = s[1] /\ Len(Tail(s)) = Len(s) - 1
           /\ Tail(s) # <<>> =>
                 /\ Len(s) > 1 /\ Head(Tail(s)) = s[2] /\ Then(Head(s), Head(Tail(s)))
                 /\ Tail(s)[Len(Tail(s))] = s[Len(s)]
           /\ Tail(s) = <<>> => Len(s) = 1 /\ s[Len(s)] = Head(s)
<1>1. /\ Head(s) \in Frames /\ Tail(s) \in Seq(Frames) /\ Len(Tail(s)) = Len(s) - 1
      /\ \A i \in 1 .. Len(Tail(s)) : Tail(s)[i] = s[i + 1]
  BY HeadTailProperties
<1>2. Len(s) \in Nat \ {0} /\ Head(s) = s[1]
  BY EmptySeq
<1>3. Chain(Tail(s))
  BY <1>1, <1>2 DEF Chain
<1>4. ASSUME Tail(s) # <<>>
      PROVE  /\ Len(s) > 1 /\ Head(Tail(s)) = s[2] /\ Then(Head(s), Head(Tail(s)))
             /\ Tail(s)[Len(Tail(s))] = s[Len(s)]
  <2>1. Len(Tail(s)) \in Nat \ {0} /\ Head(Tail(s)) = Tail(s)[1]
    BY <1>1, <1>4, EmptySeq
  <2>2. Len(s) > 1 /\ Tail(s)[1] = s[2] /\ Tail(s)[Len(Tail(s))] = s[Len(s)]
    BY <1>1, <1>2, <2>1
  <2>3. Then(s[1], s[1 + 1])
    BY <1>2, <2>2 DEF Chain
  <2>4. QED
    BY <1>2, <2>1, <2>2, <2>3
<1>5. Tail(s) = <<>> => Len(s) = 1
  <2>1. Tail(s) = <<>> => Len(Tail(s)) = 0
    BY EmptySeq
  <2>2. QED
    BY <1>1, <1>2, <2>1
<1>6. QED
  BY <1>1, <1>2, <1>3, <1>4, <1>5

\* The connection's fields that Fits looks at.
SameFields(k, m) == /\ m.requests = k.requests /\ m.cut = k.cut /\ m.answered = k.answered

\* The header of a request is read.
LEMMA HeaderFits ==
    ASSUME NEW k \in Conn, NEW m \in Conn, NEW s \in Seq(Frames), Fits(k, s),
           k.phase = "header", s # <<>>, SameFields(k, m), m.req = Head(s).req,
           m.phase \in Busy, m.phase = "body" <=> WithPayload(m.req)
    PROVE  Fits(m, Tail(s)) /\ Tail(s) \in Seq(Frames)
<1>1. Chain(s) /\ Head(s).kind = "header" /\ Head(s).req.handle = k.answered + 1
      /\ s[Len(s)].req.handle = k.requests /\ (~k.cut => ~Opens(s[Len(s)]))
  BY DEF Fits, Transmitting
<1>2. k.answered \in Nat /\ k.requests \in Nat
  BY DEF Conn
<1>3. Opens(Head(s)) <=> m.phase = "body"
  BY <1>1 DEF Opens
<1>4. CASE Tail(s) # <<>>
  <2>1. Then(Head(s), Head(Tail(s))) /\ Tail(s)[Len(Tail(s))] = s[Len(s)] /\ Chain(Tail(s))
    BY <1>1, <1>4, ChainTail
  <2>2. m.phase = "body" => Head(Tail(s)) = FrameOf("payload", m.req)
    BY <1>3, <2>1 DEF Then
  <2>3. m.phase \in {"serve", "reply"} => Head(Tail(s)).kind = "header"
                                          /\ Head(Tail(s)).req.handle = k.answered + 2
    <3>1. m.phase \in {"serve", "reply"} => ~Opens(Head(s))
      BY <1>3
    <3>2. ~Opens(Head(s)) => Head(Tail(s)).kind = "header"
                             /\ Head(Tail(s)).req.handle = Head(s).req.handle + 1
      BY <2>1 DEF Then
    <3>3. (k.answered + 1) + 1 = k.answered + 2
      BY <1>2
    <3>4. QED
      BY <1>1, <3>1, <3>2, <3>3
  <2>4. QED
    BY <1>1, <1>3, <1>4, <2>1, <2>2, <2>3, ChainTail DEF Fits, SameFields, Busy, Transmitting
<1>5. CASE Tail(s) = <<>>
  <2>1. s[Len(s)] = Head(s) /\ Chain(Tail(s))
    BY <1>1, <1>5, ChainTail
  <2>2. k.requests = k.answered + 1 /\ (m.phase = "body" => k.cut)
    BY <1>1, <1>3, <2>1
  <2>3. QED
    BY <1>1, <1>3, <1>5, <2>1, <2>2, ChainTail DEF Fits, SameFields, Busy, Transmitting
<1>6. QED
  BY <1>4, <1>5

\* The payload is read.
LEMMA BodyFits ==
    ASSUME NEW k \in Conn, NEW m \in Conn, NEW s \in Seq(Frames), Fits(k, s),
           k.phase = "body", s # <<>>, SameFields(k, m), m.req = k.req,
           m.phase \in {"serve", "reply"}
    PROVE  Fits(m, Tail(s)) /\ Tail(s) \in Seq(Frames)
<1>1. Chain(s) /\ Head(s) = FrameOf("payload", k.req) /\ k.req.handle = k.answered + 1
      /\ s[Len(s)].req.handle = k.requests /\ (~k.cut => ~Opens(s[Len(s)]))
  BY DEF Fits, Transmitting, Busy
<1>2. k.answered \in Nat /\ k.requests \in Nat
  BY DEF Conn
<1>3. ~Opens(Head(s)) /\ Head(s).req = k.req
  BY <1>1 DEF Opens, FrameOf
<1>4. CASE Tail(s) # <<>>
  <2>1. Then(Head(s), Head(Tail(s))) /\ Tail(s)[Len(Tail(s))] = s[Len(s)] /\ Chain(Tail(s))
    BY <1>1, <1>4, ChainTail
  <2>2. Head(Tail(s)).kind = "header" /\ Head(Tail(s)).req.handle = k.answered + 2
    <3>1. Head(Tail(s)).kind = "header" /\ Head(Tail(s)).req.handle = Head(s).req.handle + 1
      BY <1>3, <2>1 DEF Then
    <3>2. (k.answered + 1) + 1 = k.answered + 2
      BY <1>2
    <3>3. QED
      BY <1>1, <1>3, <3>1, <3>2
  <2>3. QED
    BY <1>1, <1>4, <2>1, <2>2, ChainTail DEF Fits, SameFields, Busy, Transmitting
<1>5. CASE Tail(s) = <<>>
  <2>1. s[Len(s)] = Head(s) /\ Chain(Tail(s))
    BY <1>1, <1>5, ChainTail
  <2>2. k.requests = k.answered + 1
    BY <1>1, <1>3, <2>1
  <2>3. QED
    BY <1>1, <1>5, <2>1, <2>2, ChainTail DEF Fits, SameFields, Busy, Transmitting
<1>6. QED
  BY <1>4, <1>5

\* The request is served, the reply is sent.
LEMMA ServeFits ==
    ASSUME NEW k \in Conn, NEW m \in Conn, NEW s \in Seq(Frames), Fits(k, s),
           k.phase = "serve", SameFields(k, m), m.req = k.req, m.phase = "reply"
    PROVE  Fits(m, s)
BY DEF Fits, SameFields, Busy, Transmitting

LEMMA ReplyFits ==
    ASSUME NEW k \in Conn, NEW m \in Conn, NEW s \in Seq(Frames), Fits(k, s),
           k.phase = "reply", m.requests = k.requests, m.cut = k.cut,
           m.answered = k.answered + 1, m.phase = "header"
    PROVE  Fits(m, s)
<1>1. k.answered \in Nat /\ k.answered + 2 = (k.answered + 1) + 1
  BY DEF Conn
<1>2. QED
  BY <1>1 DEF Fits, Busy, Transmitting

LEMMA ChainConcat ==
    ASSUME NEW s \in Seq(Frames), NEW t \in Seq(Frames), Chain(s), Chain(t), t # <<>>,
           s # <<>> => Then(s[Len(s)], t[1])
    PROVE  /\ s \o t \in Seq(Frames) /\ Chain(s \o t) /\ s \o t # <<>>
           /\ (s \o t)[Len(s \o t)] = t[Len(t)]
           /\ Head(s \o t) = IF s = <<>> THEN t[1] ELSE Head(s)
<1>1. /\ s \o t \in Seq(Frames) /\ Len(s \o t) = Len(s) + Len(t)
      /\ \A i \in 1 .. Len(s) + Len(t) :
            (s \o t)[i] = IF i <= Len(s) THEN s[i] ELSE t[i - Len(s)]
  BY ConcatProperties
<1>2. Len(s) \in Nat /\ Len(t) \in Nat \ {0} /\ (s # <<>> <=> Len(s) # 0)
  BY EmptySeq
<1>3. Chain(s \o t)
  <2> SUFFICES ASSUME NEW i \in 1 .. Len(s) + Len(t) - 1 PROVE Then((s \o t)[i], (s \o t)[i + 1])
    BY <1>1 DEF Chain
  <2>1. CASE i < Len(s)
    <3>1. (s \o t)[i] = s[i] /\ (s \o t)[i + 1] = s[i + 1] /\ i \in 1 .. Len(s) - 1
      BY <1>1, <1>2, <2>1
    <3>2. QED
      BY <3>1 DEF Chain
  <2>2. CASE i = Len(s)
    <3>1. (s \o t)[i] = s[Len(s)] /\ (s \o t)[i + 1] = t[1] /\ s # <<>>
      BY <1>1, <1>2, <2>2
    <3>2. QED
      BY <3>1
  <2>3. CASE i > Len(s)
    <3> DEFINE j == i - Len(s)
    <3>1. j \in 1 .. Len(t) - 1
      BY <1>2, <2>3
    <3>2. (s \o t)[i] = t[j] /\ (s \o t)[i + 1] = t[j + 1]
      BY <1>1, <1>2, <2>3, <3>1
    <3>3. QED
      BY <3>2 DEF Chain
  <2>4. QED
    BY <1>2, <2>1, <2>2, <2>3
<1>4. s \o t # <<>> /\ (s \o t)[Len(s \o t)] = t[Len(t)]
  <2>1. Len(s) + Len(t) \in 1 .. Len(s) + Len(t) /\ ~(Len(s) + Len(t) <= Len(s))
        /\ (Len(s) + Len(t)) - Len(s) = Len(t)
    BY <1>2
  <2>2. Len(<<>>) = 0
    BY EmptySeq
  <2>3. QED
    BY <1>1, <1>2, <2>1, <2>2
<1>5. Head(s \o t) = (s \o t)[1] /\ (s # <<>> => Head(s) = s[1])
  BY <1>1, <1>4
<1>6. (s \o t)[1] = IF s = <<>> THEN t[1] ELSE s[1]
  BY <1>1, <1>2
<1>7. QED
  BY <1>1, <1>3, <1>4, <1>5, <1>6

\* The client sends a request.
LEMMA PushFits ==
    ASSUME NEW k \in Conn, NEW m \in Conn, NEW s \in Seq(Frames), Fits(k, s),
           k.phase \in Transmitting, ~k.cut, NEW r \in Header, r.handle = k.requests + 1,
           m.phase = k.phase, m.cut = k.cut, m.answered = k.answered, m.req = k.req,
           m.requests = k.requests + 1, NEW t,
           t = <<FrameOf("header", r)>> \o (IF r.cmd = "write" /\ r.len > 0
                                            THEN <<FrameOf("payload", r)>> ELSE <<>>)
    PROVE  s \o t \in Seq(Frames) /\ Fits(m, s \o t)
<1> DEFINE h == FrameOf("header", r)
           p == FrameOf("payload", r)
<1>1. h \in Frames /\ p \in Frames /\ h.kind = "header" /\ p.kind = "payload"
      /\ h.req = r /\ p.req = r
  BY DEF Frames, FrameOf
<1>a. t = <<h>> \o (IF WithPayload(r) THEN <<p>> ELSE <<>>)
  BY DEF WithPayload
<1> HIDE DEF h, p
<1>2. /\ t \in Seq(Frames) /\ t # <<>> /\ t[1] = h /\ Chain(t)
      /\ t[Len(t)].req = r /\ ~Opens(t[Len(t)])
  <2>1. CASE WithPayload(r)
    <3>1. t = <<h>> \o <<p>>
      BY <1>a, <2>1
    <3>2. t \in Seq(Frames) /\ t # <<>> /\ t[1] = h /\ Len(t) = 2 /\ t[2] = p
      <4>1. <<h>> \in Seq(Frames) /\ <<p>> \in Seq(Frames)
        BY <1>1
      <4>2. Len(<<h>>) = 1 /\ Len(<<p>>) = 1 /\ <<h>>[1] = h /\ <<p>>[1] = p
        OBVIOUS
      <4>a. PICK u \in Seq(Frames) : u = <<h>>
        BY <4>1
      <4>b. PICK v \in Seq(Frames) : v = <<p>>
        BY <4>1
      <4>c. /\ Len(u) = 1 /\ Len(v) = 1 /\ u[1] = h /\ v[1] = p /\ t = u \o v
        BY <3>1, <4>2, <4>a, <4>b
      <4>d. /\ t \in Seq(Frames) /\ Len(t) = Len(u) + Len(v)
            /\ \A i \in 1 .. Len(u) + Len(v) : t[i] = IF i <= Len(u) THEN u[i] ELSE v[i - Len(u)]
        BY <4>c, ConcatProperties
      <4>4. t \in Seq(Frames) /\ Len(t) = 2
        BY <4>c, <4>d
      <4>5. t[1] = h
        BY <4>c, <4>d
      <4>6. t[2] = p
        BY <4>c, <4>d
      <4>7. t # <<>>
        BY <4>4, EmptySeq
      <4>8. QED
        BY <4>4, <4>5, <4>6, <4>7
    <3>3. Then(h, p) /\ ~Opens(p)
      BY <1>1, <2>1 DEF Then, Opens, p
    <3>4. Chain(t)
      BY <3>2, <3>3 DEF Chain
    <3>5. QED
      BY <1>1, <3>2, <3>3, <3>4
  <2>2. CASE ~WithPayload(r)
    <3>1. t = <<h>>
      <4>1. <<h>> \in Seq(Frames)
        BY <1>1
      <4>2. QED
        BY <1>a, <2>2, <4>1, ConcatEmptySeq
    <3>2. t \in Seq(Frames) /\ t # <<>> /\ t[1] = h /\ Len(t) = 1
      <4>1. <<h>> \in Seq(Frames) /\ <<h>>[1] = h /\ Len(<<h>>) = 1
        BY <1>1
      <4>2. t \in Seq(Frames) /\ t[1] = h /\ Len(t) = 1
        BY <3>1, <4>1, Zenon
      <4>3. QED
        BY <4>2, EmptySeq
    <3>3. ~Opens(h)
      BY <1>1, <2>2 DEF Opens
    <3>4. QED
      BY <1>1, <3>2, <3>3 DEF Chain
  <2>3. QED
    BY <2>1, <2>2
<1>3. Chain(s) /\ (s # <<>> => ~Opens(s[Len(s)]) /\ s[Len(s)].req.handle = k.requests)
  BY DEF Fits
<1>4. s # <<>> => Then(s[Len(s)], t[1])
  BY <1>1, <1>2, <1>3 DEF Then
<1>5. /\ s \o t \in Seq(Frames) /\ Chain(s \o t) /\ s \o t # <<>>
      /\ (s \o t)[Len(s \o t)] = t[Len(t)]
      /\ Head(s \o t) = IF s = <<>> THEN t[1] ELSE Head(s)
  BY <1>2, <1>3, <1>4, ChainConcat
<1>6. k.answered \in Nat /\ k.requests \in Nat
  BY DEF Conn
<1>7. CASE s = <<>>
  <2>1. Head(s \o t) = h /\ k.phase # "body"
    BY <1>2, <1>5, <1>7 DEF Fits
  <2>2. k.phase = "header" => r.handle = k.answered + 1
    BY <1>7 DEF Fits
  <2>3. k.phase \in Busy => r.handle = k.answered + 2
    <3>1. k.phase \in Busy => k.requests = k.answered + 1
      BY <1>7 DEF Fits
    <3>2. QED
      BY <1>6, <3>1
  <2>4. QED
    BY <1>1, <1>2, <1>5, <2>1, <2>2, <2>3 DEF Fits, Busy, Transmitting
<1>8. CASE s # <<>>
  <2>1. Head(s \o t) = Head(s)
    BY <1>5, <1>8
  <2>2. QED
    BY <1>2, <1>5, <1>8, <2>1 DEF Fits, Busy, Transmitting
<1>9. QED
  BY <1>7, <1>8

\* The connection is closed, and the last payload may be lost.
LEMMA CutFits ==
    ASSUME NEW k \in Conn, NEW m \in Conn, NEW s \in Seq(Frames), Fits(k, s),
           m.cut = TRUE, m.phase = k.phase, m.answered = k.answered, m.req = k.req,
           m.requests = k.requests
    PROVE  Fits(m, s)
BY DEF Fits

LEMMA LossFits ==
    ASSUME NEW k \in Conn, NEW m \in Conn, NEW s \in Seq(Frames), Fits(k, s), s # <<>>,
           s[Len(s)].kind = "payload",
           m.cut = TRUE, m.phase = k.phase, m.answered = k.answered, m.req = k.req,
           m.requests = k.requests
    PROVE  SubSeq(s, 1, Len(s) - 1) \in Seq(Frames) /\ Fits(m, SubSeq(s, 1, Len(s) - 1))
<1> DEFINE t == SubSeq(s, 1, Len(s) - 1)
<1>1. Len(s) \in Nat \ {0} /\ Head(s) = s[1] /\ \A i \in 1 .. Len(s) : s[i] \in Frames
  BY EmptySeq, ElementOfSeq
<1>2. /\ t \in Seq(Frames) /\ Len(t) = Len(s) - 1
      /\ \A i \in 1 .. Len(s) - 1 : t[i] = s[i]
  <2>1. \A i \in 1 .. Len(s) - 1 : s[i] \in Frames
    BY <1>1
  <2>2. /\ t \in Seq(Frames) /\ Len(t) = IF 1 <= Len(s) - 1 THEN (Len(s) - 1) - 1 + 1 ELSE 0
        /\ \A i \in 1 .. (Len(s) - 1) - 1 + 1 : t[i] = s[1 + i - 1]
    BY <1>1, <2>1, SubSeqProperties
  <2>3. PICK n \in Nat : n = Len(s) - 1
    BY <1>1
  <2>4. \A i \in 1 .. n : i \in 1 .. n - 1 + 1 /\ 1 + i - 1 = i
    OBVIOUS
  <2>5. \A i \in 1 .. n : t[i] = s[i]
    BY <2>2, <2>3, <2>4
  <2>6. QED
    BY <1>1, <2>2, <2>3, <2>5
<1> HIDE DEF t
<1>3. Chain(t)
  BY <1>1, <1>2 DEF Chain, Fits
<1>4. k.phase \in Transmitting
  BY DEF Fits
<1>5. CASE Len(s) = 1
  <2>1. k.phase = "body" /\ s[1] = FrameOf("payload", k.req) /\ s[1].req.handle = k.requests
    BY <1>1, <1>4, <1>5 DEF Fits, Transmitting
  <2>2. t = <<>>
    BY <1>2, <1>5, EmptySeq
  <2>3. k.req.handle = k.requests
    BY <2>1 DEF FrameOf
  <2>4. QED
    BY <1>2, <1>3, <1>4, <2>1, <2>2, <2>3 DEF Fits, Busy, Transmitting, t
<1>6. CASE Len(s) > 1
  <2>1. PICK i \in 1 .. Len(s) - 1 : i + 1 = Len(s)
    BY <1>1, <1>6
  <2>2. Then(s[i], s[i + 1])
    BY DEF Fits, Chain
  <2>3. s[i + 1].kind = "payload"
    BY <2>1
  <2>4. Opens(s[i]) /\ s[Len(s)] = FrameOf("payload", s[i].req)
    BY <2>1, <2>2, <2>3 DEF Then
  <2>5. t # <<>> /\ Head(t) = Head(s) /\ t[Len(t)] = s[i]
    <3>1. t # <<>> /\ Head(t) = t[1]
      BY <1>2, <1>6, EmptySeq
    <3>2. t[1] = s[1] /\ t[Len(t)] = s[i]
      BY <1>1, <1>2, <1>6, <2>1
    <3>3. QED
      BY <1>1, <3>1, <3>2
  <2>6. s[i].req.handle = k.requests
    BY <2>4 DEF Fits, FrameOf
  <2>7. QED
    BY <1>2, <1>3, <1>4, <2>5, <2>6 DEF Fits, Busy, Transmitting, t
<1>7. Len(s) = 1 \/ Len(s) > 1
  <2>1. PICK n \in Nat \ {0} : n = Len(s)
    BY <1>1
  <2>2. n = 1 \/ n > 1
    OBVIOUS
  <2>3. QED
    BY <2>1, <2>2
<1>8. QED
  BY <1>5, <1>6, <1>7

-----------------------------------------------------------------------------
\* To the export manager, the server is one of its callers.
LEMMA ManagerStep == [NbdNext]_nbdVars => [ManagerNext]_managerVars
<1> USE DEF nbdVars
<1> SUFFICES ASSUME [NbdNext]_nbdVars PROVE [ManagerNext]_managerVars
  OBVIOUS
<1>1. \A c \in Session : End(c) => ManagerNext
  BY DEF End, Finish, ManagerNext
<1>2. ASSUME NEW c \in Session,
             Accept(c) \/ ServerStep(c) \/ Deadline(c) \/ ClientStep(c)
             \/ TakeFlags(c) \/ Handshake(c) \/ \E opt \in Options : TakeOption(c, opt)
      PROVE  ManagerNext \/ UNCHANGED managerVars
  <2>1. CASE Accept(c) \/ ClientStep(c)
    BY <2>1 DEF Accept, ClientStep, SendRequest, Pushed, ClientCloses
  <2>2. CASE Register(c) \/ Refused(c) \/ TakeBody(c) \/ ServeRead(c) \/ ServeWrite(c)
             \/ ServeFlush(c) \/ Send(c)
    BY <2>2 DEF Register, Refused, TakeBody, Take, ServeRead, ServeWrite, ServeFlush, Send
  <2>3. CASE Begin(c)
    BY <2>3 DEF Begin, ManagerNext
  <2>4. CASE Broken(c) \/ Deadline(c)
    BY <1>1, <2>4 DEF Broken, Deadline
  <2>5. CASE TakeHeader(c)
    BY <1>1, <2>5 DEF TakeHeader, Take
  <2>6. CASE TakeFlags(c) \/ Handshake(c) \/ \E opt \in Options : TakeOption(c, opt)
    BY <1>1, <2>6 DEF TakeFlags, Handshake, TakeOption, Stay
  <2>7. QED
    BY <1>2, <2>1, <2>2, <2>3, <2>4, <2>5, <2>6 DEF ServerStep
<1>3. CASE CloseActive
  BY <1>3 DEF CloseActive
<1>4. CASE Switch
  BY <1>4 DEF Switch, ManagerNext
<1>5. QED
  BY <1>2, <1>3, <1>4 DEF NbdNext

-----------------------------------------------------------------------------
\* A step of connection c leaves the others, and the buffers they hold, alone.
Touches(c) ==
    /\ \A d \in Session \ {c} :
          /\ conn'[d] = conn[d] /\ stream'[d] = stream[d] /\ pinned'[d] = pinned[d]
          /\ conn[d].buf # None =>
                /\ buffer'[conn[d].buf] = buffer[conn[d].buf]
                /\ conn[d].buf \notin free' /\ conn'[c].buf # conn[d].buf

LEMMA OthersKept ==
    ASSUME Types, NEW c \in Session, Touches(c), NEW d \in Session \ {c}, ConnOK(d)
    PROVE  ConnOK(d)'
<1>1. conn'[d] = conn[d] /\ stream'[d] = stream[d] /\ pinned'[d] = pinned[d]
  BY DEF Touches
<1>2. Pinned(d)' /\ Fits(conn[d], stream[d])' /\ Answers(d)'
  BY <1>1 DEF ConnOK, Pinned, Answers, Fits
<1>3. conn[d].buf # None => \A e \in Session \ {d} : conn'[e].buf # conn[d].buf
  BY DEF Touches, ConnOK, Owns
<1>4. conn[d].buf # None => buffer'[conn[d].buf] = buffer[conn[d].buf] /\ conn[d].buf \notin free'
  BY DEF Touches
<1>5. Owns(d)'
  BY <1>1, <1>3, <1>4 DEF ConnOK, Owns, Holds
<1>6. QED
  BY <1>2, <1>5 DEF ConnOK

LEMMA Moved ==
    ASSUME Types, NEW c \in Session, NEW m \in Conn, Update(c, m)
    PROVE  /\ conn' \in [Session -> Conn] /\ conn'[c] = m
           /\ \A d \in Session \ {c} : conn'[d] = conn[d]
BY DEF Types, Update

LEMMA NoConnTyped ==
    /\ NoConn \in Conn
    /\ NoConn.phase = "new" /\ NoConn.requests = 0 /\ NoConn.answered = 0
    /\ NoConn.buf = None /\ NoConn.want = <<>> /\ NoConn.last.handle = 0 /\ NoConn.last.true
    /\ NoConn.secured = FALSE /\ NoConn.cut = FALSE /\ NoConn.options = 0
<1>1. NoRequest \in Header
  BY DEF NoRequest, Header, Commands
<1>2. <<>> \in Seq(Value)
  BY EmptySeq
<1>3. QED
  BY <1>1, <1>2 DEF NoConn, Conn, Phases, Status

\* A connection that has not reached transmission.
Untouched(m) == /\ m.requests = 0 /\ m.answered = 0 /\ m.buf = None /\ m.want = <<>>
                /\ m.last.handle = 0 /\ m.last.true

LEMMA StillUntouched ==
    ASSUME NEW c \in Session, ConnOK(c), conn[c].phase \notin Transmitting \cup {"closed"}
    PROVE  Untouched(conn[c]) /\ stream[c] = <<>>
BY DEF ConnOK, Fits, Owns, Answers, Untouched, Busy, Transmitting

LEMMA EmptyChain == Chain(<<>>)
BY EmptySeq DEF Chain

\* Negotiation, and the acceptance of a connection.
LEMMA QuietStep ==
    ASSUME Types, \A d \in Session : ConnOK(d), NEW c \in Session,
           conn[c].phase \notin Transmitting \cup {"closed"},
           NEW m \in Conn, Update(c, m), Untouched(m),
           m.phase \in Phases \ (Busy \cup {"closed"}),
           m.phase \in Negotiating \cup Transmitting => pinned'[c] \in Profile,
           \A d \in Session \ {c} : pinned'[d] = pinned[d],
           stream' = stream, UNCHANGED <<buffer, free, data>>
    PROVE  Types' /\ \A d \in Session : ConnOK(d)'
<1>1. conn' \in [Session -> Conn] /\ conn'[c] = m /\ \A d \in Session \ {c} : conn'[d] = conn[d]
  BY Moved
<1>2. Types'
  BY <1>1 DEF Types
<1>3. stream[c] = <<>>
  BY StillUntouched
<1>4. Touches(c)
  BY <1>1 DEF Touches, ConnOK, Owns, Untouched
<1>5. Fits(m, <<>>)
  BY EmptyChain DEF Fits, Untouched, Busy, Transmitting
<1>6. ConnOK(c)'
  <2>1. Pinned(c)' /\ Answers(c)' /\ Fits(conn[c], stream[c])'
    BY <1>1, <1>3, <1>5 DEF Pinned, Answers, Untouched
  <2>2. Owns(c)'
    BY <1>1 DEF Owns, Untouched, Busy
  <2>3. QED
    BY <2>1, <2>2 DEF ConnOK
<1>7. QED
  BY <1>2, <1>4, <1>6, OthersKept

LEMMA PutBack ==
    ASSUME Types, NEW b \in Buffer \cup {None}, Put({b})
    PROVE  /\ buffer' \in [Buffer -> Room] /\ free' \subseteq Buffer
           /\ \A a \in Buffer \ {b} : buffer'[a] = buffer[a] /\ (a \in free' => a \in free)
<1>1. Pooled \in Room
  BY DEF Pooled, Room, Value
<1>2. QED
  BY <1>1 DEF Put, Types

\* handle returns, before or during transmission.
LEMMA EndStep ==
    ASSUME Types, \A d \in Session : ConnOK(d), NEW c \in Session,
           conn' = [conn EXCEPT ![c] = Ended(c)], data' = data,
           \A d \in Session \ {c} : pinned'[d] = pinned[d],
           stream' = [stream EXCEPT ![c] = <<>>],
           Put({conn[c].buf}) \/ UNCHANGED <<buffer, free>>
    PROVE  Types' /\ \A d \in Session : ConnOK(d)'
<1>0. conn[c] \in Conn /\ conn[c].buf \in Buffer \cup {None} /\ conn[c].requests \in Nat
  BY DEF Types, Conn
<1>1. Ended(c) \in Conn /\ Ended(c).phase = "closed" /\ Ended(c).answered = 0
      /\ Ended(c).buf = None /\ Ended(c).want = <<>> /\ Ended(c).last.handle = 0
      /\ Ended(c).last.true
  BY <1>0, NoConnTyped DEF Ended, Conn, Phases
<1>2. conn' \in [Session -> Conn] /\ conn'[c] = Ended(c)
      /\ \A d \in Session \ {c} : conn'[d] = conn[d]
  BY <1>1, Moved DEF Update
<1>3. stream' \in [Session -> Seq(Frames)] /\ stream'[c] = <<>>
      /\ \A d \in Session \ {c} : stream'[d] = stream[d]
  BY EmptySeq DEF Types
<1>4. /\ buffer' \in [Buffer -> Room] /\ free' \subseteq Buffer
      /\ \A a \in Buffer \ {conn[c].buf} : buffer'[a] = buffer[a] /\ (a \in free' => a \in free)
  BY <1>0, PutBack DEF Types
<1>5. Types'
  BY <1>2, <1>3, <1>4 DEF Types
<1>6. Touches(c)
  <2> SUFFICES ASSUME NEW d \in Session \ {c}, conn[d].buf # None
               PROVE  /\ buffer'[conn[d].buf] = buffer[conn[d].buf]
                      /\ conn[d].buf \notin free' /\ conn'[c].buf # conn[d].buf
    BY <1>2, <1>3 DEF Touches
  <2>1. conn[d].buf \in Buffer /\ conn[d].buf # conn[c].buf /\ conn[d].buf \notin free
    BY DEF Types, Conn, ConnOK, Owns
  <2>2. QED
    BY <1>1, <1>2, <1>4, <2>1
<1>7. ConnOK(c)'
  <2>1. Fits(Ended(c), <<>>)
    BY <1>1, EmptyChain DEF Fits, Busy, Transmitting
  <2>2. Pinned(c)' /\ Answers(c)' /\ Fits(conn[c], stream[c])'
    BY <1>1, <1>2, <1>3, <2>1 DEF Pinned, Answers, Negotiating, Transmitting
  <2>3. Owns(c)'
    BY <1>1, <1>2 DEF Owns, Busy
  <2>4. QED
    BY <2>2, <2>3 DEF ConnOK
<1>8. QED
  BY <1>5, <1>6, <1>7, OthersKept

LEMMA Ends ==
    ASSUME MInv, Types, \A d \in Session : ConnOK(d), NEW c \in Session, End(c)
    PROVE  Types' /\ (\A d \in Session : ConnOK(d)') /\ data' = data
<1>1. \A d \in Session \ {c} : pinned'[d] = pinned[d]
  BY DEF End, Finish, Release, MInv, ManagerTypeOK
<1>2. QED
  BY <1>1, EndStep DEF End, Finish

LEMMA Negotiation ==
    ASSUME MInv, Types, \A d \in Session : ConnOK(d), NEW c \in Session,
           \/ Accept(c) \/ Register(c) \/ Begin(c) \/ Refused(c) \/ TakeFlags(c)
           \/ Handshake(c) \/ \E opt \in Options : TakeOption(c, opt)
    PROVE  Types' /\ (\A d \in Session : ConnOK(d)') /\ data' = data
<1> USE DEF managerVars, At
<1>0. conn[c] \in Conn /\ stream \in [Session -> Seq(Frames)]
  BY DEF Types
<1>a. ASSUME NEW p \in Phases \ (Busy \cup {"closed"}),
             conn[c].phase \notin Transmitting \cup {"closed"}
      PROVE  /\ [conn[c] EXCEPT !.phase = p] \in Conn
             /\ Untouched([conn[c] EXCEPT !.phase = p])
             /\ [conn[c] EXCEPT !.phase = p].phase = p
  <2>1. Untouched(conn[c])
    BY <1>a, StillUntouched
  <2>2. [conn[c] EXCEPT !.phase = p] \in Conn
    BY <1>0 DEF Conn
  <2>3. QED
    BY <1>0, <2>1, <2>2 DEF Conn, Untouched
<1>1. CASE Accept(c)
  <2> DEFINE m == [NoConn EXCEPT !.phase = "accepted"]
  <2>1. m \in Conn /\ Untouched(m) /\ m.phase = "accepted"
    BY NoConnTyped DEF Conn, Untouched, Phases
  <2> HIDE DEF m
  <2>2. conn[c].phase = "new" /\ Update(c, m) /\ stream' = [stream EXCEPT ![c] = <<>>]
        /\ UNCHANGED <<pinned, buffer, free, data>>
    BY <1>1 DEF Accept, m
  <2>3. stream[c] = <<>>
    BY <2>2, StillUntouched DEF Transmitting
  <2>4. stream' = stream
    BY <1>0, <2>2, <2>3
  <2>5. QED
    BY <2>1, <2>2, <2>4, QuietStep DEF Phases, Negotiating, Transmitting, Busy
<1>2. CASE Register(c)
  <2>1. conn[c].phase = "accepted" /\ Update(c, [conn[c] EXCEPT !.phase = "begin"])
        /\ UNCHANGED <<pinned, stream, buffer, free, data>>
    BY <1>2 DEF Register
  <2>2. "begin" \in Phases \ (Busy \cup {"closed"}) /\ "accepted" \notin Transmitting \cup {"closed"}
        /\ "begin" \notin Negotiating \cup Transmitting
    BY DEF Phases, Busy, Transmitting, Negotiating
  <2>3. QED
    BY <1>a, <2>1, <2>2, QuietStep
<1>3. CASE Begin(c)
  <2>1. conn[c].phase = "begin" /\ Update(c, [conn[c] EXCEPT !.phase = "flags"])
        /\ UNCHANGED <<stream, buffer, free, data>>
    BY <1>3 DEF Begin
  <2>2. "flags" \in Phases \ (Busy \cup {"closed"}) /\ "begin" \notin Transmitting \cup {"closed"}
    BY DEF Phases, Busy, Transmitting, Negotiating
  <2>3. pinned'[c] \in Profile /\ \A d \in Session \ {c} : pinned'[d] = pinned[d]
    BY <1>3 DEF Begin, BeginSession, MInv, ManagerTypeOK
  <2>4. QED
    BY <1>a, <2>1, <2>2, <2>3, QuietStep
<1>4. CASE Refused(c)
  <2>1. conn[c].phase = "begin" /\ conn' = [conn EXCEPT ![c] = Ended(c)]
        /\ UNCHANGED <<pinned, stream, buffer, free, data>>
    BY <1>4 DEF Refused
  <2>2. stream[c] = <<>>
    BY <2>1, StillUntouched DEF Transmitting
  <2>3. stream' = [stream EXCEPT ![c] = <<>>]
    BY <1>0, <2>1, <2>2
  <2>4. QED
    BY <2>1, <2>3, EndStep
<1>5. CASE End(c)
  BY <1>5, Ends
\* the client's options, after the flags: only the phase and what is secured
<1>6. ASSUME conn[c].phase \in Negotiating, NEW m \in Conn, Stay(c, m), Untouched(m),
             m.phase \in {"options", "tls", "header"}
      PROVE  Types' /\ (\A d \in Session : ConnOK(d)') /\ data' = data
  <2>1. Update(c, m) /\ UNCHANGED <<pinned, stream, buffer, free, data>>
    BY <1>6 DEF Stay
  <2>2. pinned[c] \in Profile
    BY <1>6 DEF ConnOK, Pinned
  <2>3. m.phase \in Phases \ (Busy \cup {"closed"}) /\ conn[c].phase \notin Transmitting \cup {"closed"}
    BY <1>6 DEF Phases, Busy, Transmitting, Negotiating
  <2>4. QED
    BY <1>6, <2>1, <2>2, <2>3, QuietStep
<1>7. CASE TakeFlags(c)
  <2>1. CASE Stay(c, [conn[c] EXCEPT !.phase = "options"])
    <3>1. conn[c].phase = "flags" /\ "options" \in Phases \ (Busy \cup {"closed"})
          /\ "flags" \notin Transmitting \cup {"closed"} /\ "flags" \in Negotiating
      BY <1>7 DEF TakeFlags, Phases, Busy, Transmitting, Negotiating
    <3>2. QED
      BY <1>a, <1>6, <2>1, <3>1
  <2>2. QED
    BY <1>5, <1>7, <2>1 DEF TakeFlags
<1>8. CASE Handshake(c)
  <2> DEFINE m == [conn[c] EXCEPT !.phase = "options", !.secured = TRUE]
  <2>1. conn[c].phase = "tls" /\ "tls" \in Negotiating /\ "tls" \notin Transmitting \cup {"closed"}
    BY <1>8 DEF Handshake, Negotiating, Transmitting
  <2>2. Untouched(conn[c])
    BY <2>1, StillUntouched
  <2>3. m \in Conn /\ m.phase = "options"
    BY <1>0 DEF Conn, Phases, Negotiating
  <2>4. Untouched(m)
    BY <1>0, <2>2 DEF Conn, Untouched
  <2> HIDE DEF m
  <2>5. Stay(c, m) \/ End(c)
    BY <1>8 DEF Handshake, Stay, m
  <2>6. QED
    BY <1>5, <1>6, <2>1, <2>3, <2>4, <2>5
<1>9. ASSUME NEW opt \in Options, TakeOption(c, opt)
      PROVE  Types' /\ (\A d \in Session : ConnOK(d)') /\ data' = data
  <2> DEFINE k == [conn[c] EXCEPT !.options = @ + 1]
  <2>1. conn[c].phase = "options" /\ "options" \in Negotiating
        /\ "options" \notin Transmitting \cup {"closed"}
    BY <1>9 DEF TakeOption, Negotiating, Transmitting
  <2>2. Untouched(conn[c])
    BY <2>1, StillUntouched
  <2>3. k \in Conn /\ k.phase = "options" /\ Untouched(k)
    <3>1. PICK n \in Nat : n = conn[c].options + 1
      BY <1>0 DEF Conn
    <3>2. k = [conn[c] EXCEPT !.options = n]
      BY <3>1
    <3> HIDE DEF k
    <3>3. k \in Conn
      BY <1>0, <3>2 DEF Conn
    <3>4. k.phase = "options" /\ Untouched(k)
      BY <1>0, <2>1, <2>2, <3>2 DEF Conn, Untouched
    <3>5. QED
      BY <3>3, <3>4
  <2>4. \/ End(c) \/ Stay(c, k)
        \/ Stay(c, [k EXCEPT !.phase = IF opt = "starttls" THEN "tls" ELSE @])
        \/ Stay(c, [k EXCEPT !.phase = "header", !.options = 0])
    BY <1>9 DEF TakeOption
  <2> HIDE DEF k
  <2>5. ASSUME NEW p \in {"options", "tls"}
        PROVE  [k EXCEPT !.phase = p] \in Conn /\ Untouched([k EXCEPT !.phase = p])
               /\ [k EXCEPT !.phase = p].phase = p
    BY <2>3 DEF Conn, Untouched, Phases, Negotiating
  <2>6. /\ [k EXCEPT !.phase = "header", !.options = 0] \in Conn
        /\ Untouched([k EXCEPT !.phase = "header", !.options = 0])
        /\ [k EXCEPT !.phase = "header", !.options = 0].phase = "header"
    BY <2>3 DEF Conn, Untouched, Phases, Transmitting
  <2>7. CASE Stay(c, [k EXCEPT !.phase = IF opt = "starttls" THEN "tls" ELSE @])
    <3>1. PICK p \in {"options", "tls"} : Stay(c, [k EXCEPT !.phase = p])
      BY <2>3, <2>7
    <3>2. QED
      BY <1>6, <2>1, <2>5, <3>1
  <2>8. QED
    BY <1>5, <1>6, <2>1, <2>3, <2>4, <2>6, <2>7
<1>10. QED
  BY <1>1, <1>2, <1>3, <1>4, <1>7, <1>8, <1>9

-----------------------------------------------------------------------------
\* Transmission.

\* The others' buffers are not this connection's, and not free.
LEMMA BuffersApart ==
    ASSUME Types, \A d \in Session : ConnOK(d), NEW c \in Session, NEW d \in Session \ {c},
           conn[d].buf # None
    PROVE  conn[d].buf \in Buffer /\ conn[d].buf # conn[c].buf /\ conn[d].buf \notin free
BY DEF Types, Conn, ConnOK, Owns

LEMMA TransmitStep ==
    ASSUME Types, \A d \in Session : ConnOK(d), NEW c \in Session,
           conn[c].phase \in Transmitting, NEW m \in Conn, Update(c, m),
           m.phase \in Transmitting, m.last.handle = m.answered, m.last.true,
           pinned' = pinned, stream' \in [Session -> Seq(Frames)],
           \A d \in Session \ {c} : stream'[d] = stream[d],
           buffer' \in [Buffer -> Room], free' \subseteq Buffer,
           \A d \in Session \ {c} : conn[d].buf # None =>
                /\ buffer'[conn[d].buf] = buffer[conn[d].buf]
                /\ conn[d].buf \notin free' /\ m.buf # conn[d].buf,
           data' \in [Profile -> [0 .. Blocks - 1 -> Value]],
           Fits(m, stream'[c]), Owns(c)'
    PROVE  Types' /\ \A d \in Session : ConnOK(d)'
<1>1. conn' \in [Session -> Conn] /\ conn'[c] = m /\ \A d \in Session \ {c} : conn'[d] = conn[d]
  BY Moved
<1>2. Types'
  BY <1>1 DEF Types
<1>3. Touches(c)
  BY <1>1 DEF Touches
<1>4. ConnOK(c)'
  <2>1. Pinned(c)'
    BY <1>1 DEF ConnOK, Pinned
  <2>2. Answers(c)' /\ Fits(conn[c], stream[c])'
    BY <1>1 DEF Answers
  <2>3. QED
    BY <2>1, <2>2 DEF ConnOK
<1>5. QED
  BY <1>2, <1>3, <1>4, OthersKept

\* One frame is taken from the stream.
LEMMA Consumed ==
    ASSUME Types, NEW c \in Session, Consume(c), stream[c] # <<>>
    PROVE  /\ stream' \in [Session -> Seq(Frames)] /\ stream'[c] = Tail(stream[c])
           /\ \A d \in Session \ {c} : stream'[d] = stream[d]
<1>1. stream[c] \in Seq(Frames)
  BY DEF Types
<1>2. Tail(stream[c]) \in Seq(Frames)
  BY <1>1, HeadTailProperties
<1>3. QED
  BY <1>2 DEF Consume, Types

LEMMA HeaderStep ==
    ASSUME MInv, Types, \A d \in Session : ConnOK(d), NEW c \in Session, TakeHeader(c)
    PROVE  Types' /\ (\A d \in Session : ConnOK(d)') /\ data' = data
<1> USE DEF managerVars, At
<1> DEFINE k == conn[c]
           r == Head(stream[c]).req
<1>1. k \in Conn /\ stream[c] \in Seq(Frames) /\ k.phase = "header" /\ stream[c] # <<>>
      /\ "header" \in Transmitting /\ data \in [Profile -> [0 .. Blocks - 1 -> Value]]
  BY DEF TakeHeader, Types, Transmitting
<1>2. Head(stream[c]) \in Frames /\ r \in Header /\ Head(stream[c]).kind = "header"
  <2>1. Head(stream[c]) \in Frames
    BY <1>1, HeadTailProperties
  <2>2. QED
    BY <1>1, <2>1 DEF Frames, ConnOK, Fits
<1>3. k.buf = None /\ k.want = <<>> /\ k.last.handle = k.answered /\ k.last.true
      /\ Fits(k, stream[c])
  BY <1>1 DEF ConnOK, Owns, Answers, Busy
<1>4. CASE End(c)
  BY <1>4, Ends
<1>5. CASE ~Oversized(r) /\ Verdict(r) = "ok" /\ r.cmd \in {"read", "write"}
           /\ \E b \in free :
                /\ free' = free \ {b} /\ Consume(c)
                /\ Update(c, [conn[c] EXCEPT !.req = r, !.buf = b, !.status = "ok",
                                !.phase = IF HasBody(r) THEN "body" ELSE "serve"])
                /\ UNCHANGED <<managerVars, buffer, data, active, stopping>>
  <2>1. PICK b \in free :
           /\ free' = free \ {b} /\ Consume(c)
           /\ Update(c, [conn[c] EXCEPT !.req = r, !.buf = b, !.status = "ok",
                           !.phase = IF HasBody(r) THEN "body" ELSE "serve"])
           /\ UNCHANGED <<managerVars, buffer, data, active, stopping>>
    BY <1>5
  <2>2. PICK p \in {"body", "serve"} : p = IF HasBody(r) THEN "body" ELSE "serve"
    OBVIOUS
  <2> DEFINE m == [k EXCEPT !.req = r, !.buf = b, !.status = "ok", !.phase = p]
  <2>3. b \in Buffer /\ free \subseteq Buffer /\ b # None
    BY ServerAssumption DEF Types, Buffer
  <2>4. m \in Conn
    BY <1>1, <1>2, <2>3 DEF Conn, Phases, Transmitting, Status
  <2>5. m.req = r /\ m.buf = b /\ m.phase = p /\ SameFields(k, m) /\ m.want = <<>>
        /\ m.last = k.last /\ m.answered = k.answered /\ m.status = "ok"
    BY <1>1, <1>3 DEF Conn, SameFields
  <2>6. Update(c, m)
    BY <2>1, <2>2
  <2> HIDE DEF m, k, r
  <2>7. InRange(r) /\ (p = "body" <=> r.cmd = "write") /\ (p = "body" <=> WithPayload(r))
    <3>1. InRange(r)
      BY <1>5 DEF Verdict
    <3>2. r.len \in Nat /\ MaxRequest \in Nat /\ r.len > 0 /\ r.len <= MaxRequest
      BY <1>2, <3>1, ServerAssumption DEF InRange, Header
    <3>3. r.len \in 1 .. MaxRequest
      BY <3>2
    <3>4. QED
      BY <1>5, <2>2, <3>1, <3>2, <3>3 DEF HasBody, WithPayload
  <2>8. stream' \in [Session -> Seq(Frames)] /\ stream'[c] = Tail(stream[c])
        /\ \A d \in Session \ {c} : stream'[d] = stream[d]
    BY <1>1, <2>1, Consumed
  <2>9. Fits(m, stream'[c])
    <3>1. m.req = Head(stream[c]).req /\ m.phase \in Busy /\ (m.phase = "body" <=> WithPayload(m.req))
      BY <2>5, <2>7 DEF Busy, r
    <3>2. QED
      BY <1>1, <1>3, <2>4, <2>5, <2>8, <3>1, HeaderFits
  <2>10. conn'[c] = m /\ \A d \in Session \ {c} : conn'[d] = conn[d]
    BY <2>4, <2>6, Moved
  <2>11. Owns(c)'
    <3>1. \A d \in Session \ {c} : conn'[d].buf # b
      BY <2>3, <2>10, BuffersApart
    <3>2. b \notin free'
      BY <2>1
    <3>3. p = "serve" => r.cmd = "read"
      BY <1>5, <2>7
    <3>4. QED
      BY <2>3, <2>5, <2>7, <2>10, <3>1, <3>2, <3>3 DEF Owns, Busy
  <2>12. \A d \in Session \ {c} : conn[d].buf # None =>
                /\ buffer'[conn[d].buf] = buffer[conn[d].buf]
                /\ conn[d].buf \notin free' /\ m.buf # conn[d].buf
    BY <2>1, <2>5, BuffersApart
  <2>13. buffer' \in [Buffer -> Room] /\ free' \subseteq Buffer /\ data' = data /\ pinned' = pinned
    BY <2>1 DEF Types
  <2>14. m.phase \in Transmitting /\ m.last.handle = m.answered /\ m.last.true
    BY <1>3, <2>5 DEF Transmitting
  <2>15. conn[c].phase \in Transmitting
    BY <1>1 DEF k
  <2>16. QED
    BY <1>1, <2>4, <2>6, <2>8, <2>9, <2>11, <2>12, <2>13, <2>14, <2>15, TransmitStep
<1>6. CASE /\ ~Oversized(r) /\ (Verdict(r) # "ok" \/ r.cmd = "flush")
           /\ Take(c, [conn[c] EXCEPT !.req = r, !.status = Verdict(r),
                         !.phase = CASE HasBody(r) -> "body"
                                     [] r.cmd = "flush" -> "serve"
                                     [] OTHER -> "reply"])
  <2>1. PICK p \in Busy : p = IF HasBody(r) THEN "body"
                              ELSE IF r.cmd = "flush" THEN "serve" ELSE "reply"
    BY DEF Busy
  <2>2. PICK v \in Status : v = Verdict(r)
    BY DEF Verdict, Status
  <2> DEFINE m == [k EXCEPT !.req = r, !.status = v, !.phase = p]
  <2>3. m \in Conn
    BY <1>1, <1>2 DEF Conn, Phases, Transmitting, Busy
  <2>4. m.req = r /\ m.buf = None /\ m.phase = p /\ SameFields(k, m) /\ m.want = <<>>
        /\ m.last = k.last /\ m.answered = k.answered /\ m.status = v
    BY <1>1, <1>3 DEF Conn, SameFields
  <2>5. Update(c, m) /\ Consume(c) /\ UNCHANGED <<pinned, buffer, free, data>>
    <3>1. (CASE HasBody(r) -> "body" [] r.cmd = "flush" -> "serve" [] OTHER -> "reply") = p
      BY <2>1 DEF HasBody
    <3>2. QED
      BY <1>6, <2>2, <3>1 DEF Take
  <2> HIDE DEF m, k, r
  <2>6. p = "body" <=> WithPayload(r)
    <3>1. r.len \in Nat /\ MaxRequest \in Nat
      BY <1>2, ServerAssumption DEF Header
    <3>2. HasBody(r) <=> WithPayload(r)
      BY <1>6, <3>1 DEF HasBody, WithPayload, Oversized
    <3>3. QED
      BY <2>1, <3>2
  <2>7. stream' \in [Session -> Seq(Frames)] /\ stream'[c] = Tail(stream[c])
        /\ \A d \in Session \ {c} : stream'[d] = stream[d]
    BY <1>1, <2>5, Consumed
  <2>8. Fits(m, stream'[c])
    <3>1. m.req = Head(stream[c]).req /\ m.phase \in Busy /\ (m.phase = "body" <=> WithPayload(m.req))
      BY <2>4, <2>6 DEF r
    <3>2. QED
      BY <1>1, <1>3, <2>3, <2>4, <2>7, <3>1, HeaderFits
  <2>9. conn'[c] = m /\ \A d \in Session \ {c} : conn'[d] = conn[d]
    BY <2>3, <2>5, Moved
  <2>10. Owns(c)'
    <3>1. p = "serve" => r.cmd = "flush"
      BY <2>1
    <3>2. p = "body" => v # "ok"
      BY <1>6, <2>1, <2>2 DEF HasBody
    <3>3. QED
      BY <2>4, <2>9, <3>1, <3>2 DEF Owns, Busy
  <2>11. \A d \in Session \ {c} : conn[d].buf # None =>
                /\ buffer'[conn[d].buf] = buffer[conn[d].buf]
                /\ conn[d].buf \notin free' /\ m.buf # conn[d].buf
    BY <2>4, <2>5, BuffersApart
  <2>12. buffer' \in [Buffer -> Room] /\ free' \subseteq Buffer /\ data' = data /\ pinned' = pinned
    BY <2>5 DEF Types
  <2>13. m.phase \in Transmitting /\ m.last.handle = m.answered /\ m.last.true
    BY <1>3, <2>4 DEF Transmitting, Busy
  <2>14. conn[c].phase \in Transmitting
    BY <1>1 DEF k
  <2>15. QED
    BY <1>1, <2>3, <2>5, <2>7, <2>8, <2>10, <2>11, <2>12, <2>13, <2>14, TransmitStep
<1>7. QED
  BY <1>2, <1>4, <1>5, <1>6 DEF TakeHeader

\* What a request of n blocks finds in its buffer once v was read into it.
LEMMA FilledPrefix ==
    ASSUME NEW n \in Nat, n <= MaxRequest, NEW v \in [1 .. n -> Value], NEW old \in Room
    PROVE  /\ Filled(v, old) \in Room /\ v \in Seq(Value)
           /\ SubSeq(Filled(v, old), 1, n) = v
<1> DEFINE w == Filled(v, old)
<1>1. v \in Seq(Value) /\ Len(v) = n
  OBVIOUS
<1>2. MaxRequest \in Nat
  BY ServerAssumption
<1>3. w \in Room /\ \A i \in 1 .. n : w[i] = v[i]
  <2>1. \A i \in 1 .. MaxRequest : (IF i <= n THEN v[i] ELSE old[i]) \in Value
    BY <1>2 DEF Room
  <2>2. w = [i \in 1 .. MaxRequest |-> IF i <= n THEN v[i] ELSE old[i]]
    BY <1>1 DEF Filled
  <2> HIDE DEF w
  <2>3. w \in Room
    BY <2>1, <2>2 DEF Room
  <2>4. \A i \in 1 .. n : i \in 1 .. MaxRequest /\ i <= n
    BY <1>2
  <2>5. QED
    BY <2>2, <2>3, <2>4
<1> HIDE DEF w
<1>4. w \in Seq(Value) /\ Len(w) = MaxRequest
  BY <1>2, <1>3 DEF Room
<1>5. /\ SubSeq(w, 1, n) \in Seq(Value)
      /\ Len(SubSeq(w, 1, n)) = IF 1 <= n THEN n - 1 + 1 ELSE 0
      /\ \A i \in 1 .. n - 1 + 1 : SubSeq(w, 1, n)[i] = w[1 + i - 1]
  <2>1. \A i \in 1 .. n : w[i] \in Value
    BY <1>3
  <2>2. 1 \in Int /\ n \in Int /\ 1 \in 1 .. Len(w) + 1 /\ n \in 1 - 1 .. Len(w)
    BY <1>2, <1>4
  <2>3. QED
    BY <1>4, <2>1, <2>2, SubSeqProperties
<1>6. Len(SubSeq(w, 1, n)) = Len(v) /\ \A i \in 1 .. n : SubSeq(w, 1, n)[i] = v[i]
  <2>1. n - 1 + 1 = n /\ \A i \in 1 .. n : i \in 1 .. n - 1 + 1 /\ 1 + i - 1 = i
    OBVIOUS
  <2>2. (IF 1 <= n THEN n - 1 + 1 ELSE 0) = n
    OBVIOUS
  <2>3. QED
    BY <1>1, <1>3, <1>5, <2>1, <2>2
<1>7. SubSeq(w, 1, n) = v
  BY <1>1, <1>5, <1>6, SeqEqual
<1>8. QED
  BY <1>1, <1>3, <1>7 DEF w

\* A value of the request's length is put into the request's own buffer.
LEMMA FillsOwn ==
    ASSUME Types, \A d \in Session : ConnOK(d), NEW c \in Session, conn[c].buf # None,
           NEW v \in [1 .. conn[c].req.len -> Value],
           buffer' = [buffer EXCEPT ![conn[c].buf] = Filled(v, @)]
    PROVE  /\ buffer' \in [Buffer -> Room] /\ conn[c].buf \in Buffer /\ v \in Seq(Value)
           /\ v = SubSeq(buffer'[conn[c].buf], 1, conn[c].req.len)
           /\ \A d \in Session \ {c} : conn[d].buf # None =>
                 buffer'[conn[d].buf] = buffer[conn[d].buf]
<1>1. PICK b \in Buffer : b = conn[c].buf
  BY DEF Types, Conn
<1>2. PICK n \in Nat : n = conn[c].req.len
  BY DEF Types, Conn, Header
<1>3. n <= MaxRequest /\ buffer[b] \in Room /\ buffer \in [Buffer -> Room]
  BY <1>2 DEF ConnOK, Owns, InRange, Types
<1>4. v \in [1 .. n -> Value]
  BY <1>2
<1>5. PICK w \in Room : w = Filled(v, buffer[b]) /\ SubSeq(w, 1, n) = v /\ v \in Seq(Value)
  BY <1>3, <1>4, FilledPrefix
<1>6. buffer' = [buffer EXCEPT ![b] = w]
  BY <1>1, <1>5
<1>7. buffer' \in [Buffer -> Room] /\ buffer'[b] = w /\ \A a \in Buffer \ {b} : buffer'[a] = buffer[a]
  BY <1>3, <1>6
<1>8. \A d \in Session \ {c} : conn[d].buf # None => conn[d].buf \in Buffer \ {b}
  BY <1>1, BuffersApart
<1>9. QED
  BY <1>1, <1>2, <1>5, <1>7, <1>8

LEMMA BodyStep ==
    ASSUME MInv, Types, \A d \in Session : ConnOK(d), NEW c \in Session, TakeBody(c)
    PROVE  Types' /\ (\A d \in Session : ConnOK(d)') /\ data' = data
<1> USE DEF managerVars, At
<1> DEFINE k == conn[c]
           v == [i \in 1 .. k.req.len |-> Payload(c)]
<1>1. k \in Conn /\ stream[c] \in Seq(Frames) /\ k.phase = "body" /\ stream[c] # <<>>
      /\ data \in [Profile -> [0 .. Blocks - 1 -> Value]] /\ k.req.len \in Nat
  BY DEF TakeBody, Types, Conn, Header
<1>2. k.want = <<>> /\ k.last.handle = k.answered /\ k.last.true
      /\ Fits(k, stream[c])
  BY <1>1 DEF ConnOK, Owns, Answers
<1>3. Consume(c) /\ UNCHANGED <<pinned, free, data>>
  BY DEF TakeBody, Take
<1>4. stream' \in [Session -> Seq(Frames)] /\ stream'[c] = Tail(stream[c])
      /\ \A d \in Session \ {c} : stream'[d] = stream[d]
  BY <1>1, <1>3, Consumed
<1>5. conn[c].phase \in Transmitting /\ free' \subseteq Buffer
  BY <1>1, <1>3 DEF Transmitting, Types
<1>6. CASE k.buf = None
  <2> DEFINE m == [k EXCEPT !.phase = "reply"]
  <2>1. m \in Conn
    BY <1>1 DEF Conn, Phases, Transmitting
  <2>2. m.req = k.req /\ m.buf = None /\ m.phase = "reply" /\ SameFields(k, m) /\ m.want = <<>>
        /\ m.last = k.last /\ m.answered = k.answered /\ m.status = k.status
    BY <1>1, <1>2, <1>6 DEF Conn, SameFields
  <2>3. Update(c, m) /\ buffer' = buffer
    BY <1>6 DEF TakeBody, Take
  <2> HIDE DEF m
  <2>4. Fits(m, stream'[c])
    BY <1>1, <1>2, <1>4, <2>1, <2>2, BodyFits
  <2>5. conn'[c] = m
    BY <2>1, <2>3, Moved
  <2>6. Owns(c)'
    BY <2>2, <2>5 DEF Owns
  <2>7. \A d \in Session \ {c} : conn[d].buf # None =>
                /\ buffer'[conn[d].buf] = buffer[conn[d].buf]
                /\ conn[d].buf \notin free' /\ m.buf # conn[d].buf
    BY <1>3, <2>2, <2>3, BuffersApart
  <2>8. buffer' \in [Buffer -> Room]
    BY <2>3 DEF Types
  <2>9. m.phase \in Transmitting /\ m.last.handle = m.answered /\ m.last.true
    BY <1>2, <2>2 DEF Transmitting
  <2>10. QED
    BY <1>1, <1>3, <1>4, <1>5, <2>1, <2>3, <2>4, <2>6, <2>7, <2>8, <2>9, TransmitStep
<1>7. CASE k.buf # None
  <2>1. v \in [1 .. k.req.len -> Value]
    <3>1. Payload(c) \in Value
      BY DEF Value
    <3>2. QED
      BY <3>1
  <2>2. Update(c, [k EXCEPT !.phase = "serve", !.want = v])
        /\ buffer' = [buffer EXCEPT ![k.buf] = Filled(v, @)]
    BY <1>7 DEF TakeBody
  <2> HIDE DEF v
  <2>3. /\ buffer' \in [Buffer -> Room] /\ k.buf \in Buffer /\ v \in Seq(Value)
        /\ v = SubSeq(buffer'[k.buf], 1, k.req.len)
        /\ \A d \in Session \ {c} : conn[d].buf # None =>
              buffer'[conn[d].buf] = buffer[conn[d].buf]
    BY <1>7, <2>1, <2>2, FillsOwn
  <2> DEFINE m == [k EXCEPT !.phase = "serve", !.want = v]
  <2>4. m \in Conn
    BY <1>1, <2>3 DEF Conn, Phases, Transmitting
  <2>5. m.req = k.req /\ m.buf = k.buf /\ m.phase = "serve" /\ SameFields(k, m) /\ m.want = v
        /\ m.last = k.last /\ m.answered = k.answered
    BY <1>1 DEF Conn, SameFields
  <2> HIDE DEF m
  <2>6. Update(c, m)
    BY <2>2 DEF m
  <2>7. Fits(m, stream'[c])
    BY <1>1, <1>2, <1>4, <2>4, <2>5, BodyFits
  <2>8. conn'[c] = m /\ \A d \in Session \ {c} : conn'[d] = conn[d]
    BY <2>4, <2>6, Moved
  <2>9. Owns(c)'
    <3>1. /\ k.buf \notin free /\ InRange(k.req) /\ k.req.cmd = "write"
          /\ \A d \in Session \ {c} : conn[d].buf # k.buf
      BY <1>1, <1>7 DEF ConnOK, Owns
    <3>2. k.buf \notin free' /\ \A d \in Session \ {c} : conn'[d].buf # k.buf
      BY <1>3, <2>8, <3>1
    <3>3. Holds(m, buffer'[k.buf])
      BY <2>3, <2>5 DEF Holds
    <3>4. QED
      BY <1>7, <2>5, <2>8, <3>1, <3>2, <3>3 DEF Owns, Busy, Holds
  <2>10. \A d \in Session \ {c} : conn[d].buf # None =>
                /\ buffer'[conn[d].buf] = buffer[conn[d].buf]
                /\ conn[d].buf \notin free' /\ m.buf # conn[d].buf
    BY <1>3, <2>3, <2>5, BuffersApart
  <2>11. m.phase \in Transmitting /\ m.last.handle = m.answered /\ m.last.true
    BY <1>2, <2>5 DEF Transmitting
  <2>12. QED
    BY <1>1, <1>3, <1>4, <1>5, <2>3, <2>4, <2>6, <2>7, <2>9, <2>10, <2>11, TransmitStep
<1>8. QED
  BY <1>6, <1>7

\* What a request may touch is on the disk.
LEMMA OnDisk ==
    ASSUME NEW r \in Header, InRange(r), NEW n \in 0 .. r.len, NEW i \in 1 .. n
    PROVE  r.off + i - 1 \in 0 .. Blocks - 1
<1>1. r.off \in Nat /\ r.len \in Nat /\ Blocks \in Nat /\ r.len <= Blocks - r.off
  BY ServerAssumption DEF Header, InRange
<1>2. QED
  BY <1>1

LEMMA ReadStep ==
    ASSUME MInv, Types, \A d \in Session : ConnOK(d), NEW c \in Session, ServeRead(c)
    PROVE  Types' /\ (\A d \in Session : ConnOK(d)') /\ data' = data
<1> USE DEF managerVars, At
<1> DEFINE k == conn[c]
           v == Asked(c, k.req.len)
<1>1. k \in Conn /\ stream \in [Session -> Seq(Frames)] /\ k.phase = "serve" /\ k.req.cmd = "read"
      /\ data \in [Profile -> [0 .. Blocks - 1 -> Value]] /\ k.req \in Header
      /\ k.req.len \in Nat
  BY DEF ServeRead, Types, Conn, Header
<1>2. k.buf # None /\ k.last.handle = k.answered /\ k.last.true /\ InRange(k.req)
      /\ Fits(k, stream[c]) /\ k.buf \notin free
      /\ \A d \in Session \ {c} : conn[d].buf # k.buf
  BY <1>1 DEF ConnOK, Owns, Answers
<1>3. UNCHANGED <<pinned, stream, data>>
  BY DEF ServeRead
<1>4. conn[c].phase \in Transmitting /\ stream' \in [Session -> Seq(Frames)] /\ pinned[c] \in Profile
      /\ \A d \in Session \ {c} : stream'[d] = stream[d]
  BY <1>1, <1>3 DEF Transmitting, ConnOK, Pinned
<1>5. CASE /\ buffer' = [buffer EXCEPT ![k.buf] = Filled(v, @)]
           /\ Update(c, [Reply(k, "ok") EXCEPT !.want = v]) /\ UNCHANGED free
  <2>1. v \in [1 .. k.req.len -> Value]
    <3>1. \A i \in 1 .. k.req.len : data[pinned[c]][k.req.off + i - 1] \in Value
      <4>1. k.req.len \in 0 .. k.req.len
        BY <1>1
      <4>2. \A i \in 1 .. k.req.len : k.req.off + i - 1 \in 0 .. Blocks - 1
        BY <1>1, <1>2, <4>1, OnDisk
      <4>3. QED
        BY <1>1, <1>4, <4>2
    <3>2. QED
      BY <3>1 DEF Asked
  <2> HIDE DEF v
  <2>3. /\ buffer' \in [Buffer -> Room] /\ k.buf \in Buffer /\ v \in Seq(Value)
        /\ v = SubSeq(buffer'[k.buf], 1, k.req.len)
        /\ \A d \in Session \ {c} : conn[d].buf # None =>
              buffer'[conn[d].buf] = buffer[conn[d].buf]
    BY <1>2, <1>5, <2>1, FillsOwn
  <2> DEFINE m == [k EXCEPT !.phase = "reply", !.status = "ok", !.want = v]
  <2>4. m \in Conn
    BY <1>1, <2>3 DEF Conn, Phases, Transmitting, Status
  <2>5. m.req = k.req /\ m.buf = k.buf /\ m.phase = "reply" /\ SameFields(k, m) /\ m.want = v
        /\ m.last = k.last /\ m.answered = k.answered
    BY <1>1 DEF Conn, SameFields
  <2>6. Update(c, m)
    <3>1. [Reply(k, "ok") EXCEPT !.want = v] = m
      BY <1>1 DEF Reply, Conn
    <3>2. QED
      BY <1>5, <3>1
  <2> HIDE DEF m
  <2>7. Fits(m, stream'[c])
    BY <1>1, <1>2, <1>3, <2>4, <2>5, ServeFits
  <2>8. conn'[c] = m /\ \A d \in Session \ {c} : conn'[d] = conn[d]
    BY <2>4, <2>6, Moved
  <2>9. Owns(c)'
    <3>1. k.buf \notin free' /\ \A d \in Session \ {c} : conn'[d].buf # k.buf
      BY <1>2, <1>5, <2>8
    <3>2. Holds(m, buffer'[k.buf])
      BY <2>3, <2>5 DEF Holds
    <3>3. QED
      BY <1>2, <2>5, <2>8, <3>1, <3>2 DEF Owns, Busy, Holds
  <2>10. \A d \in Session \ {c} : conn[d].buf # None =>
                /\ buffer'[conn[d].buf] = buffer[conn[d].buf]
                /\ conn[d].buf \notin free' /\ m.buf # conn[d].buf
    BY <1>5, <2>3, <2>5, BuffersApart
  <2>11. m.phase \in Transmitting /\ m.last.handle = m.answered /\ m.last.true
         /\ free' \subseteq Buffer
    BY <1>2, <1>5, <2>5 DEF Transmitting, Types
  <2>12. QED
    BY <1>1, <1>3, <1>4, <2>3, <2>4, <2>6, <2>7, <2>9, <2>10, <2>11, TransmitStep
<1>6. CASE Update(c, [Reply(k, "EIO") EXCEPT !.buf = None]) /\ Put({k.buf})
  <2>0. k.buf \in Buffer \cup {None}
    BY <1>1 DEF Conn
  <2>1. /\ buffer' \in [Buffer -> Room] /\ free' \subseteq Buffer
        /\ \A a \in Buffer \ {k.buf} : buffer'[a] = buffer[a] /\ (a \in free' => a \in free)
    BY <1>6, <2>0, PutBack
  <2> DEFINE m == [k EXCEPT !.phase = "reply", !.status = "EIO", !.buf = None]
  <2>2. m \in Conn
    BY <1>1 DEF Conn, Phases, Transmitting, Status
  <2>3. m.req = k.req /\ m.buf = None /\ m.phase = "reply" /\ SameFields(k, m)
        /\ m.last = k.last /\ m.answered = k.answered /\ m.status = "EIO"
    BY <1>1 DEF Conn, SameFields
  <2>4. Update(c, m)
    <3>1. [Reply(k, "EIO") EXCEPT !.buf = None] = m
      BY <1>1 DEF Reply, Conn
    <3>2. QED
      BY <1>6, <3>1
  <2> HIDE DEF m
  <2>5. Fits(m, stream'[c])
    BY <1>1, <1>2, <1>3, <2>2, <2>3, ServeFits
  <2>6. conn'[c] = m
    BY <2>2, <2>4, Moved
  <2>7. Owns(c)'
    BY <2>3, <2>6 DEF Owns
  <2>8. \A d \in Session \ {c} : conn[d].buf # None =>
                /\ buffer'[conn[d].buf] = buffer[conn[d].buf]
                /\ conn[d].buf \notin free' /\ m.buf # conn[d].buf
    BY <2>1, <2>3, BuffersApart
  <2>9. m.phase \in Transmitting /\ m.last.handle = m.answered /\ m.last.true
    BY <1>2, <2>3 DEF Transmitting
  <2>10. QED
    BY <1>1, <1>3, <1>4, <2>1, <2>2, <2>4, <2>5, <2>7, <2>8, <2>9, TransmitStep
<1>7. QED
  BY <1>5, <1>6 DEF ServeRead

\* Only the connection's phase and status change, and the data if it may.
LEMMA Served ==
    ASSUME MInv, Types, \A d \in Session : ConnOK(d), NEW c \in Session,
           conn[c].phase = "serve", NEW s \in Status,
           s = "ok" => conn[c].req.cmd # "read",
           Update(c, Reply(conn[c], s)), UNCHANGED <<pinned, stream, buffer, free>>,
           data' \in [Profile -> [0 .. Blocks - 1 -> Value]]
    PROVE  Types' /\ \A d \in Session : ConnOK(d)'
<1> DEFINE k == conn[c]
           m == Reply(k, s)
<1>1. k \in Conn /\ stream \in [Session -> Seq(Frames)] /\ k.last.handle = k.answered
      /\ k.last.true /\ Fits(k, stream[c])
  BY DEF Types, ConnOK, Answers
<1>2. m \in Conn
  BY <1>1 DEF Reply, Conn, Phases, Transmitting
<1>3. m.req = k.req /\ m.buf = k.buf /\ m.phase = "reply" /\ SameFields(k, m) /\ m.want = k.want
      /\ m.last = k.last /\ m.answered = k.answered /\ m.status = s
  BY <1>1 DEF Reply, Conn, SameFields
<1>4. Update(c, m)
  OBVIOUS
<1> HIDE DEF m
<1>5. Fits(m, stream'[c])
  BY <1>1, <1>2, <1>3, ServeFits
<1>6. conn'[c] = m /\ \A d \in Session \ {c} : conn'[d] = conn[d]
  BY <1>2, <1>4, Moved
<1>7. Owns(c)'
  <2>1. k.buf # None => /\ k.buf \notin free' /\ InRange(k.req)
                        /\ \A d \in Session \ {c} : conn'[d].buf # k.buf
    BY <1>6 DEF ConnOK, Owns
  <2>2. s = "ok" => IF k.buf = None THEN k.want = <<>> ELSE Holds(m, buffer'[k.buf])
    BY <1>3 DEF ConnOK, Owns, Holds
  <2>3. QED
    BY <1>3, <1>6, <2>1, <2>2 DEF Owns, Busy, Holds
<1>8. \A d \in Session \ {c} : conn[d].buf # None =>
              /\ buffer'[conn[d].buf] = buffer[conn[d].buf]
              /\ conn[d].buf \notin free' /\ m.buf # conn[d].buf
  BY <1>3, BuffersApart
<1>9. m.phase \in Transmitting /\ m.last.handle = m.answered /\ m.last.true
      /\ conn[c].phase \in Transmitting
  BY <1>1, <1>3 DEF Transmitting
<1>10. /\ buffer' \in [Buffer -> Room] /\ free' \subseteq Buffer
       /\ stream' \in [Session -> Seq(Frames)] /\ \A d \in Session \ {c} : stream'[d] = stream[d]
  BY DEF Types
<1>11. QED
  BY <1>2, <1>4, <1>5, <1>7, <1>8, <1>9, <1>10, TransmitStep

LEMMA FlushStep ==
    ASSUME MInv, Types, \A d \in Session : ConnOK(d), NEW c \in Session, ServeFlush(c)
    PROVE  Types' /\ (\A d \in Session : ConnOK(d)') /\ data' = data
<1>1. PICK s \in {"ok"} \cup (IF ReadOnly(c) THEN {} ELSE {"EIO"}) : Update(c, Reply(conn[c], s))
  BY DEF ServeFlush
<1>2. s \in Status
  BY <1>1 DEF Status
<1>3. conn[c].phase = "serve" /\ conn[c].req.cmd = "flush"
      /\ UNCHANGED <<pinned, stream, buffer, free, data>>
  BY DEF ServeFlush, At, managerVars
<1>4. data' \in [Profile -> [0 .. Blocks - 1 -> Value]]
  BY <1>3 DEF Types
<1>5. QED
  BY <1>1, <1>2, <1>3, <1>4, Served

LEMMA WriteStep ==
    ASSUME MInv, Types, OnlyCardChanges, \A d \in Session : ConnOK(d), NEW c \in Session,
           ServeWrite(c)
    PROVE  Types' /\ (\A d \in Session : ConnOK(d)') /\ OnlyCardChanges'
<1> DEFINE k == conn[c]
           p == pinned[c]
           Row(n) == [b \in 0 .. Blocks - 1 |->
                        IF b \in k.req.off .. k.req.off + n - 1
                        THEN buffer[k.buf][b - k.req.off + 1] ELSE data[p][b]]
<1>1. k \in Conn /\ k.phase = "serve" /\ k.req.cmd = "write" /\ k.req \in Header
      /\ data \in [Profile -> [0 .. Blocks - 1 -> Value]]
      /\ UNCHANGED <<pinned, stream, buffer, free>>
  BY DEF ServeWrite, At, managerVars, Types, Conn
<1>2. k.buf \in Buffer /\ InRange(k.req) /\ p \in Profile
  BY <1>1 DEF ConnOK, Owns, Pinned, Conn, Transmitting
<1>3. PICK old \in Room : old = buffer[k.buf]
  BY <1>2 DEF Types
<1>4. /\ k.req.off \in Nat /\ k.req.len \in Nat /\ Blocks \in Nat /\ MaxRequest \in Nat
      /\ k.req.len <= MaxRequest
  BY <1>1, <1>2, ServerAssumption DEF Header, InRange
<1>5. ASSUME NEW n \in 0 .. k.req.len, data' = [data EXCEPT ![p] = Row(n)], WriteAllowed(c)
      PROVE  data' \in [Profile -> [0 .. Blocks - 1 -> Value]] /\ OnlyCardChanges'
  <2>1. \A b \in 0 .. Blocks - 1 : b \in k.req.off .. k.req.off + n - 1 =>
            old[b - k.req.off + 1] \in Value
    <3>1. \A b \in 0 .. Blocks - 1 : b \in k.req.off .. k.req.off + n - 1 =>
              b - k.req.off + 1 \in 1 .. MaxRequest
      BY <1>4
    <3>2. QED
      BY <3>1 DEF Room
  <2>2. data[p] \in [0 .. Blocks - 1 -> Value]
    BY <1>1, <1>2
  <2>3. Row(n) \in [0 .. Blocks - 1 -> Value]
    BY <1>3, <2>1, <2>2
  <2>4. \A b \in 0 .. Blocks - 1 : Row(n)[b] # data[p][b] => b \in Touched(k.req)
    <3>1. \A b \in 0 .. Blocks - 1 : b \in k.req.off .. k.req.off + n - 1 =>
              b \in k.req.off .. k.req.off + k.req.len - 1
      BY <1>4
    <3>2. QED
      BY <3>1 DEF Touched
  <2> HIDE DEF Row
  <2>5. data' \in [Profile -> [0 .. Blocks - 1 -> Value]] /\ data'[p] = Row(n)
        /\ \A q \in Profile \ {p} : data'[q] = data[q]
    BY <1>1, <1>2, <1>5, <2>3
  <2>6. p # Wii /\ Touched(k.req) \subseteq Card
    BY <1>5 DEF WriteAllowed, ReadOnly
  <2>7. ASSUME NEW q \in Profile, NEW b \in 0 .. Blocks - 1, data'[q][b] # <<q, b>>
        PROVE  q # Wii /\ b \in Card
    <3>1. CASE q # p
      BY <2>5, <2>7, <3>1 DEF OnlyCardChanges
    <3>2. CASE q = p /\ Row(n)[b] = data[p][b]
      BY <1>2, <2>5, <2>7, <3>2 DEF OnlyCardChanges
    <3>3. CASE q = p /\ Row(n)[b] # data[p][b]
      BY <2>4, <2>6, <3>3
    <3>4. QED
      BY <3>1, <3>2, <3>3
  <2>8. QED
    BY <2>5, <2>7 DEF OnlyCardChanges
<1>6. \E s \in Status : Update(c, Reply(k, s))
  BY DEF ServeWrite, Status
<1>7. data' \in [Profile -> [0 .. Blocks - 1 -> Value]] /\ OnlyCardChanges'
  <2>1. CASE data' = data
    BY <1>1, <2>1 DEF OnlyCardChanges
  <2>2. CASE WriteAllowed(c) /\ \E n \in 0 .. k.req.len : data' = [data EXCEPT ![p] = Row(n)]
    BY <1>5, <2>2
  <2>3. k.req.len \in 0 .. k.req.len
    BY <1>4
  <2>4. QED
    BY <2>1, <2>2, <2>3 DEF ServeWrite
<1>8. QED
  BY <1>1, <1>6, <1>7, Served

\* The reply.
LEMMA SendStep ==
    ASSUME MInv, Types, \A d \in Session : ConnOK(d), NEW c \in Session, Send(c)
    PROVE  Types' /\ (\A d \in Session : ConnOK(d)') /\ data' = data
<1> USE DEF managerVars, At
<1> DEFINE k == conn[c]
           value == IF k.buf # None THEN SubSeq(buffer[k.buf], 1, k.req.len) ELSE <<>>
           l == [handle |-> k.req.handle, true |-> k.status = "ok" => value = k.want]
<1>1. k \in Conn /\ stream \in [Session -> Seq(Frames)] /\ k.phase = "reply"
      /\ k.req \in Header /\ k.req.handle \in Nat /\ k.answered \in Nat
      /\ k.buf \in Buffer \cup {None}
  BY DEF Send, Types, Conn, Header
<1>2. Fits(k, stream[c]) /\ k.req.handle = k.answered + 1
  BY <1>1 DEF ConnOK, Fits, Busy
<1>3. k.status = "ok" => value = k.want
  BY <1>1 DEF ConnOK, Owns, Holds
<1>4. l = [handle |-> k.answered + 1, true |-> TRUE]
  BY <1>2, <1>3
<1>5. PICK a \in Nat : a = k.answered + 1
  BY <1>1
<1>6. PICK z \in [handle : Nat, true : BOOLEAN] : z = l /\ z.handle = a /\ z.true
  <2>1. l \in [handle : Nat, true : BOOLEAN] /\ l.handle = a /\ l.true
    BY <1>4, <1>5
  <2>2. QED
    BY <2>1
<1> HIDE DEF l
<1> DEFINE m == [k EXCEPT !.phase = "header", !.buf = None, !.req = NoRequest,
                          !.want = <<>>, !.status = "ok", !.answered = a, !.last = z]
<1>7. NoRequest \in Header /\ <<>> \in Seq(Value)
  BY EmptySeq DEF NoRequest, Header, Commands
<1>8. m \in Conn
  BY <1>1, <1>7 DEF Conn, Phases, Transmitting, Status
<1>9. m.phase = "header" /\ m.buf = None /\ m.requests = k.requests /\ m.cut = k.cut
      /\ m.answered = k.answered + 1 /\ m.last = z /\ m.want = <<>>
  BY <1>1, <1>5 DEF Conn
<1>10. Update(c, m) /\ Put({k.buf}) /\ UNCHANGED <<pinned, stream, data>>
  BY <1>5, <1>6 DEF Send, l
<1> HIDE DEF m
<1>11. /\ buffer' \in [Buffer -> Room] /\ free' \subseteq Buffer
       /\ \A b \in Buffer \ {k.buf} : buffer'[b] = buffer[b] /\ (b \in free' => b \in free)
  BY <1>1, <1>10, PutBack
<1>12. Fits(m, stream'[c])
  BY <1>1, <1>2, <1>8, <1>9, <1>10, ReplyFits
<1>13. conn'[c] = m
  BY <1>8, <1>10, Moved
<1>14. Owns(c)'
  BY <1>9, <1>13 DEF Owns
<1>15. \A d \in Session \ {c} : conn[d].buf # None =>
              /\ buffer'[conn[d].buf] = buffer[conn[d].buf]
              /\ conn[d].buf \notin free' /\ m.buf # conn[d].buf
  BY <1>9, <1>11, BuffersApart
<1>16. m.phase \in Transmitting /\ m.last.handle = m.answered /\ m.last.true
       /\ conn[c].phase \in Transmitting
  BY <1>1, <1>5, <1>6, <1>9 DEF Transmitting
<1>17. /\ stream' \in [Session -> Seq(Frames)] /\ \A d \in Session \ {c} : stream'[d] = stream[d]
       /\ data' \in [Profile -> [0 .. Blocks - 1 -> Value]] /\ data' = data /\ pinned' = pinned
  BY <1>1, <1>10 DEF Types
<1>18. QED
  BY <1>8, <1>10, <1>11, <1>12, <1>14, <1>15, <1>16, <1>17, TransmitStep

-----------------------------------------------------------------------------
\* The clients, and the closing of connections.

LEMMA RequestStep ==
    ASSUME MInv, Types, \A d \in Session : ConnOK(d), NEW c \in Session, SendRequest(c)
    PROVE  Types' /\ (\A d \in Session : ConnOK(d)') /\ data' = data
<1> USE DEF managerVars
<1> DEFINE k == conn[c]
<1>1. k \in Conn /\ stream \in [Session -> Seq(Frames)] /\ k.phase \in Transmitting /\ ~k.cut
      /\ k.requests \in Nat /\ Fits(k, stream[c]) /\ stream[c] \in Seq(Frames)
      /\ k.last.handle = k.answered /\ k.last.true
  BY DEF SendRequest, Types, Conn, ConnOK, Answers
<1>2. PICK n \in Nat : n = k.requests + 1
  BY <1>1
<1>3. PICK q \in Requests :
         LET r == [cmd |-> q.cmd, off |-> q.off, len |-> q.len, handle |-> n]
         IN  Pushed(c, <<FrameOf("header", r)>> \o
                       (IF r.cmd = "write" /\ r.len > 0
                        THEN <<FrameOf("payload", r)>> ELSE <<>>),
                    [conn[c] EXCEPT !.requests = n])
  BY <1>2 DEF SendRequest
<1> DEFINE r == [cmd |-> q.cmd, off |-> q.off, len |-> q.len, handle |-> n]
           t == <<FrameOf("header", r)>> \o (IF r.cmd = "write" /\ r.len > 0
                                             THEN <<FrameOf("payload", r)>> ELSE <<>>)
           m == [k EXCEPT !.requests = n]
<1>4. r \in Header /\ r.handle = k.requests + 1
  BY <1>2, RequestAssumption DEF Header
<1>5. m \in Conn
  BY <1>1 DEF Conn
<1>6. /\ m.phase = k.phase /\ m.cut = k.cut /\ m.answered = k.answered /\ m.req = k.req
      /\ m.requests = k.requests + 1 /\ m.buf = k.buf /\ m.want = k.want
      /\ m.status = k.status /\ m.last = k.last
  BY <1>1, <1>2 DEF Conn
<1>7. Pushed(c, t, m)
  BY <1>3
<1> HIDE DEF m, r
<1>8. PICK u : u = t
  OBVIOUS
<1>9. stream[c] \o u \in Seq(Frames) /\ Fits(m, stream[c] \o u)
  BY <1>1, <1>4, <1>5, <1>6, <1>8, PushFits
<1>10. /\ stream' = [stream EXCEPT ![c] = @ \o u] /\ Update(c, m)
       /\ UNCHANGED <<pinned, buffer, free, data>>
  BY <1>7, <1>8 DEF Pushed
<1> HIDE DEF t
<1>11. stream' \in [Session -> Seq(Frames)] /\ stream'[c] = stream[c] \o u
       /\ \A d \in Session \ {c} : stream'[d] = stream[d]
  BY <1>1, <1>9, <1>10
<1>12. conn'[c] = m /\ \A d \in Session \ {c} : conn'[d] = conn[d]
  BY <1>5, <1>10, Moved
<1>13. Owns(c)'
  BY <1>6, <1>10, <1>12 DEF ConnOK, Owns, Holds
<1>14. \A d \in Session \ {c} : conn[d].buf # None =>
              /\ buffer'[conn[d].buf] = buffer[conn[d].buf]
              /\ conn[d].buf \notin free' /\ m.buf # conn[d].buf
  BY <1>6, <1>10, BuffersApart
<1>15. /\ m.phase \in Transmitting /\ m.last.handle = m.answered /\ m.last.true
       /\ buffer' \in [Buffer -> Room] /\ free' \subseteq Buffer
       /\ data' \in [Profile -> [0 .. Blocks - 1 -> Value]]
  BY <1>1, <1>6, <1>10 DEF Types
<1>16. Fits(m, stream'[c])
  BY <1>9, <1>11
<1>17. QED
  BY <1>1, <1>5, <1>10, <1>11, <1>13, <1>14, <1>15, <1>16, TransmitStep

\* Some connections are closed by one side; frames may be lost with them.
Cut(k, m) == /\ m \in Conn /\ m.phase = k.phase /\ m.answered = k.answered /\ m.req = k.req
             /\ m.requests = k.requests /\ m.buf = k.buf /\ m.want = k.want
             /\ m.status = k.status /\ m.last = k.last

LEMMA CutKept ==
    ASSUME NEW k \in Conn
    PROVE  Cut(k, k) /\ Cut(k, [k EXCEPT !.cut = TRUE]) /\ [k EXCEPT !.cut = TRUE].cut = TRUE
<1>1. [k EXCEPT !.cut = TRUE] \in Conn
  BY DEF Conn
<1>2. QED
  BY <1>1 DEF Cut, Conn

LEMMA CutStep ==
    ASSUME Types, \A d \in Session : ConnOK(d), UNCHANGED <<pinned, buffer, free, data>>,
           conn' = [d \in Session |-> conn'[d]], \A d \in Session : Cut(conn[d], conn'[d]),
           stream' \in [Session -> Seq(Frames)],
           \A d \in Session : Fits(conn'[d], stream'[d])
    PROVE  Types' /\ (\A d \in Session : ConnOK(d)') /\ data' = data
<1>1. conn' \in [Session -> Conn]
  BY DEF Cut
<1>2. Types'
  BY <1>1 DEF Types
<1>3. ASSUME NEW d \in Session
      PROVE  ConnOK(d)'
  <2>1. Pinned(d)' /\ Answers(d)' /\ Fits(conn[d], stream[d])'
    BY DEF Cut, ConnOK, Pinned, Answers
  <2>2. Owns(d)'
    BY DEF Cut, ConnOK, Owns, Holds
  <2>3. QED
    BY <2>1, <2>2 DEF ConnOK
<1>4. QED
  BY <1>2, <1>3

LEMMA CloseStep ==
    ASSUME MInv, Types, \A d \in Session : ConnOK(d), NEW c \in Session, ClientCloses(c)
    PROVE  Types' /\ (\A d \in Session : ConnOK(d)') /\ data' = data
<1> DEFINE k == conn[c]
           m == [k EXCEPT !.cut = TRUE]
<1>1. conn \in [Session -> Conn] /\ stream \in [Session -> Seq(Frames)] /\ k \in Conn
      /\ stream[c] \in Seq(Frames) /\ \A d \in Session : Fits(conn[d], stream[d])
  BY DEF Types, ConnOK
<1>2. m \in Conn /\ Cut(k, m) /\ m.cut = TRUE
  BY <1>1, CutKept DEF Cut
<1>3. Update(c, m) /\ UNCHANGED <<pinned, buffer, free, data>>
  BY DEF ClientCloses, managerVars
<1> HIDE DEF m
<1>4. conn' \in [Session -> Conn] /\ conn'[c] = m /\ \A d \in Session \ {c} : conn'[d] = conn[d]
  BY <1>2, <1>3, Moved
<1>5. \A d \in Session : Cut(conn[d], conn'[d])
  BY <1>1, <1>2, <1>4, CutKept
<1>6. CASE stream' = stream
  <2>1. Fits(m, stream[c])
    BY <1>1, <1>2, CutFits DEF Cut
  <2>2. QED
    BY <1>1, <1>3, <1>4, <1>5, <1>6, <2>1, CutStep
<1>7. CASE /\ stream[c] # <<>> /\ stream[c][Len(stream[c])].kind = "payload"
           /\ stream' = [stream EXCEPT ![c] = SubSeq(@, 1, Len(@) - 1)]
  <2>1. PICK t \in Seq(Frames) : t = SubSeq(stream[c], 1, Len(stream[c]) - 1) /\ Fits(m, t)
    BY <1>1, <1>2, <1>7, LossFits DEF Cut
  <2>2. stream' \in [Session -> Seq(Frames)] /\ stream'[c] = t
        /\ \A d \in Session \ {c} : stream'[d] = stream[d]
    BY <1>1, <1>7, <2>1
  <2>3. QED
    BY <1>1, <1>3, <1>4, <1>5, <2>1, <2>2, CutStep
<1>8. QED
  BY <1>6, <1>7 DEF ClientCloses

LEMMA CloseActiveStep ==
    ASSUME MInv, Types, \A d \in Session : ConnOK(d), CloseActive
    PROVE  Types' /\ (\A d \in Session : ConnOK(d)') /\ data' = data
<1>1. conn \in [Session -> Conn] /\ stream \in [Session -> Seq(Frames)]
      /\ \A d \in Session : Fits(conn[d], stream[d]) /\ conn[d] \in Conn /\ stream[d] \in Seq(Frames)
  BY DEF Types, ConnOK
<1>2. UNCHANGED <<pinned, buffer, free, data, stream>>
  BY DEF CloseActive, managerVars
<1>3. conn' = [c \in Session |-> IF c \in active THEN [conn[c] EXCEPT !.cut = TRUE] ELSE conn[c]]
  BY DEF CloseActive
<1>4. \A d \in Session : conn'[d] = conn[d] \/ conn'[d] = [conn[d] EXCEPT !.cut = TRUE]
  BY <1>3
<1>5. \A d \in Session : Cut(conn[d], conn'[d])
  BY <1>1, <1>4, CutKept
<1>6. ASSUME NEW d \in Session
      PROVE  Fits(conn'[d], stream'[d])
  <2>1. CASE conn'[d] = conn[d]
    BY <1>1, <1>2, <2>1
  <2>2. CASE conn'[d] = [conn[d] EXCEPT !.cut = TRUE]
    <3>1. PICK m \in Conn : m = conn'[d] /\ m.cut = TRUE /\ Cut(conn[d], m)
      BY <1>1, <1>5, <2>2, CutKept DEF Cut
    <3>2. Fits(m, stream[d])
      BY <1>1, <3>1, CutFits DEF Cut
    <3>3. QED
      BY <1>2, <3>1, <3>2
  <2>3. QED
    BY <1>4, <2>1, <2>2
<1>7. conn' = [d \in Session |-> conn'[d]]
  BY <1>3
<1>8. QED
  BY <1>1, <1>2, <1>5, <1>6, <1>7, CutStep

-----------------------------------------------------------------------------
LEMMA NInvInit == NbdInit => NInv
<1> SUFFICES ASSUME NbdInit PROVE NInv
  OBVIOUS
<1> USE DEF NbdInit
<1>1. MInv
  BY MInvInit
<1>2. Types
  <2>1. Pooled \in Room
    BY DEF Pooled, Room, Value
  <2>2. \A p \in Profile, b \in 0 .. Blocks - 1 : <<p, b>> \in Value
    BY DEF Value
  <2>3. conn \in [Session -> Conn] /\ stream \in [Session -> Seq(Frames)]
    BY NoConnTyped, EmptySeq
  <2>4. data \in [Profile -> [0 .. Blocks - 1 -> Value]]
    BY <2>2
  <2>5. QED
    BY <2>1, <2>3, <2>4 DEF Types
<1>3. OnlyCardChanges
  BY DEF OnlyCardChanges
<1>4. ASSUME NEW c \in Session
      PROVE  ConnOK(c)
  <2>1. conn[c] = NoConn /\ stream[c] = <<>>
    OBVIOUS
  <2>2. Fits(NoConn, <<>>)
    BY NoConnTyped, EmptyChain DEF Fits, Busy, Transmitting
  <2>3. Pinned(c) /\ Answers(c)
    BY <2>1, NoConnTyped DEF Pinned, Answers, Negotiating, Transmitting
  <2>4. Owns(c)
    BY <2>1, NoConnTyped DEF Owns
  <2>5. QED
    BY <2>1, <2>2, <2>3, <2>4 DEF ConnOK
<1>5. QED
  BY <1>1, <1>2, <1>3, <1>4 DEF NInv

LEMMA NInvStep == NInv /\ [NbdNext]_nbdVars => NInv'
<1> SUFFICES ASSUME NInv, [NbdNext]_nbdVars PROVE NInv'
  OBVIOUS
<1>1. MInv'
  BY ManagerStep, MInvStep DEF NInv
<1>2. MInv /\ Types /\ OnlyCardChanges /\ \A d \in Session : ConnOK(d)
  BY DEF NInv
<1>3. data' = data => OnlyCardChanges'
  BY <1>2 DEF OnlyCardChanges
<1>4. ASSUME NEW c \in Session,
             Accept(c) \/ ServerStep(c) \/ Deadline(c) \/ ClientStep(c)
             \/ TakeFlags(c) \/ Handshake(c) \/ \E opt \in Options : TakeOption(c, opt)
      PROVE  Types' /\ (\A d \in Session : ConnOK(d)') /\ OnlyCardChanges'
  <2>1. CASE \/ Accept(c) \/ Register(c) \/ Begin(c) \/ Refused(c) \/ TakeFlags(c)
             \/ Handshake(c) \/ \E opt \in Options : TakeOption(c, opt)
    BY <1>2, <1>3, <2>1, Negotiation
  <2>2. CASE Broken(c) \/ Deadline(c)
    BY <1>2, <1>3, <2>2, Ends DEF Broken, Deadline
  <2>3. CASE TakeHeader(c)
    BY <1>2, <1>3, <2>3, HeaderStep
  <2>4. CASE TakeBody(c)
    BY <1>2, <1>3, <2>4, BodyStep
  <2>5. CASE ServeRead(c)
    BY <1>2, <1>3, <2>5, ReadStep
  <2>6. CASE ServeWrite(c)
    BY <1>2, <2>6, WriteStep
  <2>7. CASE ServeFlush(c)
    BY <1>2, <1>3, <2>7, FlushStep
  <2>8. CASE Send(c)
    BY <1>2, <1>3, <2>8, SendStep
  <2>9. CASE SendRequest(c)
    BY <1>2, <1>3, <2>9, RequestStep
  <2>10. CASE ClientCloses(c)
    BY <1>2, <1>3, <2>10, CloseStep
  <2>11. QED
    BY <1>4, <2>1, <2>2, <2>3, <2>4, <2>5, <2>6, <2>7, <2>8, <2>9, <2>10
    DEF ServerStep, ClientStep
<1>5. CASE CloseActive
  BY <1>1, <1>2, <1>3, <1>5, CloseActiveStep DEF NInv
<1>6. CASE serverVars' = serverVars /\ pinned' = pinned
  <2>1. /\ conn' = conn /\ stream' = stream /\ buffer' = buffer /\ free' = free
        /\ data' = data /\ pinned' = pinned
    BY <1>6 DEF serverVars
  <2>2. Types' /\ OnlyCardChanges'
    BY <1>2, <1>3, <2>1 DEF Types
  <2>3. ASSUME NEW d \in Session
        PROVE  ConnOK(d)'
    <3>1. Pinned(d)' /\ Answers(d)' /\ Fits(conn[d], stream[d])'
      BY <1>2, <2>1 DEF ConnOK, Pinned, Answers
    <3>2. Owns(d)'
      BY <1>2, <2>1 DEF ConnOK, Owns, Holds
    <3>3. QED
      BY <3>1, <3>2 DEF ConnOK
  <2>4. QED
    BY <1>1, <2>2, <2>3 DEF NInv
<1>7. CASE Switch
  <2>1. pinned' = pinned
    BY <1>7 DEF Switch, Disconnect, SelectValid
  <2>2. QED
    BY <1>6, <1>7, <2>1 DEF Switch
<1>8. CASE UNCHANGED nbdVars
  BY <1>6, <1>8 DEF nbdVars, serverVars, managerVars
<1>9. QED
  BY <1>1, <1>4, <1>5, <1>7, <1>8 DEF NbdNext, NInv

\* NInv is an invariant of the server (server/nbd-plugin/nbd.go): whatever the
\* clients send and close and whenever the platform is switched, each
\* connection's unread stream continues what it has read, its buffer is its own
\* and holds the request's data, and its backend is pinned.
THEOREM NbdInvariant == NbdSpec => []NInv
<1> QED
  BY NInvInit, NInvStep, PTL DEF NbdSpec

\* handleTransmission never takes a payload for a header, nor a header for a
\* payload, however many requests were refused, failed or cut short before.
THEOREM StreamStaysAligned == NbdSpec => []FramesStayAligned
<1>1. NInv => FramesStayAligned
  <2> SUFFICES ASSUME NInv, NEW c \in Session, stream[c] # <<>>
               PROVE  /\ At(c, "header") => Head(stream[c]).kind = "header"
                      /\ At(c, "body") => /\ Head(stream[c]).kind = "payload"
                                          /\ Head(stream[c]).req = conn[c].req
    BY DEF FramesStayAligned
  <2>1. Fits(conn[c], stream[c])
    BY DEF NInv, ConnOK
  <2>2. QED
    BY <2>1 DEF Fits, FrameOf, At
<1>2. QED
  BY <1>1, NbdInvariant, PTL

\* Every reply answers the oldest open request of its connection, and a
\* successful one carries exactly that request's data, although all connections
\* take their buffers from one pool (requestBuffers).
THEOREM RepliesAreTrue == NbdSpec => []AnswersAreTrue
<1>1. NInv => AnswersAreTrue
  BY DEF NInv, ConnOK, Answers, AnswersAreTrue
<1>2. QED
  BY <1>1, NbdInvariant, PTL

\* No request changes the Wii disk, nor a block of the GameCube disk outside the
\* memory card's extent; not by a part of a failed write either.
THEOREM DiskOnlyChangesInCard == NbdSpec => []OnlyCardChanges
<1>1. NInv => OnlyCardChanges
  BY DEF NInv
<1>2. QED
  BY <1>1, NbdInvariant, PTL

\* The server with its clients implements the export manager's specification:
\* every step of a connection is one call of BeginSession or Release or none.
THEOREM NbdUsesManager == NbdSpec => ManagerSpec
<1>1. NbdInit => ManagerInit
  BY DEF NbdInit
<1>2. QED
  BY <1>1, ManagerStep, PTL DEF NbdSpec, ManagerSpec

\* The backend under a connection is never closed or replaced before handle's
\* deferred release.
THEOREM ServedBackendStaysOpen == NbdSpec => []PinnedBackendOpen
BY NbdUsesManager, PinnedBackendStaysOpen, PTL
=============================================================================
