-------------------------- MODULE PiiShieldProofs --------------------------
(* What PiiShield promises for any number of requests, of reloads and any  *)
(* breaker timeout.                                                        *)
EXTENDS PiiShield, TLAPS

(* A client's last success is not after its first failure. *)
BreakerOK(c) == c.failing # NotFailing => c.quiet >= c.failing

Scanning == {"scan", "posting", "answered", "failed"}

(* What a handler holds, given the policy of its client. *)
Honest(q, bypass) ==
  /\ q.pc \in Scanning => q.body = "text"
  /\ q.pc # "done" => q.reply.status = "none"
  /\ q.pc = "next" => q.dir = "input" /\ Went(q.verdict, bypass, q.body)
  /\ q.reply.status = "served" => q.dir = "output" /\ Went(q.verdict, bypass, q.reply.body)

ShieldInv ==
  /\ TypeOK
  /\ \A c \in DOMAIN clients : BreakerOK(clients[c])
  /\ \A r \in Requests : /\ req[r].client \in DOMAIN clients
                         /\ Honest(req[r], clients[req[r].client].bypass)

-----------------------------------------------------------------------------
(* The ways a handler goes on, one lemma each. *)
LEMMA FreshType == Fresh \in RequestType
<1>1. 1 \in 1..MaxClients
  BY MaxClientsAssumption
<1>. QED BY <1>1 DEF Fresh, RequestType, NoReply, Bodies, Verdicts, Statuses

LEMMA RepliedFacts ==
  ASSUME NEW q \in RequestType, NEW s \in Statuses \ {"none"}, NEW b \in Bodies,
         NEW n \in Bodies
  PROVE  /\ Replied(q, s, b, n) \in RequestType
         /\ Replied(q, s, b, n).client = q.client /\ Replied(q, s, b, n).dir = q.dir
         /\ Replied(q, s, b, n).pc = "done" /\ Replied(q, s, b, n).reply.status = s
         /\ Replied(q, s, b, n).reply.body = b /\ Replied(q, s, b, n).verdict = q.verdict
<1>. DEFINE y == [status |-> s, body |-> b, length |-> n]
<1>1. y \in [status : Statuses, body : Bodies, length : Bodies] /\ y.status = s /\ y.body = b
  OBVIOUS
<1>. HIDE DEF y
<1>2. Replied(q, s, b, n) = [q EXCEPT !.pc = "done", !.body = "none", !.length = "none",
                                      !.reply = y]
  BY DEF Replied, y
<1>3. "none" \in Bodies
  BY DEF Bodies
<1>. QED BY <1>1, <1>2, <1>3 DEF RequestType

LEMMA FailedFacts ==
  ASSUME NEW q \in RequestType, NEW bypass, NEW s \in {"400", "403", "503"}, NEW n \in Bodies
  PROVE  LET p == Replied(q, s, "notice", n) IN
         p \in RequestType /\ p.client = q.client /\ p.pc = "done" /\ Honest(p, bypass)
<1>1. s \in Statuses \ {"none"} /\ s # "served" /\ "notice" \in Bodies
  BY DEF Statuses, Bodies
<1>. QED BY <1>1, RepliedFacts DEF Honest, Scanning

LEMMA ErrorFacts ==
  ASSUME NEW q \in RequestType, NEW bypass, NEW s \in {"400", "503"}
  PROVE  LET p == Failed(q, s) IN
         p \in RequestType /\ p.client = q.client /\ p.pc = "done" /\ Honest(p, bypass)
<1>. DEFINE G(p) == p \in RequestType /\ p.client = q.client /\ p.pc = "done" /\ Honest(p, bypass)
<1>1. \A n \in Bodies : G(Replied(q, s, "notice", n))
  BY FailedFacts
<1>2. "none" \in Bodies
  BY DEF Bodies
<1>. HIDE DEF G
<1>3. G(Failed(q, s))
  BY <1>1, <1>2 DEF Failed
<1>. QED BY <1>3 DEF G

LEMMA PassedFacts ==
  ASSUME NEW q \in RequestType, q.pc # "done", q.reply.status = "none",
         NEW text \in Bodies, NEW v \in Verdicts, NEW bypass, Went(v, bypass, text)
  PROVE  LET p == Passed(q, text, v) IN
         p \in RequestType /\ p.client = q.client /\ p.pc \in {"next", "done"} /\ Honest(p, bypass)
<1>. DEFINE p == Passed(q, text, v)
<1>1. CASE q.dir = "input"
  <2>1. p = [q EXCEPT !.pc = "next", !.body = text, !.verdict = v]
    BY <1>1 DEF Passed
  <2>2. p \in RequestType
    BY <2>1 DEF RequestType
  <2>3. /\ p.client = q.client /\ p.pc = "next" /\ p.dir = "input" /\ p.verdict = v
        /\ p.body = text /\ p.reply = q.reply
    BY <1>1, <2>1 DEF RequestType
  <2>. QED BY <2>2, <2>3 DEF Honest, Scanning
<1>2. CASE q.dir # "input"
  <2>. DEFINE y == Replied(q, "served", text, text)
  <2>1. /\ y \in RequestType /\ y.client = q.client /\ y.dir = "output" /\ y.pc = "done"
        /\ y.reply.body = text
    BY <1>2, RepliedFacts DEF RequestType, Statuses
  <2>. HIDE DEF y
  <2>2. p = [y EXCEPT !.verdict = v]
    BY <1>2 DEF Passed, y
  <2>3. p \in RequestType
    BY <2>1, <2>2 DEF RequestType
  <2>4. /\ p.client = q.client /\ p.pc = "done" /\ p.dir = "output" /\ p.verdict = v
        /\ p.reply.body = text
    BY <2>1, <2>2 DEF RequestType
  <2>. QED BY <2>3, <2>4 DEF Honest, Scanning
<1>. QED BY <1>1, <1>2

LEMMA UnaskedFacts ==
  ASSUME NEW q \in RequestType, q.pc \in Scanning, Honest(q, clients[q.client].bypass)
  PROVE  LET p == Unasked(q) IN
         /\ p \in RequestType /\ p.client = q.client /\ p.pc \in {"next", "done"}
         /\ Honest(p, clients[q.client].bypass)
<1>1. q.body = "text" /\ q.pc # "done" /\ q.reply.status = "none"
  BY DEF Honest, Scanning
<1>2. CASE clients[q.client].bypass
  <2>1. Unasked(q) = Passed(q, q.body, "bypassed")
    BY <1>2 DEF Unasked
  <2>2. Went("bypassed", clients[q.client].bypass, "text")
    <3>1. \A bypass : bypass => Went("bypassed", bypass, "text")
      BY DEF Went
    <3>. QED BY <1>2, <3>1, Zenon
  <2>3. "text" \in Bodies /\ "bypassed" \in Verdicts
    BY DEF Bodies, Verdicts
  <2>. QED BY <1>1, <2>1, <2>2, <2>3, PassedFacts
<1>3. CASE ~clients[q.client].bypass
  <2>1. Unasked(q) = Failed(q, "503")
    BY <1>3 DEF Unasked
  <2>. QED BY <2>1, ErrorFacts
<1>. QED BY <1>2, <1>3

LEMMA DecidedFacts ==
  ASSUME NEW q \in RequestType, q.pc \in Scanning, NEW a \in Answers,
         NEW bypass, Honest(q, bypass)
  PROVE  LET p == Decided(q, a) IN
         p \in RequestType /\ p.client = q.client /\ p.pc \in {"next", "done"} /\ Honest(p, bypass)
<1>1. q.body = "text" /\ q.pc # "done" /\ q.reply.status = "none"
  BY DEF Honest, Scanning
<1>2. q.length \in Bodies /\ "none" \in Bodies /\ "text" \in Bodies /\ "sanitized" \in Bodies
  BY DEF RequestType, Bodies
<1>3. "unchanged" \in Verdicts /\ "redacted" \in Verdicts
  BY DEF Verdicts
<1>4. CASE a = "garbled"
  <2>1. Decided(q, a) = Failed(q, "503")
    BY <1>4 DEF Decided
  <2>. QED BY <2>1, ErrorFacts
<1>5. CASE a = "block"
  <2>1. Decided(q, a) = Replied(q, "403", "notice", q.length)
    BY <1>5 DEF Decided, Blocked
  <2>2. q.length \in Bodies /\ "403" \in {"400", "403", "503"}
    BY <1>2
  <2>3. LET p == Replied(q, "403", "notice", q.length) IN
        p \in RequestType /\ p.client = q.client /\ p.pc = "done" /\ Honest(p, bypass)
    BY <2>2, FailedFacts
  <2>. QED BY <2>1, <2>3
<1>6. CASE a = "redact"
  <2>1. Decided(q, a) = Passed(q, "sanitized", "redacted")
    BY <1>6 DEF Decided
  <2>2. Went("redacted", bypass, "sanitized")
    BY DEF Went
  <2>. QED BY <1>1, <1>2, <1>3, <2>1, <2>2, PassedFacts
<1>7. CASE a \notin {"garbled", "block", "redact"}
  <2>1. Decided(q, a) = Passed(q, q.body, "unchanged")
    BY <1>7 DEF Decided
  <2>2. Went("unchanged", bypass, "text")
    BY DEF Went
  <2>. QED BY <1>1, <1>2, <1>3, <2>1, <2>2, PassedFacts
<1>. QED BY <1>4, <1>5, <1>6, <1>7

-----------------------------------------------------------------------------
LEMMA InitShieldInv == Init => ShieldInv
<1>. SUFFICES ASSUME Init PROVE ShieldInv
  OBVIOUS
<1>1. PICK b \in BOOLEAN : clients = <<NewClient(b)>>
  BY DEF Init
<1>2. NewClient(b) \in ClientType /\ BreakerOK(NewClient(b))
  BY CbTimeoutAssumption DEF NewClient, ClientType, BreakerOK, Ages
<1>3. clients \in Seq(ClientType) /\ Len(clients) = 1 /\ DOMAIN clients = 1..1 /\ clients[1] = NewClient(b)
  BY <1>1, <1>2
<1>4. req \in [Requests -> RequestType] /\ \A r \in Requests : req[r] = Fresh
  BY FreshType DEF Init
<1>5. TypeOK
  BY <1>3, <1>4, MaxClientsAssumption, CbTimeoutAssumption DEF Init, TypeOK, Ages
<1>6. \A bypass : Honest(Fresh, bypass)
  BY DEF Honest, Fresh, NoReply, Scanning
<1>7. Fresh.client = 1
  BY DEF Fresh
<1>. QED BY <1>2, <1>3, <1>4, <1>5, <1>6, <1>7 DEF ShieldInv

(* Steps of a handler that leave the clients' policies alone. *)
LEMMA HandlerMoves ==
  ASSUME ShieldInv, NEW r \in Requests, NEW p \in RequestType,
         req' = [req EXCEPT ![r] = p],
         clients' \in Seq(ClientType), Len(clients') = Len(clients),
         \A c \in DOMAIN clients : /\ clients'[c].bypass = clients[c].bypass
                                   /\ BreakerOK(clients'[c]),
         p.client \in DOMAIN clients, Honest(p, clients[p.client].bypass),
         UNCHANGED shield
  PROVE  ShieldInv'
<1>1. /\ clients \in Seq(ClientType) /\ req \in [Requests -> RequestType]
      /\ DOMAIN clients = 1..Len(clients) /\ DOMAIN clients' = DOMAIN clients
  BY DEF ShieldInv, TypeOK
<1>2. TypeOK'
  BY <1>1 DEF ShieldInv, TypeOK
<1>3. \A c \in DOMAIN clients' : BreakerOK(clients'[c])
  BY <1>1
<1>4. ASSUME NEW q \in Requests
      PROVE  /\ req'[q].client \in DOMAIN clients'
             /\ Honest(req'[q], clients'[req'[q].client].bypass)
  <2>1. CASE q = r
    <3>1. req'[q] = p
      BY <1>1, <2>1
    <3>2. clients'[p.client].bypass = clients[p.client].bypass
      OBVIOUS
    <3>. QED BY <1>1, <3>1, <3>2
  <2>2. CASE q # r
    <3>1. req'[q] = req[q] /\ req[q].client \in DOMAIN clients
          /\ Honest(req[q], clients[req[q].client].bypass)
      BY <1>1, <2>2 DEF ShieldInv
    <3>2. clients'[req[q].client].bypass = clients[req[q].client].bypass
      BY <3>1
    <3>. QED BY <1>1, <3>1, <3>2
  <2>. QED BY <2>1, <2>2
<1>. QED BY <1>2, <1>3, <1>4 DEF ShieldInv

(* ... and those that leave the clients alone altogether. *)
LEMMA OnlyRequests ==
  ASSUME ShieldInv, NEW r \in Requests, NEW p \in RequestType,
         req' = [req EXCEPT ![r] = p], UNCHANGED <<clients, shield>>,
         p.client \in DOMAIN clients, Honest(p, clients[p.client].bypass)
  PROVE  ShieldInv'
<1>1. clients' \in Seq(ClientType) /\ Len(clients') = Len(clients)
  BY DEF ShieldInv, TypeOK
<1>2. \A c \in DOMAIN clients : /\ clients'[c].bypass = clients[c].bypass
                                /\ BreakerOK(clients'[c])
  BY DEF ShieldInv
<1>. QED BY <1>1, <1>2, HandlerMoves

(* The breaker's two notes. *)
LEMMA NoteFacts ==
  ASSUME NEW c \in ClientType, BreakerOK(c)
  PROVE  /\ AfterFailure(c) \in ClientType /\ BreakerOK(AfterFailure(c))
         /\ AfterFailure(c).bypass = c.bypass
         /\ AfterSuccess(c) \in ClientType /\ BreakerOK(AfterSuccess(c))
         /\ AfterSuccess(c).bypass = c.bypass
<1>1. 0 \in Ages /\ c.quiet \in Ages /\ c.quiet \in Nat
  BY CbTimeoutAssumption DEF ClientType, Ages
<1>2. AfterSuccess(c) \in ClientType /\ AfterSuccess(c).bypass = c.bypass
      /\ AfterSuccess(c).failing = NotFailing
  BY <1>1 DEF AfterSuccess, ClientType
<1>3. CASE c.failing = NotFailing
  <2>1. AfterFailure(c) = [c EXCEPT !.failing = 0]
    BY <1>3 DEF AfterFailure
  <2>2. AfterFailure(c) \in ClientType /\ AfterFailure(c).bypass = c.bypass
        /\ AfterFailure(c).failing = 0 /\ AfterFailure(c).quiet = c.quiet
    BY <1>1, <2>1 DEF ClientType
  <2>. QED BY <1>1, <1>2, <2>2 DEF BreakerOK
<1>4. CASE c.failing # NotFailing
  <2>1. AfterFailure(c) = c
    BY <1>4 DEF AfterFailure
  <2>. QED BY <1>2, <2>1 DEF BreakerOK
<1>. QED BY <1>3, <1>4

LEMMA HandlerStepInv ==
  ASSUME ShieldInv, NEW r \in Requests, HandlerStep(r)
  PROVE  ShieldInv'
<1>. DEFINE q == req[r]
            c == req[r].client
<1>1. /\ q \in RequestType /\ c \in DOMAIN clients /\ Honest(q, clients[c].bypass)
      /\ clients \in Seq(ClientType) /\ clients[c] \in ClientType /\ BreakerOK(clients[c])
  BY DEF ShieldInv, TypeOK
<1>2. ASSUME FindsOpen(r) PROVE ShieldInv'
  <2>1. q.pc \in Scanning /\ req' = [req EXCEPT ![r] = Unasked(q)] /\ UNCHANGED <<clients, shield>>
    BY <1>2 DEF FindsOpen, Scanning
  <2>. QED BY <1>1, <2>1, UnaskedFacts, OnlyRequests
<1>3. ASSUME NEW pc \in {"posting", "failed"}, q.pc \in Scanning,
             req' = [req EXCEPT ![r].pc = pc], UNCHANGED <<clients, shield>>
      PROVE  ShieldInv'
  <2>. DEFINE p == [q EXCEPT !.pc = pc]
  <2>1. p \in RequestType /\ p.client = c
    BY <1>1 DEF RequestType
  <2>2. p.pc = pc /\ p.body = q.body /\ p.reply = q.reply
    BY <1>1 DEF RequestType
  <2>3. q.body = "text" /\ q.reply.status = "none" /\ pc \in Scanning /\ pc # "next"
    BY <1>1, <1>3 DEF Honest, Scanning
  <2>4. Honest(p, clients[c].bypass)
    BY <2>2, <2>3 DEF Honest
  <2>5. req' = [req EXCEPT ![r] = p]
    BY <1>3
  <2>. QED BY <1>1, <1>3, <2>1, <2>4, <2>5, OnlyRequests
<1>4. ASSUME PostAnswered(r) PROVE ShieldInv'
  <2>. DEFINE p == [q EXCEPT !.pc = "answered"]
  <2>2. p \in RequestType /\ p.client = c
    BY <1>1 DEF RequestType
  <2>3. p.pc = "answered" /\ p.body = q.body /\ p.reply = q.reply
    BY <1>1 DEF RequestType
  <2>4. q.body = "text" /\ q.reply.status = "none"
    BY <1>1, <1>4 DEF Honest, Scanning, PostAnswered
  <2>5. Honest(p, clients[c].bypass)
    BY <2>3, <2>4 DEF Honest
  <2>6. req' = [req EXCEPT ![r] = p] /\ UNCHANGED <<clients, shield>>
    BY <1>4 DEF PostAnswered
  <2>. QED BY <1>1, <2>2, <2>5, <2>6, OnlyRequests
<1>5. ASSUME NEW b \in ClientType, BreakerOK(b), b.bypass = clients[c].bypass,
             clients' = [clients EXCEPT ![c] = b], UNCHANGED shield,
             NEW p \in RequestType, req' = [req EXCEPT ![r] = p],
             p.client = c, Honest(p, clients[c].bypass)
      PROVE  ShieldInv'
  <2>1. clients' \in Seq(ClientType) /\ Len(clients') = Len(clients)
    BY <1>1, <1>5
  <2>2. ASSUME NEW d \in DOMAIN clients
        PROVE  clients'[d].bypass = clients[d].bypass /\ BreakerOK(clients'[d])
    <3>1. CASE d = c
      <4>1. clients'[d] = b
        BY <1>1, <1>5, <3>1
      <4>. QED BY <1>5, <3>1, <4>1
    <3>2. CASE d # c
      <4>1. clients'[d] = clients[d]
        BY <1>1, <1>5, <3>2
      <4>. QED BY <4>1 DEF ShieldInv
    <3>. QED BY <3>1, <3>2
  <2>. QED BY <1>1, <1>5, <2>1, <2>2, HandlerMoves
<1>6. ASSUME RecordFailure(r) PROVE ShieldInv'
  <2>1. /\ q.pc \in Scanning /\ clients' = [clients EXCEPT ![c] = AfterFailure(clients[c])]
        /\ req' = [req EXCEPT ![r] = Unasked(q)] /\ UNCHANGED shield
    BY <1>6 DEF RecordFailure, Scanning
  <2>2. /\ AfterFailure(clients[c]) \in ClientType /\ BreakerOK(AfterFailure(clients[c]))
        /\ AfterFailure(clients[c]).bypass = clients[c].bypass
    BY <1>1, NoteFacts
  <2>3. /\ Unasked(q) \in RequestType /\ Unasked(q).client = c
        /\ Honest(Unasked(q), clients[c].bypass)
    BY <1>1, <2>1, UnaskedFacts
  <2>. QED BY <1>5, <2>1, <2>2, <2>3
<1>7. ASSUME RecordSuccess(r) PROVE ShieldInv'
  <2>1. PICK a \in Answers :
          /\ q.pc \in Scanning /\ clients' = [clients EXCEPT ![c] = AfterSuccess(clients[c])]
          /\ req' = [req EXCEPT ![r] = Decided(q, a)] /\ UNCHANGED shield
    BY <1>7 DEF RecordSuccess, Scanning
  <2>2. /\ AfterSuccess(clients[c]) \in ClientType /\ BreakerOK(AfterSuccess(clients[c]))
        /\ AfterSuccess(clients[c]).bypass = clients[c].bypass
    BY <1>1, NoteFacts
  <2>3. /\ Decided(q, a) \in RequestType /\ Decided(q, a).client = c
        /\ Honest(Decided(q, a), clients[c].bypass)
    BY <1>1, <2>1, DecidedFacts
  <2>. QED BY <1>5, <2>1, <2>2, <2>3
<1>8. ASSUME ServeNext(r) PROVE ShieldInv'
  <2>. DEFINE Q(n) == [q EXCEPT !.dir = "output", !.length = n, !.verdict = "none"]
              S(n) == [Q(n) EXCEPT !.pc = "scan", !.body = "text"]
  <2>1. q.pc = "next" /\ q.reply.status = "none" /\ UNCHANGED <<clients, shield>>
    BY <1>1, <1>8 DEF ServeNext, Honest
  <2>2. PICK n \in {"none", "text"} :
          \/ req' = [req EXCEPT ![r] = S(n)]
          \/ req' = [req EXCEPT ![r] = Passed(Q(n), "none", "empty")]
    BY <1>8 DEF ServeNext
  <2>3. /\ Q(n) \in RequestType /\ Q(n).client = c /\ Q(n).pc = "next" /\ Q(n).reply = q.reply
    BY <1>1, <2>1 DEF RequestType, Bodies, Verdicts
  <2>4. S(n) \in RequestType /\ S(n).client = c /\ Honest(S(n), clients[c].bypass)
    <3>. HIDE DEF Q
    <3>1. /\ S(n) \in RequestType /\ S(n).client = c /\ S(n).pc = "scan" /\ S(n).body = "text"
          /\ S(n).reply = q.reply
      BY <2>3 DEF RequestType, Bodies
    <3>. HIDE DEF S
    <3>. QED BY <2>1, <3>1 DEF Honest
  <2>5. LET p == Passed(Q(n), "none", "empty") IN
        p \in RequestType /\ p.client = c /\ Honest(p, clients[c].bypass)
    <3>1. Went("empty", clients[c].bypass, "none") /\ "none" \in Bodies /\ "empty" \in Verdicts
      BY DEF Went, Bodies, Verdicts
    <3>. HIDE DEF Q
    <3>. QED BY <2>1, <2>3, <3>1, PassedFacts
  <2>. HIDE DEF S, Q
  <2>. QED BY <1>1, <2>1, <2>2, <2>4, <2>5, OnlyRequests
<1>. QED
  <2>1. ASSUME Ask(r) PROVE ShieldInv'
    BY <1>3, <2>1 DEF Ask, Scanning
  <2>2. ASSUME PostFails(r) PROVE ShieldInv'
    BY <1>3, <2>2 DEF PostFails, Scanning
  <2>. QED BY <1>2, <1>4, <1>6, <1>7, <1>8, <2>1, <2>2 DEF HandlerStep

LEMMA OtherStepInv ==
  ASSUME ShieldInv,
         \/ \E r \in Requests : Arrive(r) \/ ArriveWithoutText(r)
         \/ \E b \in BOOLEAN : Reload(b)
         \/ ShieldChanges
         \/ Tick
  PROVE  ShieldInv'
<1>. DEFINE n == Len(clients)
            F == [Fresh EXCEPT !.client = n]
<1>1. /\ clients \in Seq(ClientType) /\ DOMAIN clients = 1..n /\ n \in 1..MaxClients /\ n \in DOMAIN clients
      /\ req \in [Requests -> RequestType] /\ n \in Nat
  BY MaxClientsAssumption DEF ShieldInv, TypeOK
<1>2. /\ F \in RequestType /\ F.client = n /\ F.reply.status = "none" /\ F.dir = "input"
      /\ F.pc = "done"
  <2>1. F.client = n /\ F.reply.status = "none" /\ F.dir = "input" /\ F.pc = "done"
    BY DEF Fresh, NoReply
  <2>2. F \in RequestType
    BY <1>1, FreshType DEF RequestType
  <2>. QED BY <2>1, <2>2
<1>3. ASSUME NEW r \in Requests, Arrive(r) PROVE ShieldInv'
  <2>. DEFINE p == [F EXCEPT !.pc = "scan", !.body = "text"]
  <2>1. req' = [req EXCEPT ![r] = p] /\ UNCHANGED <<clients, shield>>
    BY <1>3 DEF Arrive
  <2>. HIDE DEF F
  <2>2. /\ p \in RequestType /\ p.client = n /\ p.pc = "scan" /\ p.body = "text"
        /\ p.reply = F.reply
    BY <1>2 DEF RequestType, Bodies
  <2>. HIDE DEF p
  <2>3. Honest(p, clients[n].bypass)
    BY <1>2, <2>2 DEF Honest
  <2>. QED BY <1>1, <2>1, <2>2, <2>3, OnlyRequests
<1>4. ASSUME NEW r \in Requests, ArriveWithoutText(r) PROVE ShieldInv'
  <2>. DEFINE p == Passed(F, "none", "empty")
              f == Failed(F, "400")
  <2>1. UNCHANGED <<clients, shield>>
        /\ (req' = [req EXCEPT ![r] = p] \/ req' = [req EXCEPT ![r] = f])
    BY <1>4 DEF ArriveWithoutText
  <2>. HIDE DEF F
  <2>2. p = [F EXCEPT !.pc = "next", !.body = "none", !.verdict = "empty"]
    BY <1>2 DEF Passed
  <2>3. /\ p \in RequestType /\ p.client = n /\ p.pc = "next" /\ p.dir = "input"
        /\ p.body = "none" /\ p.verdict = "empty" /\ p.reply = F.reply
    BY <1>2, <2>2 DEF RequestType, Bodies, Verdicts
  <2>4. Honest(p, clients[n].bypass)
    BY <1>2, <2>3 DEF Honest, Went, Scanning
  <2>5. f \in RequestType /\ f.client = n /\ Honest(f, clients[n].bypass)
    BY <1>2, ErrorFacts
  <2>. HIDE DEF p, f
  <2>. QED BY <1>1, <2>1, <2>3, <2>4, <2>5, OnlyRequests
<1>5. ASSUME NEW b \in BOOLEAN, Reload(b) PROVE ShieldInv'
  <2>. DEFINE new == NewClient(b)
  <2>1. new \in ClientType /\ BreakerOK(new)
    BY CbTimeoutAssumption DEF NewClient, ClientType, BreakerOK, Ages
  <2>2. clients' = Append(clients, new) /\ UNCHANGED <<req, shield>> /\ n < MaxClients
    BY <1>5 DEF Reload
  <2>3. /\ clients' \in Seq(ClientType) /\ Len(clients') = n + 1 /\ clients'[n + 1] = new
        /\ \A c \in 1..n : clients'[c] = clients[c]
    BY <1>1, <2>1, <2>2
  <2>4. TypeOK'
    BY <1>1, <2>2, <2>3, MaxClientsAssumption DEF ShieldInv, TypeOK
  <2>5. \A c \in DOMAIN clients' : BreakerOK(clients'[c])
    BY <1>1, <2>1, <2>3 DEF ShieldInv
  <2>6. ASSUME NEW q \in Requests
        PROVE  /\ req'[q].client \in DOMAIN clients'
               /\ Honest(req'[q], clients'[req'[q].client].bypass)
    <3>1. /\ req'[q] = req[q] /\ req[q].client \in 1..n
          /\ Honest(req[q], clients[req[q].client].bypass)
      BY <1>1, <2>2 DEF ShieldInv
    <3>2. clients'[req[q].client] = clients[req[q].client] /\ req[q].client \in DOMAIN clients'
      BY <1>1, <2>3, <3>1
    <3>. QED BY <3>1, <3>2
  <2>. QED BY <2>4, <2>5, <2>6 DEF ShieldInv
<1>6. ASSUME ShieldChanges PROVE ShieldInv'
  <2>1. UNCHANGED <<clients, req>> /\ shield' \in {"up", "down"}
    BY <1>6, CbTimeoutAssumption DEF ShieldChanges, Ages
  <2>. QED BY <2>1 DEF ShieldInv, TypeOK
<1>7. ASSUME Tick PROVE ShieldInv'
  <2>1. ASSUME NEW a \in Ages PROVE Older(a) \in Ages /\ Older(a) # NotFailing
    BY CbTimeoutAssumption DEF Ages, Older, NotFailing
  <2>2. Older(NotFailing) = NotFailing
    BY CbTimeoutAssumption DEF Older, NotFailing
  <2>3. UNCHANGED <<req, shield>>
    <3>1. 0 \in Ages
      BY CbTimeoutAssumption DEF Ages, ShieldInv, TypeOK
    <3>. QED BY <1>7, <2>1, <3>1 DEF Tick
  <2>. DEFINE O(c) == [c EXCEPT !.failing = Older(c.failing), !.quiet = Older(c.quiet)]
  <2>4. clients' = [c \in DOMAIN clients |-> O(clients[c])]
    BY <1>7 DEF Tick
  <2>5. ASSUME NEW c \in ClientType, BreakerOK(c)
        PROVE  O(c) \in ClientType /\ O(c).bypass = c.bypass /\ BreakerOK(O(c))
    <3>1. c.failing \in Ages \cup {NotFailing} /\ c.quiet \in Ages
      BY DEF ClientType
    <3>2. Older(c.failing) \in Ages \cup {NotFailing} /\ Older(c.quiet) \in Ages
      BY <2>1, <2>2, <3>1
    <3>3. /\ O(c) \in ClientType /\ O(c).bypass = c.bypass /\ O(c).failing = Older(c.failing)
          /\ O(c).quiet = Older(c.quiet)
      BY <3>2 DEF ClientType
    <3>4. CASE c.failing = NotFailing
      BY <2>2, <3>3, <3>4 DEF BreakerOK
    <3>5. CASE c.failing # NotFailing
      <4>1. c.quiet >= c.failing /\ c.failing \in Ages
        BY <2>5, <3>1, <3>5 DEF BreakerOK
      <4>2. Older(c.quiet) >= Older(c.failing)
        BY <3>1, <4>1, CbTimeoutAssumption DEF Older, Ages
      <4>. QED BY <3>3, <4>2 DEF BreakerOK
    <3>. QED BY <3>3, <3>4, <3>5
  <2>. HIDE DEF O
  <2>6. /\ DOMAIN clients' = DOMAIN clients /\ clients' \in Seq(ClientType)
        /\ Len(clients') = Len(clients)
        /\ \A c \in DOMAIN clients : clients'[c] = O(clients[c])
    <3>1. \A c \in 1..n : O(clients[c]) \in ClientType
      BY <1>1, <2>5 DEF ShieldInv
    <3>. QED BY <1>1, <2>4, <3>1
  <2>7. TypeOK'
    BY <2>3, <2>6 DEF ShieldInv, TypeOK
  <2>8. \A c \in DOMAIN clients' : BreakerOK(clients'[c])
    BY <1>1, <2>5, <2>6 DEF ShieldInv
  <2>9. ASSUME NEW q \in Requests
        PROVE  /\ req'[q].client \in DOMAIN clients'
               /\ Honest(req'[q], clients'[req'[q].client].bypass)
    <3>1. /\ req'[q] = req[q] /\ req[q].client \in DOMAIN clients
          /\ Honest(req[q], clients[req[q].client].bypass)
      BY <2>3 DEF ShieldInv
    <3>2. clients'[req[q].client].bypass = clients[req[q].client].bypass
      BY <1>1, <2>5, <2>6, <3>1 DEF ShieldInv
    <3>. QED BY <2>6, <3>1, <3>2
  <2>. QED BY <2>7, <2>8, <2>9 DEF ShieldInv
<1>. QED BY <1>3, <1>4, <1>5, <1>6, <1>7

-----------------------------------------------------------------------------
THEOREM ShieldInvariant == Spec => []ShieldInv
<1>1. ASSUME ShieldInv, UNCHANGED vars PROVE ShieldInv'
  BY <1>1 DEF vars, ShieldInv, TypeOK
<1>2. ShieldInv /\ [Next]_vars => ShieldInv'
  BY <1>1, HandlerStepInv, OtherStepInv DEF Next
<1>. QED BY <1>2, InitShieldInv, PTL DEF Spec

(* The variables keep their types. *)
THEOREM ShieldTypeCorrect == Spec => []TypeOK
<1>1. ShieldInv => TypeOK
  BY DEF ShieldInv
<1>. QED BY <1>1, ShieldInvariant, PTL

(* A breaker is never open while a success of its client is younger than   *)
(* cbTimeout, however the outcomes of concurrent scans are ordered.        *)
THEOREM OpenMeansNoSuccessTheorem == Spec => []OpenMeansNoSuccess
<1>1. ShieldInv => OpenMeansNoSuccess
  <2>. SUFFICES ASSUME ShieldInv, NEW c \in DOMAIN clients, IsOpen(c)
                PROVE  clients[c].quiet = CbTimeout
    BY DEF OpenMeansNoSuccess
  <2>1. clients[c].failing = CbTimeout /\ clients[c] \in ClientType /\ BreakerOK(clients[c])
    BY DEF ShieldInv, TypeOK, IsOpen
  <2>2. clients[c].quiet \in 0..CbTimeout /\ clients[c].quiet >= CbTimeout
    BY <2>1, CbTimeoutAssumption DEF BreakerOK, ClientType, Ages, NotFailing
  <2>. QED BY <2>2, CbTimeoutAssumption
<1>. QED BY <1>1, ShieldInvariant, PTL

(* No body passes the middleware, in either direction, unless the shield   *)
(* answered for it or the chain's policy is to bypass.                     *)
THEOREM NothingPassesTheorem == Spec => []NothingPassesUnasked
<1>1. ShieldInv => NothingPassesUnasked
  BY DEF ShieldInv, NothingPassesUnasked, Honest
<1>. QED BY <1>1, ShieldInvariant, PTL
=============================================================================
