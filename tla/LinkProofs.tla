------------------------------ MODULE LinkProofs ------------------------------
(***************************************************************************)
(* Proofs about HostLink: types; the agent's memory; no zombie connection;  *)
(* what the hub refuses as stale it has stored; the interval the agent has. *)
(*                                                                          *)
(* Memory: what the agent remembers is the newest sample it took.           *)
(* Links: a connection the agent has left is closed by it; a connection not *)
(* welcomed is not registered, nor the target of a settings request.        *)
(* Ordered: what travels on the agent's connection is newer than anything   *)
(* sent before it.                                                          *)
(* Telling: of the configuration the agent will hear, by the welcome, by    *)
(* what is on its way or by a request about to write to it; and requests    *)
(* that do not meet know the setting.                                       *)
(***************************************************************************)
EXTENDS HostLink, WellFoundedInduction, SequenceTheorems, FiniteSetTheorems, TLAPS

\* Nothing, or the newest sample.
Newest(q) == q = <<>> \/ (taken \in Samples /\ q = <<taken>>)

Memory ==
  /\ agent.pc = "away" <=> agent.conn = None
  /\ agent.pc \in {"away", "welcome"} => agent.plan = <<>> /\ Newest(agent.buf)
  /\ agent.pc \in {"replay", "live"} => agent.buf = <<>> /\ Newest(agent.plan)
  /\ agent.pc = "live" => agent.plan = <<>>

RegisteredOK == registered # None => handler[registered].pc \in {"close", "serve", "insert"}
TargetsOK ==
  \A p \in Puts : /\ put[p].target # None => handler[put[p].target].pc \in {"none", "close", "serve", "insert"}
                  /\ put[p].pc \in {"store", "apply", "push"} => put[p].val \in Intervals

LinkOK(c) ==
  /\ handler[c].pc = "welcome" => handler[c].offer \in Intervals
  /\ handler[c].pc = "insert" => handler[c].sample \in Samples
  /\ c # agent.conn => down[c] = <<>>
  /\ c # agent.conn /\ (handler[c].pc # "none" \/ \E p \in Puts : put[p].target = c) => "agent" \in ends[c]
  /\ handler[c].pc \in {"hello", "welcome"} => down[c] = <<>>
  /\ c = agent.conn /\ agent.pc \in {"replay", "live"} => handler[c].pc \notin {"hello", "welcome"}
  /\ handler[c].pc = "hello" => up[c] \in {<<>>, <<Hello>>}
  /\ handler[c].pc \notin {"hello", "none"} => up[c] \in Seq(Samples)

Links == RegisteredOK /\ TargetsOK /\ \A c \in Conns : LinkOK(c)

\* What is on its way to the table, other than in the queue of c.
Before(c) ==
  stored \cup {handler[d].sample : d \in Conns} \cup UNION {{up[d][i] : i \in DOMAIN up[d]} : d \in Conns \ {c}}

Bounds ==
  /\ \A c \in Conns : \A i \in DOMAIN up[c] : up[c][i] <= taken
  /\ \A c \in Conns : handler[c].sample # None => handler[c].sample <= taken
  /\ \A s \in stored : s <= taken

\* The queue of c ascends, from what went before it.
Ascends(c) ==
  /\ \A i, j \in DOMAIN up[c] : i <= j => up[c][i] <= up[c][j]
  /\ \A i \in DOMAIN up[c] : \A x \in Before(c) \ {None} : x <= up[c][i]

Ordered == Bounds /\ \A c \in Conns : c = agent.conn /\ handler[c].pc # "hello" => Ascends(c)

-----------------------------------------------------------------------------
(* Sequences. *)

\* What the assumption on the constants gives.
LEMMA Constants ==
  /\ MaxConns \in Nat /\ MaxSamples \in Nat /\ MaxFaults \in Nat /\ InboxCap \in Nat /\ InboxCap >= 1
  /\ None \notin Conns /\ None \notin Intervals /\ DefaultInterval \in Intervals /\ Conns \subseteq Nat
  /\ Hello \notin Samples /\ None \notin Samples
<1>1. /\ MaxConns \in Nat /\ MaxSamples \in Nat /\ MaxFaults \in Nat /\ InboxCap \in Nat /\ InboxCap >= 1
      /\ None \notin Nat /\ Intervals \subseteq Nat /\ DefaultInterval \in Intervals
  BY LinkAssumption
<1>2. Conns \subseteq Nat /\ Samples \subseteq Nat /\ Hello \notin Samples
  BY DEF Conns, Samples, Hello
<1> QED BY <1>1, <1>2

\* The mark of an interval that was not applied is no connection.
LEMMA Marker == Unapplied \notin Conns /\ Unapplied # None
BY LinkAssumption DEF Conns, Unapplied

\* The first message of a queue and the others.
LEMMA QueueTail ==
  ASSUME NEW S, NEW q \in Seq(S), q # <<>>
  PROVE  /\ Head(q) \in S /\ Tail(q) \in Seq(S) /\ Head(q) = q[1] /\ 1 \in DOMAIN q
         /\ Len(Tail(q)) = Len(q) - 1
         /\ \A i \in DOMAIN Tail(q) : i + 1 \in DOMAIN q /\ Tail(q)[i] = q[i + 1] /\ i \in Nat
  BY HeadTailProperties, LenProperties, EmptySeq

\* A queue with a message more.
LEMMA QueueAppend ==
  ASSUME NEW S, NEW q \in Seq(S), NEW e \in S
  PROVE  /\ Append(q, e) \in Seq(S) /\ Len(Append(q, e)) = Len(q) + 1 /\ Append(q, e) # <<>>
         /\ \A i \in DOMAIN Append(q, e) :
              i \in Nat /\ ((i \in DOMAIN q /\ Append(q, e)[i] = q[i]) \/ (i = Len(q) + 1 /\ Append(q, e)[i] = e))
         /\ DOMAIN q = 1..Len(q)
<1>1. /\ Append(q, e) \in Seq(S) /\ Len(Append(q, e)) = Len(q) + 1
      /\ \A i \in 1..Len(q) : Append(q, e)[i] = q[i]
      /\ Append(q, e)[Len(q) + 1] = e
  BY AppendProperties
<1>2. Len(q) \in Nat /\ DOMAIN q = 1..Len(q) /\ DOMAIN Append(q, e) = 1..(Len(q) + 1)
  BY <1>1, LenProperties
<1>3. Append(q, e) # <<>>
  <2>1. Len(<<>>) = 0
    BY EmptySeq
  <2>2. Len(Append(q, e)) # 0
    BY <1>1, <1>2
  <2> QED BY <2>1, <2>2
<1>4. ASSUME NEW i \in DOMAIN Append(q, e)
      PROVE  i \in Nat /\ ((i \in DOMAIN q /\ Append(q, e)[i] = q[i]) \/ (i = Len(q) + 1 /\ Append(q, e)[i] = e))
  <2>0. i \in Nat
    BY <1>2, <1>4
  <2>1. i \in 1..Len(q) \/ i = Len(q) + 1
    BY <1>2, <1>4
  <2>2. CASE i \in 1..Len(q)
    <3>1. Append(q, e)[i] = q[i] /\ i \in DOMAIN q
      BY <1>1, <1>2, <2>2
    <3> QED BY <2>0, <3>1
  <2>3. CASE i = Len(q) + 1
    <3>1. Append(q, e)[i] = e
      BY <1>1, <2>3
    <3> QED BY <2>0, <2>3, <3>1
  <2> QED BY <2>1, <2>2, <2>3
<1> QED BY <1>1, <1>2, <1>3, <1>4

\* A queue of one message.
LEMMA Singles ==
  ASSUME NEW S, NEW s \in S
  PROVE  /\ <<s>> \in Seq(S) /\ <<s>> # <<>> /\ Head(<<s>>) = s /\ Tail(<<s>>) = <<>> /\ Len(<<s>>) = 1
         /\ <<>> \o <<s>> = <<s>> /\ <<s>> \o <<>> = <<s>> /\ <<>> \in Seq(S) /\ <<>> \o <<>> = <<>>
         /\ {<<s>>[i] : i \in DOMAIN <<s>>} = {s}
<1>1. <<s>> \in Seq(S) /\ <<>> \in Seq(S) /\ Len(<<s>>) = 1 /\ Len(<<>>) = 0
  OBVIOUS
<1>2. <<s>> # <<>> /\ Head(<<s>>) = s
  OBVIOUS
<1>3. Tail(<<s>>) = <<>>
  BY <1>1, <1>2, HeadTailProperties, EmptySeq
<1>4. <<>> \o <<s>> = <<s>> /\ <<s>> \o <<>> = <<s>> /\ <<>> \o <<>> = <<>>
  BY <1>1, ConcatEmptySeq
<1>5. DOMAIN <<s>> = {1} /\ <<s>>[1] = s
  OBVIOUS
<1> QED BY <1>1, <1>2, <1>3, <1>4, <1>5

-----------------------------------------------------------------------------
(* Types. *)

Agents == [pc : {"away", "welcome", "replay", "live"}, conn : Conns \cup {None},
           interval : Intervals \cup {None}, buf : Seq(Samples), plan : Seq(Samples), inbox : Seq(Intervals)]
Handlers == [pc : {"none", "hello", "welcome", "register", "close", "serve", "insert"},
             offer : Intervals \cup {None}, sample : Samples \cup {None},
             accepted : BOOLEAN, old : Conns \cup {None}]
PutRequests == [pc : {"idle", "store", "apply", "push", "done"}, val : Intervals \cup {None},
                prev : Intervals \cup {None}, target : Conns \cup {None}]

AgentOK == agent \in Agents /\ Len(agent.inbox) <= InboxCap /\ taken \in 0..MaxSamples
NetOK == /\ up \in [Conns -> Seq(Samples \cup {Hello})] /\ down \in [Conns -> Seq(Intervals)]
         /\ ends \in [Conns -> SUBSET {"agent", "hub"}] /\ cut \subseteq Conns
HubOK == /\ handler \in [Conns -> Handlers] /\ registered \in Conns \cup {None}
         /\ setting \in Intervals /\ cfg \in Intervals /\ put \in [Puts -> PutRequests] /\ stored \subseteq Samples
HistoryOK == faults \in 0..MaxFaults /\ owed \subseteq Samples /\ strays \subseteq Conns \cup {None, Unapplied}

\* The parts of the type invariant.
LEMMA TypeParts == TypeOK <=> AgentOK /\ NetOK /\ HubOK /\ HistoryOK
  BY DEF TypeOK, AgentOK, NetOK, HubOK, HistoryOK, Agents, Handlers, PutRequests

\* What is at rest is typed.
LEMMA Rests == Fresh \in Agents /\ Idle \in Handlers /\ NoPut \in PutRequests /\ Fresh.inbox = <<>>
<1>1. <<>> \in Seq(Samples) /\ <<>> \in Seq(Intervals)
  OBVIOUS
<1> QED BY <1>1 DEF Fresh, Idle, NoPut, Agents, Handlers, PutRequests

\* The bound on faults is kept.
LEMMA FaultTyped == ASSUME HistoryOK, Fault PROVE faults' \in 0..MaxFaults
  BY Constants DEF HistoryOK, Fault

\* A closed end is typed.
LEMMA Closes ==
  ASSUME NetOK, NEW c, NEW who \in {"agent", "hub"}
  PROVE  Closed(c, who) \in [Conns -> SUBSET {"agent", "hub"}]
  BY DEF NetOK, Closed

\* What the agent can send is the replay's sample, the newest, or the one after it.
LEMMA Sends ==
  ASSUME TypeOK, Memory, NEW s \in Outgoing
  PROVE  /\ s \in Samples /\ agent.conn \in Conns /\ agent.pc \in {"replay", "live"} /\ agent.buf = <<>>
         /\ \/ agent.plan = <<s>> /\ s = taken /\ agent.pc = "replay"
            \/ agent.plan = <<>> /\ s = taken + 1
<1> USE Constants
<1>0. taken \in 0..MaxSamples /\ agent \in Agents
  BY TypeParts DEF AgentOK
<1>1. agent.pc \in {"replay", "live"}
  BY DEF Outgoing, ToSend, MaySample
<1>2. agent.conn \in Conns /\ agent.buf = <<>> /\ Newest(agent.plan)
  BY <1>0, <1>1 DEF Memory, Agents
<1>3. CASE agent.plan # <<>>
  <2>1. agent.plan = <<taken>> /\ taken \in Samples /\ Head(agent.plan) = taken
    BY <1>2, <1>3, Singles DEF Newest
  <2>2. s = taken
    BY <1>3, <2>1 DEF Outgoing, ToSend, MaySample
  <2>3. agent.pc # "live"
    BY <1>3 DEF Memory
  <2> QED BY <1>1, <1>2, <2>1, <2>2, <2>3
<1>4. CASE agent.plan = <<>>
  <2>1. s = taken + 1 /\ taken < MaxSamples
    BY <1>4 DEF Outgoing, ToSend
  <2> QED BY <1>0, <1>1, <1>2, <1>4, <2>1 DEF Samples
<1> QED BY <1>3, <1>4

\* The end of a session with what it pushes back.
LEMMA SessionEnds ==
  ASSUME TypeOK, Memory, NEW push, EndSession(push), agent.pc # "away",
         push = <<>> \/ (push \in Seq(Samples) /\ agent.buf = <<>>)
  PROVE  /\ agent'.buf = IF push = <<>> THEN agent.buf ELSE push
         /\ agent' \in Agents /\ agent'.inbox = <<>>
         /\ agent'.pc = "away" /\ agent'.conn = None /\ agent'.plan = <<>>
         /\ ends' = [ends EXCEPT ![agent.conn] = @ \cup {"agent"}]
         /\ ends' \in [Conns -> SUBSET {"agent", "hub"}]
         /\ down' = [down EXCEPT ![agent.conn] = <<>>] /\ down' \in [Conns -> Seq(Intervals)]
         /\ agent.conn \in Conns
<1> USE Constants
<1>0. agent \in Agents /\ agent.buf \in Seq(Samples) /\ NetOK
  BY TypeParts DEF AgentOK, Agents
<1>1. agent.buf \o push = (IF push = <<>> THEN agent.buf ELSE push) /\ agent.buf \o push \in Seq(Samples)
  BY <1>0, ConcatEmptySeq
<1>2. <<>> \in Seq(Samples) /\ <<>> \in Seq(Intervals)
  OBVIOUS
<1>3. agent' = [agent EXCEPT !.pc = "away", !.conn = None, !.interval = None, !.plan = <<>>,
                             !.inbox = <<>>, !.buf = @ \o push]
  BY DEF EndSession
<1>4. /\ agent' \in Agents /\ agent'.buf = agent.buf \o push /\ agent'.inbox = <<>>
      /\ agent'.pc = "away" /\ agent'.conn = None /\ agent'.plan = <<>>
  BY <1>0, <1>1, <1>2, <1>3 DEF Agents
<1>5. agent.conn \in Conns
  BY <1>0 DEF Memory, Agents
<1>6. ends' \in [Conns -> SUBSET {"agent", "hub"}] /\ ends' = [ends EXCEPT ![agent.conn] = @ \cup {"agent"}]
  BY <1>0, Closes DEF EndSession, Closed
<1>7. down' \in [Conns -> Seq(Intervals)] /\ down' = [down EXCEPT ![agent.conn] = <<>>]
  BY <1>0, <1>2 DEF EndSession, NetOK
<1> QED BY <1>1, <1>4, <1>5, <1>6, <1>7

\* Every step keeps the types.
LEMMA TypesStay ==
  ASSUME TypeOK, Memory, Links, [Next]_vars
  PROVE  TypeOK'
<1> USE Constants
<1>0. /\ AgentOK /\ NetOK /\ HubOK /\ HistoryOK
      /\ agent \in Agents /\ agent.conn \in Conns \cup {None}
      /\ \A c \in Conns : handler[c] \in Handlers /\ up[c] \in Seq(Samples \cup {Hello}) /\ down[c] \in Seq(Intervals)
      /\ \A p \in Puts : put[p] \in PutRequests
  BY TypeParts DEF AgentOK, NetOK, HubOK, Agents
<1>1. SUFFICES AgentOK' /\ NetOK' /\ HubOK' /\ HistoryOK'
  BY DEF TypeOK, AgentOK, NetOK, HubOK, HistoryOK, Agents, Handlers, PutRequests
<1> DEFINE Typed == AgentOK' /\ NetOK' /\ HubOK' /\ HistoryOK'
<1>2. UNCHANGED <<agent, taken>> => AgentOK'
  BY <1>0 DEF AgentOK
<1>3. UNCHANGED net => NetOK'
  BY <1>0 DEF NetOK, net
<1>4. UNCHANGED hub => HubOK'
  BY <1>0 DEF HubOK, hub
<1>5. UNCHANGED <<faults, owed, strays>> => HistoryOK'
  BY <1>0 DEF HistoryOK
<1>6. ASSUME NEW c \in Conns, Dial(c) PROVE Typed
  <2>1. AgentOK'
    BY <1>0, <1>6 DEF Dial, AgentOK, Agents
  <2>2. NetOK'
    <3>1. <<Hello>> \in Seq(Samples \cup {Hello})
      OBVIOUS
    <3> QED BY <1>0, <1>6, <3>1 DEF Dial, NetOK
  <2>3. HubOK'
    <3>1. [handler[c] EXCEPT !.pc = "hello"] \in Handlers
      BY <1>0 DEF Handlers
    <3> QED BY <1>0, <1>6, <3>1 DEF Dial, HubOK
  <2> QED BY <1>0, <1>6, <2>1, <2>2, <2>3 DEF Dial, HistoryOK
<1>7. CASE Welcome
  <2>1. agent.conn \in Conns /\ Head(down[agent.conn]) \in Intervals /\ Tail(down[agent.conn]) \in Seq(Intervals)
    <3>1. agent.conn \in Conns
      BY <1>0, <1>7 DEF Welcome, Memory
    <3> QED BY <1>0, <1>7, <3>1, QueueTail DEF Welcome
  <2>2. agent' = [Drained(agent) EXCEPT !.interval = Head(down[agent.conn])]
    BY <1>7 DEF Welcome
  <2>3. agent' \in Agents /\ agent'.inbox = agent.inbox
    <3>1. <<>> \in Seq(Samples)
      OBVIOUS
    <3>2. Drained(agent) \in Agents /\ Drained(agent).inbox = agent.inbox
      BY <1>0, <3>1 DEF Drained, Agents
    <3> QED BY <2>1, <2>2, <3>2 DEF Agents
  <2>4. AgentOK'
    BY <1>0, <1>7, <2>3 DEF Welcome, AgentOK
  <2>5. NetOK'
    BY <1>0, <1>7, <2>1 DEF Welcome, NetOK
  <2> QED BY <1>0, <1>4, <1>5, <1>7, <2>4, <2>5 DEF Welcome
<1>8. ASSUME NEW s \in Samples, Send(s) PROVE Typed
  <2>1. s \in Outgoing
    BY <1>8 DEF Send
  <2>2. s \in Samples /\ agent.conn \in Conns /\ taken \in 0..MaxSamples
    BY <1>0, <2>1, Sends DEF AgentOK
  <2>3. AgentOK'
    <3>1. ASSUME s > taken PROVE AgentOK'
      <4>1. agent' = [agent EXCEPT !.pc = "live"] /\ taken' = s
        BY <1>8, <3>1 DEF Send
      <4>2. agent' \in Agents /\ agent'.inbox = agent.inbox
        BY <1>0, <4>1 DEF Agents
      <4>3. s \in 0..MaxSamples
        BY DEF Samples
      <4> QED BY <1>0, <4>1, <4>2, <4>3 DEF AgentOK
    <3>2. ASSUME ~(s > taken) PROVE AgentOK'
      <4>1. agent.plan = <<s>> /\ Tail(agent.plan) = <<>>
        <5>1. s # taken + 1
          BY <2>2, <3>2
        <5>2. agent.plan = <<s>>
          BY <2>1, <5>1, Sends
        <5> QED BY <5>2, Singles
      <4>2. <<>> \in Seq(Samples)
        OBVIOUS
      <4> QED BY <1>0, <1>8, <3>2, <4>1, <4>2 DEF Send, AgentOK, Agents
    <3> QED BY <3>1, <3>2
  <2>4. NetOK'
    <3>1. Append(up[agent.conn], s) \in Seq(Samples \cup {Hello})
      BY <1>0, <2>2, QueueAppend
    <3> QED BY <1>0, <1>8, <3>1 DEF Send, NetOK
  <2> QED BY <1>0, <1>4, <1>8, <2>3, <2>4 DEF Send, HistoryOK
<1>9. ASSUME NEW s \in Samples, SendFails(s) PROVE Typed
  <2>1. s \in Outgoing /\ agent.conn \in Conns /\ taken \in 0..MaxSamples
        /\ agent.buf = <<>> /\ agent.pc # "away" /\ Pushed(s) \in Seq(Samples)
    <3>1. s \in Outgoing
      BY <1>9 DEF SendFails
    <3> QED BY <1>0, <3>1, Sends, Singles DEF AgentOK, Pushed
  <2>2. EndSession(Pushed(s))
    BY <1>9 DEF SendFails
  <2>3. AgentOK'
    <3>1. agent' \in Agents /\ agent'.inbox = <<>>
      BY <2>1, <2>2, SessionEnds
    <3> QED BY <1>0, <1>9, <3>1 DEF SendFails, AgentOK, Samples
  <2>4. NetOK'
    <3>1. Append(up[agent.conn], s) \in Seq(Samples \cup {Hello})
      BY <1>0, <2>1, QueueAppend
    <3>2. up' \in [Conns -> Seq(Samples \cup {Hello})] /\ cut' \subseteq Conns
      BY <1>0, <1>9, <3>1 DEF SendFails, NetOK
    <3> QED BY <2>1, <2>2, <3>2, SessionEnds DEF NetOK
  <2>5. HistoryOK'
    BY <1>0, <1>9, FaultTyped DEF SendFails, HistoryOK
  <2> QED BY <1>4, <1>9, <2>3, <2>4, <2>5 DEF SendFails
<1>10. CASE Receive
  <2>1. agent.conn \in Conns /\ down[agent.conn] # <<>> /\ down[agent.conn] \in Seq(Intervals)
    <3>1. agent.conn # None
      BY <1>10 DEF Receive, MaySample, Memory
    <3> QED BY <1>0, <1>10, <3>1 DEF Receive
  <2>2. Head(down[agent.conn]) \in Intervals /\ Tail(down[agent.conn]) \in Seq(Intervals)
    BY <2>1, QueueTail
  <2>3. AgentOK'
    <3>1. ASSUME HasRoom, agent' = [agent EXCEPT !.inbox = Append(@, Head(down[agent.conn]))], UNCHANGED taken
          PROVE  AgentOK'
      <4>1. agent.inbox \in Seq(Intervals) /\ Len(agent.inbox) \in Nat
        BY <1>0, LenProperties DEF Agents
      <4>2. Append(agent.inbox, Head(down[agent.conn])) \in Seq(Intervals)
            /\ Len(Append(agent.inbox, Head(down[agent.conn]))) = Len(agent.inbox) + 1
        BY <2>2, <4>1, QueueAppend
      <4>3. agent' \in Agents /\ agent'.inbox = Append(agent.inbox, Head(down[agent.conn]))
        BY <1>0, <3>1, <4>2 DEF Agents
      <4> QED BY <1>0, <3>1, <4>1, <4>2, <4>3 DEF HasRoom, AgentOK
    <3> QED BY <1>2, <1>10, <3>1 DEF Receive
  <2>4. NetOK'
    BY <1>0, <1>10, <2>2 DEF Receive, NetOK
  <2> QED BY <1>0, <1>4, <1>10, <2>1, <2>3, <2>4 DEF Receive, HistoryOK
<1>11. CASE Reconfigured
  <2>1. agent.inbox \in Seq(Intervals) /\ agent.inbox # <<>> /\ Len(agent.inbox) \in Nat
    BY <1>0, <1>11, LenProperties DEF Reconfigured, Agents
  <2>2. /\ Head(agent.inbox) \in Intervals /\ Tail(agent.inbox) \in Seq(Intervals)
        /\ Len(Tail(agent.inbox)) = Len(agent.inbox) - 1
    BY <2>1, QueueTail
  <2>3. agent' \in Agents /\ agent'.inbox = Tail(agent.inbox) /\ UNCHANGED taken
    BY <1>0, <1>11, <2>2 DEF Reconfigured, Agents
  <2>4. AgentOK'
    BY <1>0, <2>1, <2>2, <2>3 DEF AgentOK
  <2> QED BY <1>3, <1>4, <1>5, <1>11, <2>4 DEF Reconfigured
<1>12. CASE LinkLost
  <2>1. EndSession(<<>>) /\ agent.pc # "away"
    BY <1>12 DEF LinkLost, Listening, MaySample
  <2>2. AgentOK'
    <3>1. agent' \in Agents /\ agent'.inbox = <<>>
      BY <2>1, SessionEnds
    <3> QED BY <1>0, <1>12, <3>1 DEF LinkLost, AgentOK
  <2>3. NetOK'
    BY <1>0, <1>12, <2>1, SessionEnds DEF LinkLost, NetOK
  <2>4. HistoryOK'
    BY <1>0, <1>12, FaultTyped DEF LinkLost, HistoryOK
  <2> QED BY <1>4, <1>12, <2>2, <2>3, <2>4 DEF LinkLost
<1>13. CASE AgentRestart
  <2>1. AgentOK'
    BY <1>0, <1>13, Rests DEF AgentRestart, AgentOK
  <2>2. NetOK'
    <3>1. <<>> \in Seq(Intervals)
      OBVIOUS
    <3>2. ends' \in [Conns -> SUBSET {"agent", "hub"}]
      BY <1>0, <1>13, Closes DEF AgentRestart, NetOK
    <3> QED BY <1>0, <1>13, <3>1, <3>2 DEF AgentRestart, NetOK
  <2> QED BY <1>0, <1>4, <1>13, <2>1, <2>2, FaultTyped DEF AgentRestart, HistoryOK
<1>14. CASE Cut
  <2>1. NetOK'
    <3>1. <<>> \in Seq(Intervals) /\ <<>> \in Seq(Samples \cup {Hello})
      OBVIOUS
    <3> QED BY <1>0, <1>14, <3>1 DEF Cut, NetOK
  <2> QED BY <1>0, <1>2, <1>4, <1>14, <2>1, FaultTyped DEF Cut, HistoryOK
<1>15. CASE HubRestart
  <2>1. NetOK'
    <3>1. <<>> \in Seq(Samples \cup {Hello})
      OBVIOUS
    <3> QED BY <1>0, <1>15, <3>1 DEF HubRestart, NetOK
  <2>2. \A p \in Puts : [NoPut EXCEPT !.pc = IF put[p].pc = "idle" THEN "idle" ELSE "done"] \in PutRequests
    BY DEF NoPut, PutRequests
  <2>3. HubOK'
    BY <1>0, <1>15, <2>2, Rests DEF HubRestart, HubOK
  <2>4. HistoryOK'
    BY <1>0, <1>15, FaultTyped DEF HubRestart, HistoryOK
  <2> QED BY <1>2, <1>15, <2>1, <2>3, <2>4 DEF HubRestart
<1>16. ASSUME NEW c \in Conns, HandlerSteps(c) PROVE Typed
  <2>1. CASE ReadHello(c)
    <3>1. Tail(up[c]) \in Seq(Samples \cup {Hello})
      BY <1>0, <2>1, QueueTail DEF ReadHello
    <3>2. NetOK'
      BY <1>0, <2>1, <3>1 DEF ReadHello, NetOK
    <3>3. HubOK'
      <4>1. [[handler[c] EXCEPT !.pc = "welcome"] EXCEPT !.offer = cfg] \in Handlers
        BY <1>0 DEF Handlers, HubOK
      <4> QED BY <1>0, <2>1, <4>1 DEF ReadHello, HubOK
    <3> QED BY <1>2, <1>5, <2>1, <3>2, <3>3 DEF ReadHello
  <2>2. CASE WriteWelcome(c)
    <3>1. handler[c].pc = "welcome"
      BY <2>2 DEF WriteWelcome
    <3>2. NetOK'
      <4>1. ASSUME handler[c].offer \in Intervals PROVE NetOK'
        <5>1. Append(down[c], handler[c].offer) \in Seq(Intervals)
          BY <1>0, <4>1, QueueAppend
        <5> QED BY <1>0, <2>2, <5>1 DEF WriteWelcome, NetOK
      <4>2. handler[c].offer \in Intervals
        BY <3>1 DEF Links, LinkOK
      <4> QED BY <4>1, <4>2
    <3>3. HubOK'
      <4>1. [handler[c] EXCEPT !.pc = "register"] \in Handlers
        BY <1>0 DEF Handlers
      <4> QED BY <1>0, <2>2, <4>1 DEF WriteWelcome, HubOK
    <3> QED BY <1>2, <1>5, <2>2, <3>2, <3>3 DEF WriteWelcome
  <2>3. CASE Register(c)
    <3>1. HubOK'
      <4>1. ASSUME NEW p \in {"serve", "close"}
            PROVE  [[handler[c] EXCEPT !.pc = p] EXCEPT !.old = registered] \in Handlers
        BY <1>0 DEF Handlers, HubOK
      <4> QED BY <1>0, <2>3, <4>1 DEF Register, HubOK
    <3> QED BY <1>2, <1>3, <1>5, <2>3, <3>1 DEF Register
  <2>4. CASE CloseOld(c)
    <3>1. NetOK'
      <4>1. ends' \in [Conns -> SUBSET {"agent", "hub"}]
        BY <1>0, <2>4, Closes DEF CloseOld
      <4> QED BY <1>0, <2>4, <4>1 DEF CloseOld, NetOK
    <3>2. HubOK'
      <4>1. [[handler[c] EXCEPT !.pc = "serve"] EXCEPT !.old = None] \in Handlers
        BY <1>0 DEF Handlers
      <4> QED BY <1>0, <2>4, <4>1 DEF CloseOld, HubOK
    <3> QED BY <1>2, <1>5, <2>4, <3>1, <3>2 DEF CloseOld
  <2>5. CASE TakeSample(c)
    <3>1. up[c] \in Seq(Samples) /\ up[c] # <<>>
      BY <2>5 DEF TakeSample, Links, LinkOK
    <3>2. Tail(up[c]) \in Seq(Samples \cup {Hello}) /\ Head(up[c]) \in Samples
      BY <1>0, <3>1, QueueTail
    <3>3. NetOK'
      BY <1>0, <2>5, <3>2 DEF TakeSample, NetOK
    <3>4. HubOK'
      <4>1. [[handler[c] EXCEPT !.pc = "insert"] EXCEPT !.sample = Head(up[c])] \in Handlers
        BY <1>0, <3>2 DEF Handlers
      <4> QED BY <1>0, <2>5, <4>1 DEF TakeSample, HubOK
    <3> QED BY <1>2, <1>5, <2>5, <3>3, <3>4 DEF TakeSample
  <2>6. CASE InsertSample(c)
    <3>1. HubOK'
      <4>1. ASSUME NEW b \in BOOLEAN
            PROVE  [[[handler[c] EXCEPT !.pc = "serve"] EXCEPT !.sample = None] EXCEPT !.accepted = b] \in Handlers
        BY <1>0 DEF Handlers
      <4>2. handler[c].accepted \in BOOLEAN
        BY <1>0 DEF Handlers
      <4>3. handler' \in [Conns -> Handlers]
        BY <1>0, <2>6, <4>1, <4>2 DEF InsertSample, HubOK
      <4>4. stored' \subseteq Samples
        <5>1. handler[c].sample \in Samples
          BY <2>6 DEF InsertSample, Links, LinkOK
        <5> QED BY <1>0, <2>6, <5>1 DEF InsertSample, HubOK
      <4> QED BY <1>0, <2>6, <4>3, <4>4 DEF InsertSample, HubOK
    <3> QED BY <1>2, <1>3, <1>5, <2>6, <3>1 DEF InsertSample
  <2>7. CASE HandlerEnds(c)
    <3>1. NetOK'
      <4>1. <<>> \in Seq(Samples \cup {Hello})
        OBVIOUS
      <4>2. ends' \in [Conns -> SUBSET {"agent", "hub"}]
        BY <1>0, <2>7, Closes DEF HandlerEnds
      <4> QED BY <1>0, <2>7, <4>1, <4>2 DEF HandlerEnds, NetOK
    <3>2. HubOK'
      BY <1>0, <2>7, Rests DEF HandlerEnds, Unregistered, HubOK
    <3> QED BY <1>0, <1>2, <2>7, <3>1, <3>2 DEF HandlerEnds, HistoryOK
  <2> QED BY <1>16, <2>1, <2>2, <2>3, <2>4, <2>5, <2>6, <2>7 DEF HandlerSteps
<1>17. ASSUME NEW p \in Puts, NEW v \in Intervals, PutRead(p, v) PROVE Typed
  <2>1. [NoPut EXCEPT !.pc = "store", !.val = v, !.prev = setting] \in PutRequests
    BY <1>0 DEF NoPut, PutRequests, HubOK
  <2>2. HubOK'
    BY <1>0, <1>17, <2>1 DEF PutRead, HubOK
  <2> QED BY <1>0, <1>2, <1>3, <1>17, <2>2 DEF PutRead, HistoryOK
<1>18. ASSUME NEW p \in Puts, PutSteps(p) PROVE Typed
  <2>1. CASE PutStore(p)
    <3>1. put[p].val \in Intervals
      BY <2>1 DEF PutStore, Links, TargetsOK
    <3>2. put' \in [Puts -> PutRequests]
      <4>1. \A st \in {"done", "apply"} : [put[p] EXCEPT !.pc = st] \in PutRequests
        BY <1>0 DEF PutRequests
      <4> QED BY <1>0, <2>1, <4>1 DEF PutStore, HubOK
    <3>3. HubOK'
      BY <1>0, <2>1, <3>1, <3>2 DEF PutStore, HubOK
    <3> QED BY <1>2, <1>3, <1>5, <2>1, <3>3 DEF PutStore
  <2>2. CASE PutApply(p)
    <3>1. put[p].val \in Intervals
      BY <2>2 DEF PutApply, Links, TargetsOK
    <3>2. [[put[p] EXCEPT !.pc = "push"] EXCEPT !.target = registered] \in PutRequests
      BY <1>0 DEF PutRequests, HubOK
    <3>3. HubOK'
      BY <1>0, <2>2, <3>1, <3>2 DEF PutApply, HubOK, Apply
    <3> QED BY <1>0, <1>2, <1>3, <2>2, <3>3 DEF PutApply, HistoryOK
  <2>3. CASE PutPush(p)
    <3>1. put[p].val \in Intervals
      BY <2>3 DEF PutPush, Links, TargetsOK
    <3>2. NetOK'
      <4>1. ASSUME put[p].target # None
            PROVE  Append(down[put[p].target], put[p].val) \in Seq(Intervals)
        <5>1. down[put[p].target] \in Seq(Intervals)
          BY <1>0, <4>1 DEF PutRequests
        <5> QED BY <3>1, <5>1, QueueAppend
      <4> QED BY <1>0, <2>3, <4>1 DEF PutPush, NetOK
    <3>3. [NoPut EXCEPT !.pc = "done"] \in PutRequests
      BY DEF NoPut, PutRequests
    <3>4. HubOK'
      BY <1>0, <2>3, <3>3 DEF PutPush, HubOK
    <3> QED BY <1>2, <1>5, <2>3, <3>2, <3>4 DEF PutPush
  <2>4. CASE PutFails(p)
    <3>1. [NoPut EXCEPT !.pc = "done"] \in PutRequests
      BY DEF NoPut, PutRequests
    <3>2. HubOK'
      BY <1>0, <2>4, <3>1 DEF PutFails, HubOK
    <3>3. HistoryOK'
      BY <1>0, <2>4 DEF PutFails, HistoryOK
    <3> QED BY <1>2, <1>3, <2>4, <3>2, <3>3 DEF PutFails
  <2> QED BY <1>18, <2>1, <2>2, <2>3, <2>4 DEF PutSteps
<1>19. CASE UNCHANGED vars
  BY <1>2, <1>3, <1>4, <1>5, <1>19 DEF vars, net, hub
<1> QED BY <1>6, <1>7, <1>8, <1>9, <1>10, <1>11, <1>12, <1>13, <1>14, <1>15, <1>16, <1>17, <1>18, <1>19
        DEF Next, AgentSteps

-----------------------------------------------------------------------------
(* The agent's memory. *)

\* Every step keeps what the agent remembers of its samples.
LEMMA MemoryStays ==
  ASSUME TypeOK, Memory, Links, [Next]_vars
  PROVE  Memory'
<1> USE Constants
<1>0. agent \in Agents /\ agent.conn \in Conns \cup {None} /\ taken \in 0..MaxSamples /\ None \notin Conns
  BY TypeParts DEF AgentOK, Agents
<1>1. ASSUME UNCHANGED <<agent.pc, agent.conn, agent.buf, agent.plan, taken>> PROVE Memory'
  BY <1>1 DEF Memory, Newest
<1>2. ASSUME NEW c \in Conns, Dial(c) PROVE Memory'
  <2>1. /\ agent.pc = "away" /\ agent'.pc = "welcome" /\ agent'.conn = c
        /\ UNCHANGED <<agent.buf, agent.plan, taken>>
    BY <1>0, <1>2 DEF Dial, Agents
  <2> QED BY <1>0, <2>1 DEF Memory, Newest
<1>3. CASE Welcome
  <2>1. /\ agent.pc = "welcome" /\ agent'.pc = "replay" /\ agent'.plan = agent.buf /\ agent'.buf = <<>>
        /\ UNCHANGED <<agent.conn, taken>>
    BY <1>0, <1>3 DEF Welcome, Drained, Agents
  <2> QED BY <2>1 DEF Memory, Newest
<1>4. ASSUME NEW s \in Samples, Send(s) PROVE Memory'
  <2>1. s \in Outgoing
    BY <1>4 DEF Send
  <2>2. CASE agent.plan = <<s>> /\ s = taken /\ agent.pc = "replay"
    <3>1. agent' = [agent EXCEPT !.plan = Tail(@)] /\ UNCHANGED taken /\ Tail(<<s>>) = <<>>
      BY <1>0, <1>4, <2>2, Singles DEF Send
    <3>2. agent'.plan = <<>> /\ UNCHANGED <<agent.pc, agent.conn, agent.buf>>
      BY <1>0, <2>2, <3>1 DEF Agents
    <3> QED BY <2>2, <3>2 DEF Memory, Newest
  <2>3. CASE agent.plan = <<>> /\ s = taken + 1
    <3>1. agent' = [agent EXCEPT !.pc = "live"]
      BY <1>0, <1>4, <2>3 DEF Send
    <3>2. agent'.pc = "live" /\ agent'.plan = <<>> /\ UNCHANGED <<agent.conn, agent.buf>>
      BY <1>0, <2>3, <3>1 DEF Agents
    <3>3. agent.buf = <<>> /\ agent.conn # None
      BY <1>0, <2>1, Sends
    <3> QED BY <3>2, <3>3 DEF Memory, Newest
  <2> QED BY <2>1, <2>2, <2>3, Sends
<1>5. ASSUME NEW s \in Samples, SendFails(s) PROVE Memory'
  <2>1. s \in Outgoing /\ EndSession(Pushed(s)) /\ Pushed(s) = <<s>> /\ taken' = IF s > taken THEN s ELSE taken
    BY <1>5 DEF SendFails, Pushed
  <2>2. taken' = s
    BY <1>0, <2>1, Sends
  <2>3. agent'.buf = <<s>> /\ agent'.pc = "away" /\ agent'.conn = None /\ agent'.plan = <<>>
    <3>1. <<s>> # <<>> /\ <<s>> \in Seq(Samples)
      BY Singles
    <3>2. agent.buf = <<>> /\ agent.pc # "away"
      BY <2>1, Sends
    <3> QED BY <2>1, <3>1, <3>2, SessionEnds
  <2> QED BY <2>2, <2>3 DEF Memory, Newest
<1>6. CASE LinkLost
  <2>1. agent.pc # "away" /\ EndSession(<<>>) /\ UNCHANGED taken
    BY <1>6 DEF LinkLost, Listening, MaySample
  <2>2. agent'.buf = agent.buf /\ agent'.pc = "away" /\ agent'.conn = None /\ agent'.plan = <<>>
    BY <2>1, SessionEnds
  <2>3. Newest(agent.buf)
    BY <1>0 DEF Memory, Newest, Agents
  <2> QED BY <2>1, <2>2, <2>3 DEF Memory, Newest
<1>7. CASE Receive \/ Reconfigured
  <2>1. CASE Receive
    <3>1. UNCHANGED <<agent.pc, agent.conn, agent.buf, agent.plan, taken>>
      BY <1>0, <2>1 DEF Receive, Agents
    <3> QED BY <1>1, <3>1
  <2>2. CASE Reconfigured
    <3>1. /\ agent.pc \in {"replay", "live"} /\ agent.plan = <<>> /\ agent'.pc = "live"
          /\ UNCHANGED <<agent.conn, agent.buf, agent.plan, taken>>
      BY <1>0, <2>2 DEF Reconfigured, MaySample, Agents
    <3> QED BY <3>1 DEF Memory, Newest
  <2> QED BY <1>7, <2>1, <2>2
<1>8. CASE AgentRestart
  BY <1>8 DEF AgentRestart, Fresh, Memory, Newest
<1>9. CASE Cut \/ HubRestart \/ (\E c \in Conns : HandlerSteps(c)) \/ UNCHANGED vars
           \/ \E p \in Puts : PutSteps(p) \/ \E v \in Intervals : PutRead(p, v)
  <2>1. UNCHANGED <<agent, taken>>
    BY <1>9 DEF Cut, HubRestart, HandlerSteps, ReadHello, WriteWelcome, Register, CloseOld, TakeSample,
                InsertSample, HandlerEnds, PutSteps, PutStore, PutFails, PutApply, PutPush, PutRead, vars
  <2> QED BY <1>1, <2>1
<1> QED BY <1>2, <1>3, <1>4, <1>5, <1>6, <1>7, <1>8, <1>9 DEF Next, AgentSteps

Remembered == {agent.buf[i] : i \in DOMAIN agent.buf} \cup {agent.plan[i] : i \in DOMAIN agent.plan}

\* A session that goes on remembers what it did.
LEMMA UnsentStays ==
  ASSUME TypeOK, Memory, Links, UnsentIsKept, [Next]_vars
  PROVE  UnsentIsKept'
<1> USE Constants
<1>0. agent \in Agents /\ agent.conn \in Conns \cup {None} /\ taken \in 0..MaxSamples
  BY TypeParts DEF AgentOK, Agents
<1>a. (UnsentIsKept <=> owed \subseteq Remembered) /\ (UnsentIsKept' <=> owed' \subseteq Remembered')
  BY DEF UnsentIsKept, Remembered
<1>b. {<<>>[i] : i \in DOMAIN <<>>} = {}
  OBVIOUS
<1>c. \A s \in Samples : {<<s>>[i] : i \in DOMAIN <<s>>} = {s}
  BY Singles
<1>1. ASSUME UNCHANGED <<agent.buf, agent.plan, owed>> PROVE UnsentIsKept'
  BY <1>1 DEF UnsentIsKept
<1>2. ASSUME NEW c \in Conns, Dial(c) PROVE UnsentIsKept'
  <2>1. UNCHANGED <<agent.buf, agent.plan, owed>>
    BY <1>0, <1>2 DEF Dial, Agents
  <2> QED BY <1>1, <2>1
<1>3. CASE Welcome
  <2>1. agent'.plan = agent.buf /\ agent'.buf = <<>> /\ agent.plan = <<>> /\ UNCHANGED owed
    BY <1>0, <1>3 DEF Welcome, Drained, Agents, Memory
  <2>2. Remembered' = Remembered
    BY <2>1 DEF Remembered
  <2> QED BY <1>a, <2>1, <2>2
<1>4. ASSUME NEW s \in Samples, Send(s) PROVE UnsentIsKept'
  <2>1. s \in Outgoing /\ owed' = owed \ {s}
    BY <1>4 DEF Send
  <2>2. CASE agent.plan = <<s>> /\ s = taken /\ agent.pc = "replay"
    <3>1. Remembered = {s}
      BY <1>b, <1>c, <2>1, <2>2, Sends DEF Remembered
    <3>2. owed' = {}
      BY <1>a, <2>1, <3>1
    <3> QED BY <1>a, <3>2
  <2>3. CASE agent.plan = <<>> /\ s = taken + 1
    <3>1. Remembered = {}
      BY <1>b, <2>1, <2>3, Sends DEF Remembered
    <3>2. owed' = {}
      BY <1>a, <2>1, <3>1
    <3> QED BY <1>a, <3>2
  <2> QED BY <2>1, <2>2, <2>3, Sends
<1>5. ASSUME NEW s \in Samples, SendFails(s) PROVE UnsentIsKept'
  <2>1. s \in Outgoing /\ EndSession(Pushed(s)) /\ Pushed(s) = <<s>> /\ owed' = owed \cup {s}
    BY <1>5 DEF SendFails, Pushed
  <2>2. agent'.buf = <<s>> /\ agent'.plan = <<>>
    <3>1. <<s>> # <<>> /\ <<s>> \in Seq(Samples)
      BY Singles
    <3>2. agent.buf = <<>> /\ agent.pc # "away"
      BY <2>1, Sends
    <3> QED BY <2>1, <3>1, <3>2, SessionEnds
  <2>3. Remembered' = {s}
    BY <1>b, <1>c, <2>2 DEF Remembered
  <2>4. Remembered \subseteq {s}
    BY <1>b, <1>c, <2>1, Sends DEF Remembered
  <2> QED BY <1>a, <2>1, <2>3, <2>4
<1>6. CASE LinkLost
  <2>1. agent.pc # "away" /\ EndSession(<<>>) /\ UNCHANGED owed /\ agent.plan = <<>>
    BY <1>6 DEF LinkLost, Listening, MaySample, Memory
  <2>2. agent'.buf = agent.buf /\ agent'.plan = <<>>
    BY <2>1, SessionEnds
  <2> QED BY <1>1, <2>1, <2>2
<1>7. CASE Receive \/ Reconfigured
  <2>1. UNCHANGED <<agent.buf, agent.plan, owed>>
    BY <1>0, <1>7 DEF Receive, Reconfigured, Agents
  <2> QED BY <1>1, <2>1
<1>8. CASE AgentRestart
  BY <1>8 DEF AgentRestart, UnsentIsKept
<1>9. CASE Cut \/ HubRestart \/ (\E c \in Conns : HandlerSteps(c)) \/ UNCHANGED vars
           \/ \E p \in Puts : PutSteps(p) \/ \E v \in Intervals : PutRead(p, v)
  <2>1. UNCHANGED <<agent, owed>>
    BY <1>9 DEF Cut, HubRestart, HandlerSteps, ReadHello, WriteWelcome, Register, CloseOld, TakeSample,
                InsertSample, HandlerEnds, PutSteps, PutStore, PutFails, PutApply, PutPush, PutRead, vars
  <2> QED BY <1>1, <2>1
<1> QED BY <1>2, <1>3, <1>4, <1>5, <1>6, <1>7, <1>8, <1>9 DEF Next, AgentSteps

-----------------------------------------------------------------------------
(* The connections. *)

\* Every step keeps the connections the agent has left closed, and who may be registered.
LEMMA LinksStay ==
  ASSUME TypeOK, Memory, Links, [Next]_vars
  PROVE  Links'
<1> USE Constants
<1>0. /\ AgentOK /\ NetOK /\ HubOK /\ HistoryOK
      /\ agent \in Agents /\ agent.conn \in Conns \cup {None} /\ None \notin Conns
      /\ DOMAIN handler = Conns /\ DOMAIN up = Conns /\ DOMAIN down = Conns /\ DOMAIN ends = Conns
      /\ DOMAIN put = Puts
      /\ \A c \in Conns : handler[c] \in Handlers /\ LinkOK(c)
      /\ \A p \in Puts : put[p] \in PutRequests
      /\ RegisteredOK /\ TargetsOK
  BY TypeParts DEF AgentOK, NetOK, HubOK, Agents, Links
<1>1. UNCHANGED <<handler, registered>> => RegisteredOK'
  BY <1>0 DEF RegisteredOK
<1>2. UNCHANGED <<handler, put>> => TargetsOK'
  BY <1>0 DEF TargetsOK
\* The steps of the agent.
<1>3. ASSUME NEW c \in Conns, Dial(c) PROVE Links'
  <2>1. /\ agent.conn = None /\ agent'.conn = c /\ agent'.pc = "welcome" /\ handler[c].pc = "none"
        /\ \A p \in Puts : put[p].target # c
        /\ handler'[c].pc = "hello" /\ \A d \in Conns \ {c} : handler'[d] = handler[d]
        /\ up'[c] = <<Hello>> /\ (\A d \in Conns \ {c} : up'[d] = up[d])
        /\ \A d \in Conns \ {c} : ends'[d] = ends[d]
        /\ UNCHANGED <<down, registered, put>>
    BY <1>0, <1>3 DEF Dial, Free, Memory, Agents, Handlers
  <2>2. RegisteredOK'
    BY <1>0, <2>1 DEF RegisteredOK, HubOK
  <2>3. TargetsOK'
    <3>1. \A p \in Puts : put[p].target # None => handler'[put[p].target] = handler[put[p].target]
      BY <1>0, <2>1 DEF PutRequests
    <3> QED BY <1>0, <2>1, <3>1 DEF TargetsOK
  <2>4. LinkOK(c)'
    BY <1>0, <2>1 DEF LinkOK
  <2>5. ASSUME NEW d \in Conns \ {c} PROVE LinkOK(d)'
    BY <1>0, <2>1 DEF LinkOK
  <2> QED BY <2>2, <2>3, <2>4, <2>5 DEF Links
<1>4. ASSUME UNCHANGED <<agent.conn, handler, put, registered, ends>>,
             agent.pc \in {"replay", "live"}, agent'.pc \in {"replay", "live"},
             \A c \in Conns : c # agent.conn => down'[c] = down[c] /\ up'[c] = up[c],
             \A c \in Conns : c = agent.conn /\ handler[c].pc # "none" => up'[c] \in Seq(Samples)
      PROVE  Links'
  <2>1. ASSUME NEW c \in Conns PROVE LinkOK(c)'
    BY <1>0, <1>4 DEF LinkOK
  <2> QED BY <1>0, <1>1, <1>2, <1>4, <2>1 DEF Links
<1>5. ASSUME agent.pc \in {"replay", "live"}
      PROVE  \A c \in Conns : c = agent.conn /\ handler[c].pc # "none" => up[c] \in Seq(Samples)
  BY <1>0, <1>5 DEF LinkOK
<1>6. CASE Welcome
  <2>1. /\ agent.pc = "welcome" /\ agent'.pc = "replay" /\ agent.conn \in Conns /\ down[agent.conn] # <<>>
        /\ UNCHANGED <<agent.conn, handler, up, put, registered, ends>>
        /\ \A c \in Conns : c # agent.conn => down'[c] = down[c]
    <3>1. agent.conn # None /\ agent.pc = "welcome"
      BY <1>6 DEF Welcome, Memory
    <3>2. agent'.pc = "replay" /\ agent'.conn = agent.conn
      BY <1>0, <1>6 DEF Welcome, Drained, Agents
    <3> QED BY <1>0, <1>6, <3>1, <3>2 DEF Welcome, hub
  <2>2. ASSUME NEW c \in Conns PROVE LinkOK(c)'
    BY <1>0, <2>1 DEF LinkOK
  <2> QED BY <1>1, <1>2, <2>1, <2>2 DEF Links
<1>7. ASSUME NEW s \in Samples, Send(s) PROVE Links'
  <2>1. s \in Outgoing
    BY <1>7 DEF Send
  <2>2. agent.pc \in {"replay", "live"} /\ agent.conn \in Conns
    BY <2>1, Sends
  <2>3. agent'.pc \in {"replay", "live"} /\ UNCHANGED <<agent.conn, handler, put, registered, ends, down>>
    BY <1>0, <1>7, <2>2 DEF Send, hub, Agents
  <2>4. \A c \in Conns : c # agent.conn => up'[c] = up[c]
    BY <1>0, <1>7 DEF Send
  <2>5. \A c \in Conns : c = agent.conn /\ handler[c].pc # "none" => up'[c] \in Seq(Samples)
    <3>1. up[agent.conn] \in Seq(Samples) => Append(up[agent.conn], s) \in Seq(Samples)
      BY QueueAppend
    <3> QED BY <1>0, <1>5, <1>7, <2>2, <3>1 DEF Send
  <2> QED BY <1>4, <2>2, <2>3, <2>4, <2>5
<1>8. CASE Receive \/ Reconfigured
  <2>1. agent.pc \in {"replay", "live"} /\ agent'.pc \in {"replay", "live"}
    BY <1>0, <1>8 DEF Receive, Reconfigured, MaySample, Agents
  <2>2. UNCHANGED <<agent.conn, handler, put, registered, ends, up>>
    BY <1>0, <1>8 DEF Receive, Reconfigured, hub, net, Agents
  <2>3. \A c \in Conns : c # agent.conn => down'[c] = down[c]
    BY <1>0, <1>8 DEF Receive, Reconfigured, net
  <2> QED BY <1>4, <1>5, <2>1, <2>2, <2>3
<1>9. ASSUME agent.conn \in Conns, agent'.conn = None, UNCHANGED <<handler, put, registered>>,
             \A c \in Conns : c # agent.conn => down'[c] = down[c] /\ up'[c] = up[c] /\ ends'[c] = ends[c],
             down'[agent.conn] = <<>>, "agent" \in ends'[agent.conn],
             agent.pc \in {"replay", "live"} \/ up'[agent.conn] = up[agent.conn],
             handler[agent.conn].pc # "none" /\ agent.pc \in {"replay", "live"} => up'[agent.conn] \in Seq(Samples)
      PROVE  Links'
  <2>1. ASSUME NEW c \in Conns PROVE LinkOK(c)'
    BY <1>0, <1>9 DEF LinkOK
  <2> QED BY <1>1, <1>2, <1>9, <2>1 DEF Links
<1>10. ASSUME NEW s \in Samples, SendFails(s) PROVE Links'
  <2>1. s \in Outgoing /\ EndSession(Pushed(s)) /\ Pushed(s) = <<s>>
    BY <1>10 DEF SendFails, Pushed
  <2>2. agent.pc \in {"replay", "live"} /\ agent.conn \in Conns /\ agent.buf = <<>>
    BY <2>1, Sends
  <2>3. /\ agent'.conn = None /\ ends' = [ends EXCEPT ![agent.conn] = @ \cup {"agent"}]
        /\ down' = [down EXCEPT ![agent.conn] = <<>>]
    BY <2>1, <2>2, Singles, SessionEnds
  <2>4. UNCHANGED <<handler, put, registered>>
    BY <1>10 DEF SendFails, hub
  <2>5. up' \in {up, [up EXCEPT ![agent.conn] = Append(@, s)]}
    BY <1>10 DEF SendFails
  <2>6. handler[agent.conn].pc # "none" => up'[agent.conn] \in Seq(Samples)
    <3>1. up[agent.conn] \in Seq(Samples) => Append(up[agent.conn], s) \in Seq(Samples)
      BY QueueAppend
    <3> QED BY <1>0, <1>5, <2>2, <2>5, <3>1
  <2> QED BY <1>0, <1>9, <2>2, <2>3, <2>4, <2>5, <2>6
<1>11. CASE LinkLost
  <2>1. agent.pc # "away" /\ EndSession(<<>>) /\ UNCHANGED <<up, handler, put, registered>>
    BY <1>11 DEF LinkLost, Listening, MaySample, hub
  <2>2. /\ agent'.conn = None /\ ends' = [ends EXCEPT ![agent.conn] = @ \cup {"agent"}]
        /\ down' = [down EXCEPT ![agent.conn] = <<>>] /\ agent.conn \in Conns
    BY <2>1, SessionEnds
  <2> QED BY <1>0, <1>5, <1>9, <2>1, <2>2
<1>12. CASE AgentRestart
  <2>1. UNCHANGED <<up, handler, put, registered>> /\ agent'.conn = None
    BY <1>12 DEF AgentRestart, hub, Fresh
  <2>2. CASE agent.conn = None
    <3>1. agent.pc = "away" /\ UNCHANGED <<ends, down>>
      BY <1>12, <2>2 DEF AgentRestart, Memory
    <3>2. ASSUME NEW c \in Conns PROVE LinkOK(c)'
      BY <1>0, <2>1, <2>2, <3>1 DEF LinkOK
    <3> QED BY <1>1, <1>2, <2>1, <3>2 DEF Links
  <2>3. CASE agent.conn # None
    <3>1. /\ ends' = [ends EXCEPT ![agent.conn] = @ \cup {"agent"}]
          /\ down' = [down EXCEPT ![agent.conn] = <<>>] /\ agent.conn \in Conns
      BY <1>0, <1>12, <2>3 DEF AgentRestart, Closed
    <3> QED BY <1>0, <1>5, <1>9, <2>1, <3>1
  <2> QED BY <2>2, <2>3
<1>13. CASE Cut
  <2>1. /\ UNCHANGED <<agent, handler, put, registered, ends>>
        /\ agent.conn \in Conns /\ \A c \in Conns : c # agent.conn => up'[c] = up[c] /\ down'[c] = down[c]
        /\ down'[agent.conn] = <<>> /\ up'[agent.conn] \in {up[agent.conn], <<>>}
    BY <1>0, <1>13 DEF Cut, hub
  <2>2. <<>> \in Seq(Samples)
    OBVIOUS
  <2>3. ASSUME NEW c \in Conns PROVE LinkOK(c)'
    BY <1>0, <2>1, <2>2 DEF LinkOK
  <2> QED BY <1>1, <1>2, <2>1, <2>3 DEF Links
\* The steps of the hub.
<1>14. CASE HubRestart
  <2>1. /\ \A c \in Conns : handler'[c].pc = "none" /\ ends[c] \subseteq ends'[c]
        /\ registered' = None /\ UNCHANGED <<agent, down>>
        /\ \A p \in Puts : put'[p].target = None /\ put'[p].pc \in {"idle", "done"}
    BY <1>0, <1>14 DEF HubRestart, Idle, NoPut
  <2>2. ASSUME NEW c \in Conns PROVE LinkOK(c)'
    BY <1>0, <2>1 DEF LinkOK
  <2> QED BY <2>1, <2>2 DEF Links, RegisteredOK, TargetsOK
<1>15. ASSUME NEW c \in Conns, UNCHANGED <<agent, put>>,
              \A d \in Conns : d # c => handler'[d] = handler[d] /\ down'[d] = down[d] /\ up'[d] = up[d],
              \A d \in Conns : ends[d] \subseteq ends'[d],
              handler[c].pc # "none", handler'[c].pc # "hello",
              handler'[c].pc # "none" => up'[c] \in Seq(Samples),
              c # agent.conn => down'[c] = <<>>,
              handler'[c].pc = "welcome" =>
                handler'[c].offer \in Intervals /\ down'[c] = <<>> /\ handler[c].pc = "hello",
              handler'[c].pc = "insert" => handler'[c].sample \in Samples,
              RegisteredOK', TargetsOK'
       PROVE  Links'
  <2>1. ASSUME NEW d \in Conns \ {c} PROVE LinkOK(d)'
    <3>1. LinkOK(d)
      BY <1>0
    <3> QED BY <1>15, <3>1 DEF LinkOK
  <2>2. LinkOK(c)'
    BY <1>0, <1>15 DEF LinkOK
  <2> QED BY <1>15, <2>1, <2>2 DEF Links
<1>16. ASSUME NEW c \in Conns, ReadHello(c) PROVE Links'
  <2>1. handler[c].pc = "hello" /\ up[c] = <<Hello>> /\ down[c] = <<>>
    BY <1>0, <1>16 DEF ReadHello, LinkOK
  <2>2. up'[c] = <<>> /\ <<>> \in Seq(Samples)
    <3>1. Tail(<<Hello>>) = <<>> /\ <<>> \in Seq(Samples)
      BY Singles
    <3> QED BY <1>0, <1>16, <2>1, <3>1 DEF ReadHello
  <2>3. /\ handler'[c].pc = "welcome" /\ handler'[c].offer = cfg
        /\ \A d \in Conns : d # c => handler'[d] = handler[d] /\ up'[d] = up[d]
        /\ UNCHANGED <<agent, put, down, ends, registered>>
    BY <1>0, <1>16 DEF ReadHello, Handlers
  <2>4. RegisteredOK' /\ TargetsOK'
    BY <1>0, <2>1, <2>3 DEF RegisteredOK, TargetsOK, HubOK, PutRequests
  <2>5. cfg \in Intervals
    BY <1>0 DEF HubOK
  <2> QED BY <1>0, <1>15, <2>1, <2>2, <2>3, <2>4, <2>5
<1>17. ASSUME NEW c \in Conns, WriteWelcome(c) PROVE Links'
  <2>1. handler[c].pc = "welcome" /\ up[c] \in Seq(Samples) /\ down[c] = <<>>
        /\ (c # agent.conn => "agent" \in ends[c])
    BY <1>0, <1>17 DEF WriteWelcome, LinkOK
  <2>2. /\ handler'[c].pc = "register"
        /\ \A d \in Conns : d # c => handler'[d] = handler[d] /\ down'[d] = down[d]
        /\ UNCHANGED <<agent, put, up, ends, registered>>
    BY <1>0, <1>17 DEF WriteWelcome, Handlers
  <2>3. c # agent.conn => down'[c] = <<>>
    BY <1>17, <2>1 DEF WriteWelcome, Whole
  <2>4. RegisteredOK' /\ TargetsOK'
    BY <1>0, <2>1, <2>2 DEF RegisteredOK, TargetsOK, HubOK, PutRequests
  <2> QED BY <1>0, <1>15, <2>1, <2>2, <2>3, <2>4
\* The others leave the messages to the agent alone.
<1>18. ASSUME NEW c \in Conns, UNCHANGED <<agent, put, down>>,
              \A d \in Conns : d # c => handler'[d] = handler[d] /\ up'[d] = up[d],
              \A d \in Conns : ends[d] \subseteq ends'[d],
              handler[c].pc \notin {"none", "hello", "welcome"}, handler'[c].pc \in {"close", "serve", "insert"},
              up'[c] \in Seq(Samples), registered' \in {registered, c},
              handler'[c].pc = "insert" => handler'[c].sample \in Samples
       PROVE  Links'
  <2>0. RegisteredOK'
    <3>1. CASE registered' = c
      BY <1>18, <3>1 DEF RegisteredOK
    <3>2. CASE registered' = registered /\ registered # c
      BY <1>0, <1>18, <3>2 DEF RegisteredOK, HubOK
    <3> QED BY <1>18, <3>1, <3>2
  <2>1. TargetsOK'
    <3>1. ASSUME NEW p \in Puts, put[p].target # None
          PROVE  handler'[put[p].target].pc \in {"none", "close", "serve", "insert"}
      <4>1. CASE put[p].target = c
        BY <1>18, <4>1
      <4>2. CASE put[p].target # c
        <5>1. put[p].target \in Conns
          BY <1>0, <3>1 DEF PutRequests
        <5> QED BY <1>0, <1>18, <3>1, <4>2, <5>1 DEF TargetsOK
      <4> QED BY <4>1, <4>2
    <3> QED BY <1>0, <1>18, <3>1 DEF TargetsOK
  <2>2. c # agent.conn => down'[c] = <<>>
    BY <1>0, <1>18 DEF LinkOK
  <2>3. handler[c].pc # "none" /\ handler'[c].pc \notin {"hello", "none", "welcome"}
    BY <1>18
  <2> QED BY <1>15, <1>18, <2>0, <2>1, <2>2, <2>3
<1>19. ASSUME NEW c \in Conns, handler[c].pc \notin {"none", "hello"} PROVE up[c] \in Seq(Samples)
  BY <1>0, <1>19 DEF LinkOK
<1>20. ASSUME NEW c \in Conns, Register(c) PROVE Links'
  <2>1. /\ handler[c].pc = "register" /\ handler'[c].pc \in {"close", "serve"} /\ registered' = c
        /\ \A d \in Conns : d # c => handler'[d] = handler[d]
        /\ UNCHANGED <<agent, put, down, up, ends>>
    BY <1>0, <1>20 DEF Register, Handlers, net
  <2> QED BY <1>18, <1>19, <2>1
<1>21. ASSUME NEW c \in Conns, CloseOld(c) PROVE Links'
  <2>1. /\ handler[c].pc = "close" /\ handler'[c].pc = "serve"
        /\ \A d \in Conns : d # c => handler'[d] = handler[d]
        /\ UNCHANGED <<agent, put, down, up, registered>>
    BY <1>0, <1>21 DEF CloseOld, Handlers
  <2>2. \A d \in Conns : ends[d] \subseteq ends'[d]
    BY <1>0, <1>21 DEF CloseOld, Closed
  <2> QED BY <1>18, <1>19, <2>1, <2>2
<1>22. ASSUME NEW c \in Conns, TakeSample(c) PROVE Links'
  <2>1. handler[c].pc = "serve" /\ up[c] # <<>> /\ up[c] \in Seq(Samples)
    BY <1>19, <1>22 DEF TakeSample
  <2>2. Head(up[c]) \in Samples /\ Tail(up[c]) \in Seq(Samples)
    BY <2>1, QueueTail
  <2>3. /\ up'[c] = Tail(up[c]) /\ (\A d \in Conns : d # c => up'[d] = up[d])
        /\ UNCHANGED <<agent, put, down, ends, registered>>
    BY <1>0, <1>22 DEF TakeSample
  <2>4. /\ handler'[c].pc \in {"serve", "insert"} /\ (handler'[c].pc = "insert" => handler'[c].sample = Head(up[c]))
        /\ \A d \in Conns : d # c => handler'[d] = handler[d]
    BY <1>0, <1>22 DEF TakeSample, Handlers
  <2> QED BY <1>18, <2>1, <2>2, <2>3, <2>4
<1>23. ASSUME NEW c \in Conns, InsertSample(c) PROVE Links'
  <2>1. /\ handler[c].pc = "insert" /\ handler'[c].pc = "serve"
        /\ \A d \in Conns : d # c => handler'[d] = handler[d]
        /\ UNCHANGED <<agent, put, down, up, ends, registered>>
    BY <1>0, <1>23 DEF InsertSample, Handlers, net
  <2> QED BY <1>18, <1>19, <2>1
<1>24. ASSUME NEW c \in Conns, HandlerEnds(c) PROVE Links'
  <2>1. /\ handler[c].pc \in {"hello", "serve", "welcome"} /\ handler'[c].pc = "none"
        /\ \A d \in Conns : d # c => handler'[d] = handler[d] /\ up'[d] = up[d]
        /\ UNCHANGED <<agent, put, down>>
        /\ registered' = IF handler[c].pc = "serve" THEN Unregistered(c) ELSE registered
    BY <1>0, <1>24, Rests DEF HandlerEnds, Idle
  <2>2. \A d \in Conns : ends[d] \subseteq ends'[d]
    BY <1>0, <1>24 DEF HandlerEnds, Closed
  <2>3. RegisteredOK'
    <3>1. registered' # c
      BY <1>0, <2>1 DEF RegisteredOK, Unregistered
    <3>2. registered' \in {registered, None}
      BY <2>1 DEF Unregistered
    <3> QED BY <1>0, <2>1, <3>1, <3>2 DEF RegisteredOK, HubOK
  <2>4. TargetsOK'
    BY <1>0, <2>1 DEF TargetsOK, PutRequests
  <2>5. c # agent.conn => down'[c] = <<>>
    BY <1>0, <2>1 DEF LinkOK
  <2> QED BY <1>15, <2>1, <2>2, <2>3, <2>4, <2>5
\* The steps of the settings page.
<1>25. ASSUME NEW p \in Puts, UNCHANGED <<agent, handler, up, ends, registered>>,
              \A q \in Puts : q # p => put'[q] = put[q],
              put'[p].target # None => put'[p].target = registered,
              put'[p].pc \in {"store", "apply", "push"} => put'[p].val \in Intervals,
              \A c \in Conns : down'[c] = down[c] \/ (c = agent.conn /\ put[p].target = c)
       PROVE  Links'
  <2>1. RegisteredOK' /\ TargetsOK'
    BY <1>0, <1>25 DEF RegisteredOK, TargetsOK
  <2>2. ASSUME NEW c \in Conns PROVE LinkOK(c)'
    <3>1. LinkOK(c)
      BY <1>0
    <3>2. ASSUME put'[p].target = c PROVE handler[c].pc # "none"
      BY <1>0, <1>25, <3>2 DEF RegisteredOK
    <3>3. (\E q \in Puts : put'[q].target = c) => (handler[c].pc # "none" \/ \E q \in Puts : put[q].target = c)
      BY <1>25, <3>2
    <3>4. put[p].target = c => handler[c].pc \notin {"hello", "welcome"}
      BY <1>0 DEF TargetsOK
    <3> QED BY <1>25, <3>1, <3>3, <3>4 DEF LinkOK
  <2> QED BY <2>1, <2>2 DEF Links
<1>26. ASSUME NEW p \in Puts, NEW v \in Intervals, PutRead(p, v) PROVE Links'
  <2>1. put'[p].target = None /\ put'[p].val = v /\ \A q \in Puts : q # p => put'[q] = put[q]
    BY <1>0, <1>26 DEF PutRead, NoPut
  <2>2. UNCHANGED <<agent, handler, up, down, ends, registered>>
    BY <1>26 DEF PutRead, net
  <2> QED BY <1>25, <2>1, <2>2
<1>27. ASSUME NEW p \in Puts, PutStore(p) PROVE Links'
  <2>1. /\ put'[p].target = put[p].target /\ put'[p].val = put[p].val /\ put[p].pc = "store"
        /\ \A q \in Puts : q # p => put'[q] = put[q]
        /\ put'[p].pc \in {"done", "apply"}
    BY <1>0, <1>27 DEF PutStore, PutRequests
  <2>2. UNCHANGED <<agent, handler, up, down, ends, registered>>
    BY <1>27 DEF PutStore, net
  <2>3. ASSUME NEW c \in Conns PROVE LinkOK(c)'
    <3>1. LinkOK(c) /\ \A q \in Puts : put'[q].target = put[q].target
      BY <1>0, <2>1
    <3> QED BY <2>2, <3>1 DEF LinkOK
  <2>4. TargetsOK'
    BY <1>0, <2>1, <2>2 DEF TargetsOK
  <2> QED BY <1>1, <2>2, <2>3, <2>4 DEF Links
<1>28. ASSUME NEW p \in Puts, PutApply(p) PROVE Links'
  <2>1. /\ put'[p].target = registered /\ put'[p].val = put[p].val /\ put[p].pc = "apply"
        /\ \A q \in Puts : q # p => put'[q] = put[q]
    BY <1>0, <1>28 DEF PutApply, PutRequests
  <2>2. UNCHANGED <<agent, handler, up, down, ends, registered>>
    BY <1>28 DEF PutApply, net
  <2>3. put'[p].val \in Intervals
    BY <1>0, <2>1 DEF TargetsOK
  <2> QED BY <1>25, <2>1, <2>2, <2>3
<1>29. ASSUME NEW p \in Puts, PutPush(p) PROVE Links'
  <2>1. put'[p].target = None /\ put'[p].pc = "done" /\ \A q \in Puts : q # p => put'[q] = put[q]
    BY <1>0, <1>29 DEF PutPush, NoPut
  <2>2. UNCHANGED <<agent, handler, up, ends, registered>>
    BY <1>29 DEF PutPush
  <2>3. ASSUME NEW c \in Conns, down'[c] # down[c] PROVE c = agent.conn /\ put[p].target = c
    <3>1. put[p].target = c /\ Whole(c)
      BY <1>0, <1>29, <2>3 DEF PutPush
    <3> QED BY <1>0, <3>1 DEF Whole, LinkOK
  <2> QED BY <1>25, <2>1, <2>2, <2>3
<1>31. ASSUME NEW p \in Puts, PutFails(p) PROVE Links'
  <2>1. put'[p].target = None /\ put'[p].pc = "done" /\ \A q \in Puts : q # p => put'[q] = put[q]
    BY <1>0, <1>31 DEF PutFails, NoPut
  <2>2. UNCHANGED <<agent, handler, up, down, ends, registered>>
    BY <1>31 DEF PutFails, net
  <2> QED BY <1>25, <2>1, <2>2
<1>30. CASE UNCHANGED vars
  <2>1. ASSUME NEW c \in Conns PROVE LinkOK(c)'
    BY <1>0, <1>30 DEF LinkOK, vars, net, hub
  <2> QED BY <1>1, <1>2, <1>30, <2>1 DEF Links, vars, net, hub
<1> QED BY <1>3, <1>6, <1>7, <1>8, <1>10, <1>11, <1>12, <1>13, <1>14, <1>16, <1>17, <1>20, <1>21, <1>22, <1>23,
           <1>24, <1>26, <1>27, <1>28, <1>29, <1>30, <1>31
        DEF Next, AgentSteps, HandlerSteps, PutSteps

-----------------------------------------------------------------------------
(* Served connections are registered or closed. *)

Served(c) == handler[c].pc \in {"close", "serve", "insert"}
Leaving(c) == "hub" \in ends[c] \/ \E d \in Conns : handler[d].pc = "close" /\ handler[d].old = c

\* Who is replaced is registered until it is closed.
LEMMA ZombieStays ==
  ASSUME TypeOK, Memory, Links, NoZombie, [Next]_vars
  PROVE  NoZombie'
<1> USE Constants
<1>0. /\ NetOK /\ HubOK /\ DOMAIN handler = Conns /\ DOMAIN ends = Conns
      /\ \A c \in Conns : handler[c] \in Handlers
      /\ \A c \in Conns : Served(c) /\ c # registered => Leaving(c)
      /\ registered # None => Served(registered)
  BY TypeParts DEF NetOK, HubOK, Links, RegisteredOK, NoZombie, Served, Leaving
<1>1. SUFFICES \A c \in Conns : Served(c)' /\ c # registered' => Leaving(c)'
  BY DEF NoZombie, Served, Leaving
<1> DEFINE Goal == \A c \in Conns : Served(c)' /\ c # registered' => Leaving(c)'
\* A step that disturbs neither the handlers nor the registration, and reopens nothing.
<1>2. ASSUME UNCHANGED <<handler, registered>>, \A c \in Conns : ends[c] \subseteq ends'[c] PROVE Goal
  BY <1>0, <1>2 DEF Served, Leaving
<1>4. ASSUME NEW c \in Conns, Dial(c) PROVE Goal
  <2>1. /\ handler[c].pc = "none" /\ handler'[c].pc = "hello" /\ \A d \in Conns \ {c} : handler'[d] = handler[d]
        /\ \A d \in Conns \ {c} : ends'[d] = ends[d]
        /\ UNCHANGED registered
    BY <1>0, <1>4 DEF Dial, Free, Handlers
  <2> QED BY <1>0, <2>1 DEF Served, Leaving
<1>5. ASSUME Welcome \/ Receive \/ Reconfigured \/ Cut \/ (\E s \in Samples : Send(s))
             \/ (\E p \in Puts : PutSteps(p) \/ \E v \in Intervals : PutRead(p, v)) \/ UNCHANGED vars
      PROVE  Goal
  <2>1. UNCHANGED <<handler, registered, ends>>
    BY <1>5 DEF Welcome, Receive, Reconfigured, Cut, Send, PutSteps, PutStore, PutFails, PutApply, PutPush, PutRead,
                vars, net, hub
  <2> QED BY <1>2, <2>1
<1>6. ASSUME (\E s \in Samples : SendFails(s)) \/ LinkLost \/ AgentRestart PROVE Goal
  <2>1. UNCHANGED <<handler, registered>>
    BY <1>6 DEF SendFails, LinkLost, AgentRestart, hub
  <2>2. \A c \in Conns : ends[c] \subseteq ends'[c]
    BY <1>0, <1>6 DEF SendFails, LinkLost, AgentRestart, EndSession, Closed
  <2> QED BY <1>2, <2>1, <2>2
<1>7. CASE HubRestart
  <2>1. \A c \in Conns : handler'[c].pc = "none"
    BY <1>0, <1>7 DEF HubRestart, Idle
  <2> QED BY <2>1 DEF Served
<1>8. ASSUME NEW c \in Conns, ~Served(c), handler'[c].pc \in {"welcome", "register"},
             \A d \in Conns \ {c} : handler'[d] = handler[d], UNCHANGED <<ends, registered>>
      PROVE  Goal
  BY <1>0, <1>8 DEF Served, Leaving
<1>9. ASSUME NEW c \in Conns, ReadHello(c) \/ WriteWelcome(c) PROVE Goal
  <2>1. /\ handler[c].pc \in {"hello", "welcome"} /\ handler'[c].pc \in {"welcome", "register"}
        /\ \A d \in Conns \ {c} : handler'[d] = handler[d]
        /\ UNCHANGED <<ends, registered>>
    BY <1>0, <1>9 DEF ReadHello, WriteWelcome, Handlers
  <2> QED BY <1>8, <2>1 DEF Served
<1>10. ASSUME NEW c \in Conns, Register(c) PROVE Goal
  <2>1. /\ handler[c].pc = "register" /\ registered' = c /\ UNCHANGED ends
        /\ handler'[c].pc = (IF registered = None THEN "serve" ELSE "close")
        /\ handler'[c].old = registered
        /\ \A d \in Conns \ {c} : handler'[d] = handler[d]
    BY <1>0, <1>10 DEF Register, Handlers, net
  <2>2. ASSUME NEW d \in Conns, Served(d)', d # c PROVE Leaving(d)'
    <3>1. Served(d) /\ handler'[d] = handler[d]
      BY <2>1, <2>2 DEF Served
    <3>2. CASE d = registered
      <4>1. handler'[c].pc = "close" /\ handler'[c].old = d
        BY <1>0, <2>1, <2>2, <3>2
      <4> QED BY <4>1 DEF Leaving
    <3>3. CASE d # registered
      <4>1. Leaving(d)
        BY <1>0, <3>1, <3>3
      <4>2. \A e \in Conns : handler[e].pc = "close" => e # c
        BY <2>1
      <4> QED BY <2>1, <4>1, <4>2 DEF Leaving
    <3> QED BY <3>2, <3>3
  <2> QED BY <2>1, <2>2
<1>11. ASSUME NEW c \in Conns, CloseOld(c) PROVE Goal
  <2>1. /\ handler[c].pc = "close" /\ handler'[c].pc = "serve" /\ UNCHANGED registered
        /\ \A d \in Conns \ {c} : handler'[d] = handler[d]
        /\ ends' = Closed(handler[c].old, "hub")
    BY <1>0, <1>11 DEF CloseOld, Handlers
  <2>2. /\ \A d \in Conns : ends[d] \subseteq ends'[d]
        /\ \A d \in Conns : d = handler[c].old => "hub" \in ends'[d]
    BY <1>0, <2>1 DEF Closed
  <2>3. ASSUME NEW d \in Conns, Served(d)', d # registered' PROVE Leaving(d)'
    <3>1. Served(d) /\ d # registered
      BY <2>1, <2>3 DEF Served
    <3>2. Leaving(d)
      BY <1>0, <3>1
    <3> QED BY <2>1, <2>2, <3>2 DEF Leaving
  <2> QED BY <2>3
<1>12. ASSUME NEW c \in Conns, TakeSample(c) \/ InsertSample(c) PROVE Goal
  <2>1. /\ handler[c].pc \in {"serve", "insert"} /\ handler'[c].pc \in {"serve", "insert"}
        /\ \A d \in Conns \ {c} : handler'[d] = handler[d]
        /\ UNCHANGED <<ends, registered>>
    BY <1>0, <1>12 DEF TakeSample, InsertSample, Handlers, net
  <2> QED BY <1>0, <2>1 DEF Served, Leaving
<1>13. ASSUME NEW c \in Conns, HandlerEnds(c) PROVE Goal
  <2>1. /\ handler[c].pc \in {"hello", "serve", "welcome"} /\ handler'[c].pc = "none"
        /\ \A d \in Conns \ {c} : handler'[d] = handler[d]
        /\ registered' = IF handler[c].pc = "serve" THEN Unregistered(c) ELSE registered
    BY <1>0, <1>13, Rests DEF HandlerEnds, Idle
  <2>2. \A d \in Conns : ends[d] \subseteq ends'[d]
    BY <1>0, <1>13 DEF HandlerEnds, Closed
  <2>3. registered' = registered \/ registered = c
    BY <2>1 DEF Unregistered
  <2>4. ASSUME NEW d \in Conns, Served(d)', d # registered' PROVE Leaving(d)'
    <3>1. d # c /\ Served(d)
      BY <2>1, <2>4 DEF Served
    <3>2. d # registered
      BY <2>3, <2>4, <3>1
    <3>3. Leaving(d)
      BY <1>0, <3>1, <3>2
    <3> QED BY <2>1, <2>2, <3>3 DEF Leaving
  <2> QED BY <2>4
<1> QED BY <1>4, <1>5, <1>6, <1>7, <1>9, <1>10, <1>11, <1>12, <1>13 DEF Next, AgentSteps, HandlerSteps

-----------------------------------------------------------------------------
(* The samples in order. *)

\* Samples are numbers, so that they compare.
LEMMA Numbers ==
  ASSUME TypeOK
  PROVE  /\ taken \in Nat
         /\ \A c \in Conns : \A i \in DOMAIN up[c] : i \in Nat /\ up[c][i] \in Nat /\ up[c] \in Seq(Samples \cup {Hello})
         /\ \A c \in Conns : handler[c].sample \in Nat \cup {None}
         /\ stored \subseteq Nat
<1> USE Constants
<1>1. /\ taken \in Nat /\ \A c \in Conns : up[c] \in Seq(Samples \cup {Hello})
      /\ \A c \in Conns : handler[c] \in Handlers
      /\ stored \subseteq Samples
  BY TypeParts DEF AgentOK, NetOK, HubOK
<1>2. Samples \subseteq Nat /\ Hello \in Nat
  BY DEF Samples, Hello
<1>3. ASSUME NEW c \in Conns, NEW i \in DOMAIN up[c] PROVE i \in Nat /\ up[c][i] \in Nat
  <2>1. up[c] \in Seq(Samples \cup {Hello})
    BY <1>1
  <2>2. DOMAIN up[c] = 1..Len(up[c]) /\ Len(up[c]) \in Nat
    BY <2>1, LenProperties
  <2>3. up[c][i] \in Samples \cup {Hello}
    BY <2>1, <2>2
  <2>4. i \in Nat
    BY <2>2
  <2>5. up[c][i] \in Nat
    BY <1>2, <2>3
  <2> QED BY <2>4, <2>5
<1>4. \A c \in Conns : handler[c].sample \in Nat \cup {None}
  BY <1>1, <1>2 DEF Handlers
<1> QED BY <1>1, <1>2, <1>3, <1>4

\* What only disappears leaves the order.
LEMMA OrderKept ==
  ASSUME TypeOK, Ordered, UNCHANGED <<taken, stored>>,
         \A c \in Conns : up'[c] \in {up[c], <<>>} /\ handler'[c].sample \in {handler[c].sample, None},
         \A c \in Conns : c = agent'.conn /\ handler'[c].pc # "hello" =>
                            (c = agent.conn /\ handler[c].pc # "hello") \/ up'[c] = <<>>
  PROVE  Ordered'
<1>0. DOMAIN <<>> = {}
  OBVIOUS
<1>1. Bounds'
  BY <1>0 DEF Bounds, Ordered
<1>2. ASSUME NEW c \in Conns, c = agent'.conn, handler'[c].pc # "hello" PROVE Ascends(c)'
  <2>1. CASE up'[c] = <<>>
    BY <1>0, <2>1 DEF Ascends
  <2>2. CASE up'[c] = up[c] /\ c = agent.conn /\ handler[c].pc # "hello"
    <3>1. Ascends(c)
      BY <2>2 DEF Ordered
    <3>2. Before(c)' \subseteq Before(c) \cup {None}
      BY <1>0 DEF Before
    <3> QED BY <2>2, <3>1, <3>2 DEF Ascends
  <2> QED BY <1>2, <2>1, <2>2
<1> QED BY <1>1, <1>2 DEF Ordered

\* Where what went before a queue is.
LEMMA BeforeIs ==
  ASSUME NEW c, NEW x
  PROVE  x \in Before(c) <=> \/ x \in stored
                             \/ \E d \in Conns : x = handler[d].sample
                             \/ \E d \in Conns \ {c} : \E i \in DOMAIN up[d] : x = up[d][i]
  BY DEF Before

\* The same after a step.
LEMMA BeforeWillBe ==
  ASSUME NEW c, NEW x
  PROVE  x \in Before(c)' <=> \/ x \in stored'
                              \/ \E d \in Conns : x = handler'[d].sample
                              \/ \E d \in Conns \ {c} : \E i \in DOMAIN up'[d] : x = up'[d][i]
  BY DEF Before

\* The replay goes out before a fresh sample, and a fresh sample is newer than all.
LEMMA OrderStays ==
  ASSUME TypeOK, Memory, Links, Ordered, [Next]_vars
  PROVE  Ordered'
<1> USE Constants
<1>0. /\ AgentOK /\ NetOK /\ HubOK /\ agent \in Agents /\ agent.conn \in Conns \cup {None} /\ None \notin Conns
      /\ DOMAIN handler = Conns /\ DOMAIN up = Conns
      /\ \A c \in Conns : handler[c] \in Handlers /\ LinkOK(c)
      /\ Bounds /\ (\A c \in Conns : c = agent.conn /\ handler[c].pc # "hello" => Ascends(c))
  BY TypeParts DEF AgentOK, NetOK, HubOK, Agents, Links, Ordered
<1>a. DOMAIN <<>> = {}
  OBVIOUS
<1>1. ASSUME UNCHANGED <<taken, stored, handler, up>>, agent'.conn \in {agent.conn, None} PROVE Ordered'
  BY <1>0, <1>1, OrderKept
<1>2. ASSUME NEW c \in Conns, Dial(c) PROVE Ordered'
  <2>1. /\ agent'.conn = c /\ handler'[c].pc = "hello" /\ up'[c] = <<Hello>>
        /\ \A d \in Conns \ {c} : up'[d] = up[d]
        /\ \A d \in Conns : handler'[d].sample = handler[d].sample
        /\ UNCHANGED <<taken, stored>>
    BY <1>0, <1>2 DEF Dial, Agents, Handlers
  <2>2. \A i \in DOMAIN <<Hello>> : <<Hello>>[i] <= taken
    <3>1. DOMAIN <<Hello>> = {1} /\ <<Hello>>[1] = 0
      BY DEF Hello
    <3> QED BY <3>1, Numbers
  <2>3. Bounds'
    BY <1>0, <2>1, <2>2 DEF Bounds
  <2> QED BY <2>1, <2>3 DEF Ordered
<1>3. CASE Welcome \/ Receive \/ Reconfigured \/ LinkLost \/ AgentRestart
  <2>1. UNCHANGED <<taken, stored, handler, up>>
    BY <1>3 DEF Welcome, Receive, Reconfigured, LinkLost, AgentRestart, hub, net
  <2>2. agent'.conn \in {agent.conn, None}
    <3>1. CASE Welcome
      BY <1>0, <3>1 DEF Welcome, Drained, Agents
    <3>2. CASE Receive \/ Reconfigured
      BY <1>0, <3>2 DEF Receive, Reconfigured, Agents
    <3>3. CASE LinkLost
      BY <1>0, <3>3 DEF LinkLost, EndSession, Agents
    <3>4. CASE AgentRestart
      BY <3>4 DEF AgentRestart, Fresh
    <3> QED BY <1>3, <3>1, <3>2, <3>3, <3>4
  <2> QED BY <1>1, <2>1, <2>2
\* What is sent is no older than anything.
<1>4. ASSUME NEW c \in Conns, NEW s \in Samples, c = agent.conn, taken' = s, s >= taken,
             up' \in {up, [up EXCEPT ![c] = Append(@, s)]}, UNCHANGED <<stored, handler>>
      PROVE  Bounds' /\ (handler[c].pc # "hello" => Ascends(c)')
  <2>0. /\ s \in Nat /\ taken \in Nat /\ stored \subseteq Nat
        /\ \A d \in Conns : \A i \in DOMAIN up[d] : i \in Nat /\ up[d][i] \in Nat /\ up[d][i] <= s
        /\ \A d \in Conns : handler[d].sample # None => handler[d].sample <= s
        /\ \A x \in stored : x <= s
    <3>1. s \in Nat
      BY DEF Samples
    <3> QED BY <1>0, <1>4, <3>1, Numbers DEF Bounds
  <2>1. \A d \in Conns \ {c} : up'[d] = up[d]
    BY <1>0, <1>4
  <2>2. CASE up' = up
    <3>1. Bounds'
      BY <1>4, <2>0, <2>2 DEF Bounds
    <3>2. handler[c].pc # "hello" => Ascends(c)'
      <4>1. Before(c)' = Before(c)
        BY <1>4, <2>2 DEF Before
      <4> QED BY <1>0, <1>4, <2>2, <4>1 DEF Ascends
    <3> QED BY <3>1, <3>2
  <2>3. CASE up'[c] = Append(up[c], s)
    <3>1. /\ \A i \in DOMAIN up'[c] :
               i \in Nat /\ ((i \in DOMAIN up[c] /\ up'[c][i] = up[c][i]) \/ (i = Len(up[c]) + 1 /\ up'[c][i] = s))
          /\ DOMAIN up[c] = 1..Len(up[c]) /\ Len(up[c]) \in Nat
      <4>1. up[c] \in Seq(Samples \cup {Hello}) /\ s \in Samples \cup {Hello}
        BY <1>0 DEF NetOK
      <4> QED BY <2>3, <4>1, QueueAppend, LenProperties
    <3>2. Bounds'
      <4>1. ASSUME NEW d \in Conns, NEW i \in DOMAIN up'[d] PROVE up'[d][i] <= s
        <5>1. CASE d = c
          BY <2>0, <3>1, <4>1, <5>1
        <5>2. CASE d # c
          BY <2>0, <2>1, <4>1, <5>2
        <5> QED BY <5>1, <5>2
      <4> QED BY <1>4, <2>0, <4>1 DEF Bounds
    <3>3. ASSUME handler[c].pc # "hello" PROVE Ascends(c)'
      <4>1. Before(c)' = Before(c) /\ Ascends(c)
        BY <1>0, <1>4, <2>1, <3>3 DEF Before
      <4>2. \A x \in Before(c) \ {None} : x <= s
        <5>1. ASSUME NEW x \in Before(c), x # None PROVE x <= s
          <6>1. CASE x \in stored
            BY <2>0, <6>1
          <6>2. CASE \E d \in Conns : x = handler[d].sample
            BY <2>0, <5>1, <6>2
          <6>3. CASE \E d \in Conns \ {c} : \E i \in DOMAIN up[d] : x = up[d][i]
            BY <2>0, <6>3
          <6> QED BY <5>1, <6>1, <6>2, <6>3, BeforeIs
        <5> QED BY <5>1
      <4>3. ASSUME NEW i \in DOMAIN up'[c], NEW j \in DOMAIN up'[c], i <= j PROVE up'[c][i] <= up'[c][j]
        <5>1. CASE j \in DOMAIN up[c] /\ up'[c][j] = up[c][j]
          <6>1. i \in DOMAIN up[c] /\ up'[c][i] = up[c][i]
            BY <3>1, <4>3, <5>1
          <6> QED BY <4>1, <4>3, <5>1, <6>1 DEF Ascends
        <5>2. CASE up'[c][j] = s
          <6>1. CASE up'[c][i] = s
            BY <2>0, <5>2, <6>1
          <6>2. CASE i \in DOMAIN up[c] /\ up'[c][i] = up[c][i]
            BY <2>0, <5>2, <6>2
          <6> QED BY <3>1, <6>1, <6>2
        <5> QED BY <3>1, <5>1, <5>2
      <4>4. ASSUME NEW i \in DOMAIN up'[c], NEW x \in Before(c) \ {None} PROVE x <= up'[c][i]
        <5>1. CASE i \in DOMAIN up[c] /\ up'[c][i] = up[c][i]
          BY <4>1, <5>1 DEF Ascends
        <5>2. CASE up'[c][i] = s
          BY <4>2, <5>2
        <5> QED BY <3>1, <5>1, <5>2
      <4> QED BY <4>1, <4>3, <4>4 DEF Ascends
    <3> QED BY <3>2, <3>3
  <2> QED BY <1>0, <1>4, <2>2, <2>3
<1>5. ASSUME NEW s \in Samples, Send(s) PROVE Ordered'
  <2>1. s \in Outgoing
    BY <1>5 DEF Send
  <2>2. agent.conn \in Conns /\ s \in {taken, taken + 1} /\ taken \in Nat
    BY <2>1, Sends, Numbers
  <2>3. taken' = s /\ s >= taken
    BY <1>5, <2>2 DEF Send
  <2>4. /\ up' \in {up, [up EXCEPT ![agent.conn] = Append(@, s)]}
        /\ UNCHANGED <<stored, handler>> /\ agent'.conn = agent.conn
    BY <1>0, <1>5 DEF Send, hub, Agents
  <2> QED BY <1>4, <2>2, <2>3, <2>4 DEF Ordered
<1>6. ASSUME NEW s \in Samples, SendFails(s) PROVE Ordered'
  <2>1. s \in Outgoing /\ EndSession(Pushed(s))
    BY <1>6 DEF SendFails
  <2>2. agent.conn \in Conns /\ s \in {taken, taken + 1} /\ taken \in Nat
    BY <2>1, Sends, Numbers
  <2>3. taken' = s /\ s >= taken
    BY <1>6, <2>2 DEF SendFails
  <2>4. /\ up' \in {up, [up EXCEPT ![agent.conn] = Append(@, s)]}
        /\ UNCHANGED <<stored, handler>> /\ agent'.conn = None
    BY <1>0, <1>6, <2>1 DEF SendFails, EndSession, hub, Agents
  <2>5. Bounds'
    BY <1>4, <2>2, <2>3, <2>4
  <2> QED BY <1>0, <2>4, <2>5 DEF Ordered
<1>7. CASE Cut
  <2>1. \A c \in Conns : up'[c] \in {up[c], <<>>}
    BY <1>0, <1>7 DEF Cut
  <2>2. UNCHANGED <<taken, stored, handler, agent>>
    BY <1>7 DEF Cut, hub
  <2> QED BY <2>1, <2>2, OrderKept
<1>8. CASE HubRestart
  <2>1. \A c \in Conns : up'[c] = <<>> /\ handler'[c].sample = None
    BY <1>0, <1>8 DEF HubRestart, Idle
  <2>2. UNCHANGED <<taken, stored, agent>>
    BY <1>8 DEF HubRestart
  <2> QED BY <2>1, <2>2, OrderKept
<1>9. ASSUME NEW c \in Conns, ReadHello(c) PROVE Ordered'
  <2>1. up'[c] = <<>>
    <3>1. up[c] = <<Hello>>
      BY <1>0, <1>9 DEF ReadHello, LinkOK
    <3>2. Tail(<<Hello>>) = <<>>
      BY Singles
    <3> QED BY <1>0, <1>9, <3>1, <3>2 DEF ReadHello
  <2>2. /\ \A d \in Conns \ {c} : up'[d] = up[d] /\ handler'[d] = handler[d]
        /\ handler'[c].sample = handler[c].sample /\ UNCHANGED <<taken, stored, agent>>
    BY <1>0, <1>9 DEF ReadHello, Handlers
  <2> QED BY <2>1, <2>2, OrderKept
<1>10. ASSUME NEW c \in Conns, WriteWelcome(c) \/ Register(c) \/ CloseOld(c) PROVE Ordered'
  <2>1. /\ \A d \in Conns : handler'[d].sample = handler[d].sample
        /\ handler[c].pc # "hello" /\ \A d \in Conns \ {c} : handler'[d] = handler[d]
        /\ UNCHANGED <<taken, stored, agent, up>>
    BY <1>0, <1>10 DEF WriteWelcome, Register, CloseOld, Handlers, net
  <2> QED BY <2>1, OrderKept
<1>11. ASSUME NEW c \in Conns, TakeSample(c) PROVE Ordered'
  <2>1. handler[c].pc = "serve" /\ up[c] # <<>> /\ up[c] \in Seq(Samples)
    BY <1>0, <1>11 DEF TakeSample, LinkOK
  <2>2. /\ up'[c] = Tail(up[c]) /\ (\A d \in Conns \ {c} : up'[d] = up[d] /\ handler'[d] = handler[d])
        /\ handler'[c].sample \in {handler[c].sample, up[c][1]} /\ handler'[c].pc # "hello"
        /\ UNCHANGED <<taken, stored, agent>>
    <3>1. Head(up[c]) = up[c][1]
      BY <2>1, QueueTail
    <3> QED BY <1>0, <1>11, <2>1, <3>1 DEF TakeSample, Handlers
  <2>3. /\ 1 \in DOMAIN up[c] /\ (\A i \in DOMAIN up[c] : i \in Nat /\ 1 <= i)
        /\ \A i \in DOMAIN up'[c] : i + 1 \in DOMAIN up[c] /\ up'[c][i] = up[c][i + 1] /\ i \in Nat
    <3>1. DOMAIN up[c] = 1..Len(up[c]) /\ Len(up[c]) \in Nat
      BY <2>1, LenProperties
    <3>2. \A i \in DOMAIN up[c] : i \in Nat /\ 1 <= i
      BY <3>1
    <3> QED BY <2>1, <2>2, <3>2, QueueTail
  <2>4. Bounds'
    <3>1. up[c][1] <= taken
      BY <1>0, <2>3 DEF Bounds
    <3>2. ASSUME NEW d \in Conns, NEW i \in DOMAIN up'[d] PROVE up'[d][i] <= taken
      <4>1. CASE d = c
        BY <1>0, <2>3, <3>2, <4>1 DEF Bounds
      <4>2. CASE d # c
        BY <1>0, <2>2, <3>2, <4>2 DEF Bounds
      <4> QED BY <4>1, <4>2
    <3>3. ASSUME NEW d \in Conns, handler'[d].sample # None PROVE handler'[d].sample <= taken
      BY <1>0, <2>2, <3>1, <3>3 DEF Bounds
    <3> QED BY <1>0, <2>2, <3>2, <3>3 DEF Bounds
  <2>5. ASSUME NEW e \in Conns, e = agent.conn, handler'[e].pc # "hello" PROVE Ascends(e)'
    <3>1. CASE e = c
      <4>1. Ascends(c)
        BY <1>0, <2>1, <2>5, <3>1
      <4>2. Before(c)' \subseteq Before(c) \cup {up[c][1]}
        <5>1. ASSUME NEW x \in Before(c)' PROVE x \in Before(c) \cup {up[c][1]}
          <6>1. CASE x \in stored'
            BY <2>2, <6>1, BeforeIs
          <6>2. CASE \E d \in Conns : x = handler'[d].sample
            BY <2>2, <6>2, BeforeIs
          <6>3. CASE \E d \in Conns \ {c} : \E i \in DOMAIN up'[d] : x = up'[d][i]
            BY <2>2, <6>3, BeforeIs
          <6>4. \/ x \in stored'
                \/ \E d \in Conns : x = handler'[d].sample
                \/ \E d \in Conns \ {c} : \E i \in DOMAIN up'[d] : x = up'[d][i]
            BY <5>1, BeforeWillBe
          <6> QED BY <6>1, <6>2, <6>3, <6>4
        <5> QED BY <5>1
      <4>3. ASSUME NEW i \in DOMAIN up'[c], NEW j \in DOMAIN up'[c], i <= j PROVE up'[c][i] <= up'[c][j]
        <5>1. i + 1 <= j + 1
          BY <2>3, <4>3
        <5> QED BY <2>3, <4>1, <5>1 DEF Ascends
      <4>4. ASSUME NEW i \in DOMAIN up'[c], NEW x \in Before(c)' \ {None} PROVE x <= up'[c][i]
        <5>1. up[c][1] <= up[c][i + 1] /\ up'[c][i] = up[c][i + 1]
          BY <2>3, <4>1 DEF Ascends
        <5>2. x \in Before(c) => x <= up[c][i + 1]
          BY <2>3, <4>1, <4>4 DEF Ascends
        <5> QED BY <4>2, <5>1, <5>2
      <4> QED BY <3>1, <4>3, <4>4 DEF Ascends
    <3>2. CASE e # c
      <4>1. Ascends(e) /\ up'[e] = up[e]
        BY <1>0, <2>2, <2>5, <3>2
      <4>2. \A d \in Conns : {up'[d][i] : i \in DOMAIN up'[d]} \subseteq {up[d][i] : i \in DOMAIN up[d]}
        <5>1. {up'[c][i] : i \in DOMAIN up'[c]} \subseteq {up[c][i] : i \in DOMAIN up[c]}
          BY <2>3
        <5>2. ASSUME NEW d \in Conns \ {c}
              PROVE  {up'[d][i] : i \in DOMAIN up'[d]} = {up[d][i] : i \in DOMAIN up[d]}
          <6>1. up'[d] = up[d]
            BY <2>2
          <6> QED BY <6>1
        <5> QED BY <5>1, <5>2
      <4>3. up[c][1] \in Before(e)
        BY <2>3, <3>2 DEF Before
      <4>4. {handler'[d].sample : d \in Conns} \subseteq {handler[d].sample : d \in Conns} \cup {up[c][1]}
        BY <2>2
      <4>5. Before(e)' \subseteq Before(e)
        BY <2>2, <4>2, <4>3, <4>4 DEF Before
      <4> QED BY <4>1, <4>5 DEF Ascends
    <3> QED BY <3>1, <3>2
  <2> QED BY <2>2, <2>4, <2>5 DEF Ordered
<1>12. ASSUME NEW c \in Conns, InsertSample(c) PROVE Ordered'
  <2>1. handler[c].pc = "insert" /\ handler[c].sample \in Samples /\ handler[c].sample # None
    <3>1. handler[c].pc = "insert" /\ handler[c].sample \in Samples
      BY <1>0, <1>12 DEF InsertSample, LinkOK
    <3> QED BY <3>1
  <2>2. /\ handler'[c].sample = None /\ (\A d \in Conns \ {c} : handler'[d] = handler[d])
        /\ stored' = stored \cup {handler[c].sample} /\ UNCHANGED <<taken, agent, up>>
    BY <1>0, <1>12 DEF InsertSample, Handlers, net
  <2>3. Bounds'
    BY <1>0, <2>1, <2>2 DEF Bounds
  <2>4. ASSUME NEW e \in Conns, e = agent.conn, handler'[e].pc # "hello" PROVE Ascends(e)'
    <3>1. Ascends(e)
      BY <1>0, <2>1, <2>2, <2>4
    <3>2. Before(e)' \subseteq Before(e) \cup {None}
      BY <2>2 DEF Before
    <3> QED BY <2>2, <3>1, <3>2 DEF Ascends
  <2> QED BY <2>2, <2>3, <2>4 DEF Ordered
<1>13. ASSUME NEW c \in Conns, HandlerEnds(c) PROVE Ordered'
  <2>1. /\ handler'[c].sample = None /\ up'[c] = <<>>
        /\ \A d \in Conns \ {c} : handler'[d] = handler[d] /\ up'[d] = up[d]
        /\ UNCHANGED <<taken, stored, agent>>
    BY <1>0, <1>13 DEF HandlerEnds, Idle
  <2> QED BY <2>1, OrderKept
<1>14. CASE (\E p \in Puts : PutSteps(p) \/ \E v \in Intervals : PutRead(p, v)) \/ UNCHANGED vars
  <2>1. UNCHANGED <<taken, stored, handler, up, agent>>
    BY <1>14 DEF PutSteps, PutStore, PutFails, PutApply, PutPush, PutRead, vars, net, hub
  <2> QED BY <1>1, <2>1
<1> QED BY <1>2, <1>3, <1>5, <1>6, <1>7, <1>8, <1>9, <1>10, <1>11, <1>12, <1>13, <1>14
        DEF Next, AgentSteps, HandlerSteps

-----------------------------------------------------------------------------
(* The theorems. *)

IInv == TypeOK /\ Memory /\ Links /\ UnsentIsKept /\ NoZombie /\ Ordered

\* The invariant of the module.
LEMMA Inductive ==
  Spec => []IInv
<1> USE Constants
<1>1. Init => IInv
  <2> SUFFICES ASSUME Init PROVE IInv
    OBVIOUS
  <2>0. DOMAIN <<>> = {} /\ <<>> \in Seq(Samples \cup {Hello}) /\ <<>> \in Seq(Intervals) /\ Len(<<>>) = 0
    OBVIOUS
  <2>1. /\ agent = Fresh /\ taken = 0 /\ registered = None /\ stored = {} /\ owed = {}
        /\ \A c \in Conns : up[c] = <<>> /\ down[c] = <<>> /\ handler[c] = Idle
        /\ \A p \in Puts : put[p] = NoPut
    BY DEF Init
  <2>2. AgentOK
    BY <2>0, <2>1, Rests DEF AgentOK
  <2>3. NetOK
    BY <2>0 DEF Init, NetOK
  <2>4. HubOK
    BY Rests DEF Init, HubOK
  <2>5. HistoryOK
    <3>1. faults = 0 /\ owed = {} /\ strays = {}
      BY DEF Init
    <3>2. 0 \in 0..MaxFaults
      OBVIOUS
    <3> QED BY <3>1, <3>2 DEF HistoryOK
  <2>6. TypeOK
    BY <2>2, <2>3, <2>4, <2>5, TypeParts
  <2>7. Memory
    BY <2>1 DEF Memory, Fresh, Newest
  <2>8. Links
    BY <2>1 DEF Links, RegisteredOK, TargetsOK, LinkOK, Fresh, Idle, NoPut
  <2>9. UnsentIsKept
    BY <2>1 DEF UnsentIsKept
  <2>10. NoZombie
    BY <2>1 DEF NoZombie, Idle
  <2>11. Ordered
    <3>1. \A c \in Conns : DOMAIN up[c] = {} /\ handler[c].sample = None
      BY <2>0, <2>1 DEF Idle
    <3>2. Bounds /\ \A c \in Conns : Ascends(c)
      BY <2>1, <3>1 DEF Bounds, Ascends
    <3> QED BY <3>2 DEF Ordered
  <2> QED BY <2>6, <2>7, <2>8, <2>9, <2>10, <2>11 DEF IInv
<1>2. IInv /\ [Next]_vars => IInv'
  BY TypesStay, MemoryStays, LinksStay, UnsentStays, ZombieStays, OrderStays DEF IInv
<1> QED BY <1>1, <1>2, PTL DEF Spec

\* Every variable has its type, for any number of connections, samples, faults
\* and requests; the inbox of the agent never holds more than its capacity.
THEOREM TypeCorrect == Spec => []TypeOK
<1>1. IInv => TypeOK
  BY DEF IInv
<1> QED BY <1>1, Inductive, PTL

\* What the agent could not send stays in its memory until it is sent, however
\* often the replay fails (link.go:165-231, buffer.go).
THEOREM UnsentAlwaysKept == Spec => []UnsentIsKept
<1>1. IInv => UnsentIsKept
  BY DEF IInv
<1> QED BY <1>1, Inductive, PTL

\* Of the sixty places of the agent's buffer one is ever used (link.go:41).
THEOREM OnePlaceUsed == Spec => []BufferOfOne
<1>1. IInv => BufferOfOne
  <2> SUFFICES ASSUME IInv PROVE BufferOfOne
    OBVIOUS
  <2>1. agent \in Agents /\ Memory
    BY TypeParts DEF IInv, AgentOK
  <2>2. Len(<<>>) = 0 /\ \A s \in Samples : Len(<<s>>) = 1
    BY Singles
  <2>3. \/ agent.plan = <<>> /\ Newest(agent.buf)
        \/ agent.buf = <<>> /\ Newest(agent.plan)
    BY <2>1 DEF Memory, Agents
  <2>4. \A q : Newest(q) => (Len(q) = 0 \/ Len(q) = 1)
    BY <2>2 DEF Newest
  <2>0. 0 + 0 <= 1 /\ 0 + 1 <= 1 /\ 1 + 0 <= 1
    OBVIOUS
  <2>5. CASE agent.plan = <<>> /\ Newest(agent.buf)
    <3>1. Len(agent.plan) = 0 /\ (Len(agent.buf) = 0 \/ Len(agent.buf) = 1)
      BY <2>2, <2>4, <2>5
    <3> QED BY <2>0, <3>1, Zenon DEF BufferOfOne
  <2>6. CASE agent.buf = <<>> /\ Newest(agent.plan)
    <3>1. Len(agent.buf) = 0 /\ (Len(agent.plan) = 0 \/ Len(agent.plan) = 1)
      BY <2>2, <2>4, <2>6
    <3> QED BY <2>0, <3>1, Zenon DEF BufferOfOne
  <2> QED BY <2>3, <2>5, <2>6
<1> QED BY <1>1, Inductive, PTL

\* A connection of the hub that serves is registered, closed, or about to be
\* closed by the one that replaced it (handler.go:178-196).
THEOREM NeverZombie == Spec => []NoZombie
<1>1. IInv => NoZombie
  BY DEF IInv
<1> QED BY <1>1, Inductive, PTL

\* A nonempty set of naturals has a least element, and Min is that element.
LEMMA MinIsLeast ==
  ASSUME NEW S, S \subseteq Nat, S # {}
  PROVE  Min(S) \in S /\ \A x \in S : Min(S) <= x
<1> DEFINE Less == OpToRel(<, Nat)
<1>1. PICK m \in S : \A y \in S : ~(<<y, m>> \in Less)
  <2> HIDE DEF Less
  <2>1. IsWellFoundedOn(Less, Nat)
    BY NatLessThanWellFounded, Zenon DEF Less
  <2> QED BY <2>1, WFMin, Zenon
<1>2. \A y \in S : m <= y
  <2> SUFFICES ASSUME NEW y \in S, y < m PROVE FALSE
    OBVIOUS
  <2>1. <<y, m>> \in Nat \X Nat
    OBVIOUS
  <2>2. <<y, m>>[1] = y /\ <<y, m>>[2] = m
    OBVIOUS
  <2>3. <<y, m>> \in Less
    BY <2>1, <2>2 DEF OpToRel
  <2> QED BY <1>1, <2>3
<1> QED BY <1>2 DEF Min

\* A nonempty set of integers below a bound has a greatest element, and Max is
\* that element.
LEMMA MaxIsGreatest ==
  ASSUME NEW n \in Nat, NEW S, S \subseteq 0..n, S # {}
  PROVE  Max(S) \in S /\ \A x \in S : x <= Max(S)
<1> DEFINE Mirror == {n - x : x \in S}
<1>1. Mirror \subseteq Nat /\ Mirror # {}
  <2>1. \A x \in S : n - x \in Nat
    OBVIOUS
  <2> QED BY <2>1
<1>2. Min(Mirror) \in Mirror /\ \A y \in Mirror : Min(Mirror) <= y
  <2> HIDE DEF Mirror
  <2> QED BY <1>1, MinIsLeast
<1>3. PICK g \in S : Min(Mirror) = n - g
  BY <1>2
<1>4. \A y \in S : g >= y
  <2> SUFFICES ASSUME NEW y \in S PROVE g >= y
    OBVIOUS
  <2>1. n - y \in Mirror
    OBVIOUS
  <2>2. n - g <= n - y
    BY <1>2, <1>3, <2>1
  <2> QED BY <2>2
<1>5. Max(S) \in S /\ \A y \in S : Max(S) >= y
  BY <1>4 DEF Max
<1> QED BY <1>5

\* On the connection the agent is using the hub refuses as stale only samples it
\* has stored, whatever older connections still deliver (handler.go:155-170).
THEOREM RefusedAlwaysStored == Spec => []RefusedIsStored
<1>1. IInv => RefusedIsStored
  <2> SUFFICES ASSUME IInv, NEW c \in Conns, c = agent.conn, handler[c].pc = "serve", up[c] # <<>>,
                      stored # {}, Head(up[c]) <= Max(stored)
               PROVE  Head(up[c]) \in stored
    BY DEF RefusedIsStored, Refused
  <2>1. Ascends(c) /\ LinkOK(c) /\ TypeOK
    BY DEF IInv, Ordered, Links
  <2>2. up[c] \in Seq(Samples)
    BY <2>1 DEF LinkOK
  <2>3. Head(up[c]) = up[c][1] /\ 1 \in DOMAIN up[c] /\ Head(up[c]) \in Samples
    BY <2>2, QueueTail
  <2>4. stored \subseteq Samples
    BY <2>1, TypeParts DEF HubOK
  <2>5. Max(stored) \in stored
    <3>1. MaxSamples \in Nat /\ stored \subseteq 0..MaxSamples
      BY <2>4, Constants DEF Samples
    <3> QED BY <3>1, MaxIsGreatest
  <2>6. Max(stored) \in Before(c) \ {None}
    BY <2>4, <2>5, BeforeIs, Constants
  <2>7. Max(stored) <= Head(up[c])
    BY <2>1, <2>3, <2>6 DEF Ascends
  <2>8. Max(stored) \in Nat /\ Head(up[c]) \in Nat
    <3>1. Samples \subseteq Nat
      BY DEF Samples
    <3> QED BY <2>3, <2>4, <2>5, <3>1
  <2>9. Max(stored) = Head(up[c])
    BY <2>7, <2>8
  <2> QED BY <2>5, <2>9
<1> QED BY <1>1, Inductive, PTL

-----------------------------------------------------------------------------
(* The interval the agent is told. *)

\* The last message of a queue, or what came before it.
Latest(q, before) == IF q = <<>> THEN before ELSE q[Len(q)]

\* The interval the agent will have when it has read what is on its way.
LastHeard(c) == Latest(down[c], Latest(agent.inbox, agent.interval))

Active(p) == put[p].pc \in {"store", "apply", "push"}

\* Requests that do not meet: one at a time, which knows the setting; the
\* configuration is the setting but for the one that has yet to apply it, or
\* that failed before it did.
OneRequest ==
  None \notin strays =>
    /\ \A p, q \in Puts : Active(p) /\ Active(q) => p = q
    /\ \A p \in Puts : /\ put[p].pc = "store" => put[p].prev = setting
                       /\ put[p].pc \in {"apply", "push"} => put[p].val = setting
                       /\ put[p].pc = "push" => cfg = setting
    /\ Unapplied \notin strays /\ (\A p \in Puts : put[p].pc # "apply") => cfg = setting

\* The agent will hear of the configuration: by the welcome, by what it has
\* been sent since, or by the request that is about to write to it.
Hearing(c) ==
  /\ handler[c].pc # "none"
  /\ handler[c].pc = "welcome" => handler[c].offer = cfg
  /\ handler[c].pc = "register" => LastHeard(c) = cfg
  /\ registered = c => \/ LastHeard(c) = cfg
                       \/ \E p \in Puts : put[p].pc = "push" /\ put[p].target = c

Spared(c) == Whole(c) /\ strays \cap {c, None} = {}
WillHear == \A c \in Conns : c = agent.conn /\ Spared(c) => Hearing(c)
NoInbox == agent.pc \in {"away", "welcome"} => agent.inbox = <<>>

Telling == TypeOK /\ Memory /\ Links /\ NoInbox /\ OneRequest /\ WillHear

\* Reading the first message of a queue leaves the last what it is, and a new
\* one is the last.
LEMMA LatestIs ==
  ASSUME NEW S, NEW q \in Seq(S)
  PROVE  /\ q # <<>> => \A x : Latest(Tail(q), Head(q)) = Latest(q, x)
         /\ \A e \in S : \A x : Latest(Append(q, e), x) = e
<1>1. ASSUME q # <<>>, NEW x PROVE Latest(Tail(q), Head(q)) = Latest(q, x)
  <2>1. /\ Head(q) = q[1] /\ Tail(q) \in Seq(S) /\ Len(Tail(q)) = Len(q) - 1 /\ Len(q) \in Nat
        /\ DOMAIN Tail(q) = 1..Len(Tail(q)) /\ \A i \in DOMAIN Tail(q) : Tail(q)[i] = q[i + 1]
    BY <1>1, QueueTail, LenProperties
  <2>2. CASE Tail(q) = <<>>
    <3>1. Len(Tail(q)) = 0
      BY <2>2, EmptySeq
    <3>2. Len(q) = 1
      <4>1. Len(q) \in Nat /\ Len(q) - 1 = 0
        BY <2>1, <3>1
      <4> QED BY ONLY <4>1
    <3> QED BY <1>1, <2>1, <2>2, <3>2 DEF Latest
  <2>3. CASE Tail(q) # <<>>
    <3>1. Len(Tail(q)) # 0
      BY <2>1, <2>3, EmptySeq
    <3>2. Len(q) - 1 \in DOMAIN Tail(q) /\ (Len(q) - 1) + 1 = Len(q)
      BY <2>1, <3>1
    <3>3. Tail(q)[Len(Tail(q))] = q[Len(q)]
      BY <2>1, <3>2
    <3> QED BY <1>1, <2>3, <3>3 DEF Latest
  <2> QED BY <2>2, <2>3
<1>2. ASSUME NEW e \in S, NEW x PROVE Latest(Append(q, e), x) = e
  <2>1. /\ Append(q, e)[Len(q) + 1] = e /\ Len(Append(q, e)) = Len(q) + 1 /\ Append(q, e) # <<>>
    BY AppendProperties, QueueAppend
  <2> QED BY <2>1 DEF Latest
<1> QED BY <1>1, <1>2

\* The inbox is of a session that was welcomed.
LEMMA NoInboxStays ==
  ASSUME TypeOK, Memory, NoInbox, [Next]_vars
  PROVE  NoInbox'
<1>0. agent \in Agents
  BY TypeParts DEF AgentOK
<1>1. ASSUME NEW c \in Conns, Dial(c) PROVE NoInbox'
  <2>1. agent.pc = "away" /\ agent'.inbox = agent.inbox
    BY <1>0, <1>1 DEF Dial, Agents
  <2> QED BY <2>1 DEF NoInbox
<1>2. CASE Welcome \/ Reconfigured
  <2>1. agent'.pc \in {"replay", "live"}
    BY <1>0, <1>2 DEF Welcome, Reconfigured, Drained, Agents
  <2> QED BY <2>1 DEF NoInbox
<1>3. ASSUME NEW s \in Samples, Send(s) PROVE NoInbox'
  <2>1. s \in Outgoing
    BY <1>3 DEF Send
  <2>2. agent'.pc \in {"replay", "live"}
    BY <1>0, <1>3, <2>1, Sends DEF Send, Agents
  <2> QED BY <2>2 DEF NoInbox
<1>4. CASE Receive
  <2>1. agent'.pc \in {"replay", "live"}
    BY <1>0, <1>4 DEF Receive, MaySample, Agents
  <2> QED BY <2>1 DEF NoInbox
<1>5. ASSUME NEW push, EndSession(push) PROVE NoInbox'
  <2>1. agent'.inbox = <<>>
    BY <1>0, <1>5 DEF EndSession, Agents
  <2> QED BY <2>1 DEF NoInbox
<1>6. CASE LinkLost \/ \E s \in Samples : SendFails(s)
  BY <1>5, <1>6 DEF LinkLost, SendFails
<1>7. CASE AgentRestart
  BY <1>7 DEF AgentRestart, Fresh, NoInbox
<1>8. CASE Cut \/ HubRestart \/ (\E c \in Conns : HandlerSteps(c)) \/ UNCHANGED vars
           \/ \E p \in Puts : PutSteps(p) \/ \E v \in Intervals : PutRead(p, v)
  <2>1. UNCHANGED agent
    BY <1>8 DEF Cut, HubRestart, HandlerSteps, ReadHello, WriteWelcome, Register, CloseOld, TakeSample,
                InsertSample, HandlerEnds, PutSteps, PutStore, PutFails, PutApply, PutPush, PutRead, vars
  <2> QED BY <2>1 DEF NoInbox
<1> QED BY <1>1, <1>2, <1>3, <1>4, <1>6, <1>7, <1>8 DEF Next, AgentSteps

\* A request that starts while another is at work is recorded in strays.
LEMMA RequestsStay ==
  ASSUME TypeOK, Links, OneRequest, [Next]_vars
  PROVE  OneRequest'
<1> USE Constants, Marker
<1>0. /\ HubOK /\ DOMAIN put = Puts /\ put \in [Puts -> PutRequests] /\ \A p \in Puts : put[p] \in PutRequests
  BY TypeParts DEF HubOK
<1>1. ASSUME UNCHANGED <<put, setting, cfg>>, strays \cap {None, Unapplied} \subseteq strays' PROVE OneRequest'
  BY <1>1 DEF OneRequest, Active
<1>2. CASE AgentSteps \/ AgentRestart \/ Cut \/ UNCHANGED vars
  <2>1. UNCHANGED <<put, setting, cfg>>
    BY <1>2 DEF AgentSteps, Dial, Welcome, LinkLost, Receive, Reconfigured, Send, SendFails, AgentRestart, Cut,
                hub, vars
  <2>2. strays \cap {None, Unapplied} \subseteq strays'
    BY <1>2 DEF AgentSteps, Dial, Welcome, LinkLost, Receive, Reconfigured, Send, SendFails, AgentRestart, Cut, vars
  <2> QED BY <1>1, <2>1, <2>2
<1>3. ASSUME NEW c \in Conns, HandlerSteps(c) PROVE OneRequest'
  <2>1. UNCHANGED <<put, setting, cfg>> /\ strays \cap {None, Unapplied} \subseteq strays'
    BY <1>3 DEF HandlerSteps, ReadHello, WriteWelcome, Register, CloseOld, TakeSample, InsertSample, HandlerEnds
  <2> QED BY <1>1, <2>1
<1>4. CASE HubRestart
  <2>1. /\ \A p \in Puts : put'[p].pc \in {"idle", "done"}
        /\ cfg' = setting /\ setting' = setting
    BY <1>4 DEF HubRestart, NoPut
  <2> QED BY <2>1 DEF OneRequest, Active
<1>5. ASSUME NEW p \in Puts, NEW v \in Intervals, PutRead(p, v) PROVE OneRequest'
  <2>1. /\ put'[p].pc = "store" /\ put'[p].prev = setting /\ \A q \in Puts \ {p} : put'[q] = put[q]
        /\ UNCHANGED <<setting, cfg>> /\ put[p].pc = "idle"
    BY <1>0, <1>5 DEF PutRead, NoPut
  <2>2. strays \subseteq strays' /\ (None \notin strays' => \A q \in Puts : ~Active(q))
    BY <1>5 DEF PutRead, Active
  <2> QED BY <2>1, <2>2 DEF OneRequest, Active
<1>6. ASSUME NEW p \in Puts, PutStore(p) PROVE OneRequest'
  <2>1. /\ put[p].pc = "store" /\ put'[p].pc = IF put[p].prev = put[p].val THEN "done" ELSE "apply"
        /\ put'[p].val = put[p].val /\ \A q \in Puts \ {p} : put'[q] = put[q]
        /\ setting' = put[p].val /\ UNCHANGED <<cfg, strays>>
    BY <1>0, <1>6 DEF PutStore, PutRequests
  <2>2. None \notin strays => /\ \A q \in Puts \ {p} : ~Active(q)
                              /\ put[p].prev = setting /\ (Unapplied \notin strays => cfg = setting)
    BY <2>1 DEF OneRequest, Active
  <2> QED BY <2>1, <2>2 DEF OneRequest, Active
<1>7. ASSUME NEW p \in Puts, PutApply(p) PROVE OneRequest'
  <2>1. /\ put[p].pc = "apply" /\ put'[p].pc = "push" /\ put'[p].val = put[p].val
        /\ \A q \in Puts \ {p} : put'[q] = put[q]
        /\ cfg' = put[p].val /\ UNCHANGED setting
    BY <1>0, <1>7 DEF PutApply, PutRequests, Apply
  <2>3. None \in strays => None \in strays'
    BY <1>7 DEF PutApply
  <2>2. None \notin strays => (\A q \in Puts \ {p} : ~Active(q)) /\ put[p].val = setting
    BY <2>1 DEF OneRequest, Active
  <2> QED BY <2>1, <2>2, <2>3 DEF OneRequest, Active
<1>8. ASSUME NEW p \in Puts, PutPush(p) PROVE OneRequest'
  <2>1. /\ put[p].pc = "push" /\ put'[p].pc = "done" /\ \A q \in Puts \ {p} : put'[q] = put[q]
        /\ UNCHANGED <<setting, cfg, strays>>
    BY <1>0, <1>8 DEF PutPush, NoPut
  <2> QED BY <2>1 DEF OneRequest, Active
<1>9. ASSUME NEW p \in Puts, PutFails(p) PROVE OneRequest'
  <2>1. /\ put'[p].pc = "done" /\ \A q \in Puts \ {p} : put'[q] = put[q]
        /\ UNCHANGED <<setting, cfg>> /\ strays \subseteq strays'
        /\ put[p].pc = "store" \/ Unapplied \in strays'
    BY <1>0, <1>9 DEF PutFails, NoPut
  <2> QED BY <2>1 DEF OneRequest, Active
<1> QED BY <1>2, <1>3, <1>4, <1>5, <1>6, <1>7, <1>8, <1>9 DEF Next, PutSteps

\* A connection that is whole and has missed nothing was so before.
LEMMA SparedBefore ==
  ASSUME TypeOK, Memory, [Next]_vars, NEW c \in Conns, c = agent'.conn, Spared(c)'
  PROVE  Dial(c) \/ (c = agent.conn /\ Spared(c) /\ ~HubRestart /\ ~Cut /\ ~HandlerEnds(c))
<1> USE Constants
<1>0. /\ AgentOK /\ NetOK /\ agent \in Agents /\ agent.conn \in Conns \cup {None} /\ None # c
      /\ DOMAIN ends = Conns
  BY TypeParts DEF AgentOK, NetOK, Agents
<1>a. c \notin cut' /\ ends'[c] = {} /\ c \notin strays' /\ None \notin strays'
  BY DEF Spared, Whole
<1>b. ~HubRestart /\ ~Cut /\ ~HandlerEnds(c)
  <2>1. ASSUME HubRestart PROVE FALSE
    BY <1>0, <1>a, <2>1 DEF HubRestart
  <2>2. ASSUME Cut PROVE FALSE
    BY <1>0, <1>a, <2>2 DEF Cut
  <2>3. ASSUME HandlerEnds(c) PROVE FALSE
    BY <1>0, <1>a, <2>3 DEF HandlerEnds, Closed
  <2> QED BY <2>1, <2>2, <2>3
<1>1. ASSUME agent'.conn = agent.conn, cut' = cut, ends[c] \subseteq ends'[c],
             strays \ {Unapplied} \subseteq strays'
      PROVE  c = agent.conn /\ Spared(c)
  <2>1. Unapplied \notin {c, None}
    BY Marker
  <2> QED BY <1>1, <1>a, <2>1 DEF Spared, Whole
<1>2. ASSUME NEW d \in Conns, Dial(d) PROVE d = c
  BY <1>0, <1>2 DEF Dial, Agents
<1>3. CASE Welcome \/ Receive \/ Reconfigured \/ \E s \in Samples : Send(s)
  <2>1. agent'.conn = agent.conn
    BY <1>0, <1>3 DEF Welcome, Drained, Receive, Reconfigured, Send, Agents
  <2>2. cut' = cut /\ ends' = ends /\ strays \subseteq strays'
    BY <1>3 DEF Welcome, Receive, Reconfigured, Send, net
  <2> QED BY <1>1, <1>b, <2>1, <2>2
<1>4. CASE AgentRestart \/ LinkLost \/ \E s \in Samples : SendFails(s)
  <2>1. agent'.conn = None
    <3>1. CASE AgentRestart
      BY <3>1 DEF AgentRestart, Fresh
    <3>2. ASSUME NEW push, EndSession(push) PROVE agent'.conn = None
      BY <1>0, <3>2 DEF EndSession, Agents
    <3> QED BY <1>4, <3>1, <3>2 DEF LinkLost, SendFails
  <2> QED BY <1>0, <2>1
<1>5. ASSUME NEW d \in Conns, HandlerEnds(d) PROVE c = agent.conn /\ Spared(c)
  <2>1. d # c /\ agent' = agent /\ cut' = cut \ {d} /\ strays' = strays \ {d} /\ ends' = Closed(d, "hub")
    BY <1>b, <1>5 DEF HandlerEnds
  <2>2. ends'[c] = ends[c]
    BY <1>0, <2>1 DEF Closed
  <2> QED BY <1>0, <1>a, <2>1, <2>2 DEF Spared, Whole
<1>6. CASE UNCHANGED vars \/ (\E p \in Puts : PutSteps(p) \/ \E v \in Intervals : PutRead(p, v))
           \/ \E d \in Conns : ReadHello(d) \/ WriteWelcome(d) \/ Register(d) \/ TakeSample(d) \/ InsertSample(d)
  <2>1. UNCHANGED <<agent, cut, ends>> /\ strays \ {Unapplied} \subseteq strays'
    BY <1>6 DEF vars, net, PutSteps, PutStore, PutFails, PutApply, PutPush, PutRead, ReadHello, WriteWelcome, Register,
                TakeSample, InsertSample
  <2> QED BY <1>1, <1>b, <2>1
<1>7. ASSUME NEW d \in Conns, CloseOld(d) PROVE c = agent.conn /\ Spared(c)
  <2>1. UNCHANGED <<agent, cut, strays>> /\ ends[c] \subseteq ends'[c]
    BY <1>0, <1>7 DEF CloseOld, Closed
  <2> QED BY <1>1, <2>1
<1> QED BY <1>b, <1>2, <1>3, <1>4, <1>5, <1>6, <1>7 DEF Next, AgentSteps, HandlerSteps

\* While nothing of the hub's changes, what the agent reads it hears.
LEMMA HearFrame ==
  ASSUME NEW c, Hearing(c), UNCHANGED <<handler, registered, cfg, put>>, LastHeard(c)' = LastHeard(c)
  PROVE  Hearing(c)'
BY DEF Hearing

\* What the agent does to its connection.
LEMMA AgentHears ==
  ASSUME Telling, NEW c \in Conns, c = agent.conn, Hearing(c), Spared(c)',
         Welcome \/ Receive \/ Reconfigured \/ \E s \in Samples : Send(s)
  PROVE  Hearing(c)'
<1> USE Constants
<1>0. /\ agent \in Agents /\ agent.inbox \in Seq(Intervals) /\ down \in [Conns -> Seq(Intervals)]
      /\ down[c] \in Seq(Intervals)
  BY TypeParts DEF Telling, AgentOK, NetOK, Agents
<1>1. UNCHANGED <<handler, registered, cfg, put>>
  BY DEF Welcome, Receive, Reconfigured, Send, hub
<1>2. CASE Welcome
  <2>1. /\ down[c] # <<>> /\ down'[c] = Tail(down[c]) /\ agent.pc = "welcome"
        /\ agent'.interval = Head(down[c]) /\ agent'.inbox = agent.inbox
    BY <1>0, <1>2 DEF Welcome, Drained, Agents
  <2>2. agent.inbox = <<>>
    BY <2>1 DEF Telling, NoInbox
  <2>3. LastHeard(c)' = Latest(Tail(down[c]), Head(down[c]))
    BY <2>1, <2>2 DEF LastHeard, Latest
  <2>4. LastHeard(c)' = LastHeard(c)
    BY <1>0, <2>1, <2>3, LatestIs DEF LastHeard
  <2> QED BY <1>1, <2>4, HearFrame
<1>3. CASE Receive
  <2>1. HasRoom
    <3>1. strays' = strays \/ c \in strays'
      BY <1>3 DEF Receive
    <3> QED BY <1>3 DEF Receive, Spared
  <2>2. /\ down[c] # <<>> /\ down'[c] = Tail(down[c])
        /\ agent'.interval = agent.interval /\ agent'.inbox = Append(agent.inbox, Head(down[c]))
    BY <1>0, <1>3, <2>1 DEF Receive, Agents
  <2>3. Head(down[c]) \in Intervals
    BY <1>0, <2>2, QueueTail
  <2>4. Latest(agent'.inbox, agent'.interval) = Head(down[c])
    BY <1>0, <2>2, <2>3, LatestIs
  <2>5. LastHeard(c)' = Latest(Tail(down[c]), Head(down[c]))
    BY <2>2, <2>4 DEF LastHeard, Latest
  <2>6. LastHeard(c)' = LastHeard(c)
    BY <1>0, <2>2, <2>5, LatestIs DEF LastHeard
  <2> QED BY <1>1, <2>6, HearFrame
<1>4. CASE Reconfigured
  <2>1. /\ agent.inbox # <<>> /\ down' = down
        /\ agent'.interval = Head(agent.inbox) /\ agent'.inbox = Tail(agent.inbox)
    BY <1>0, <1>4 DEF Reconfigured, net, Agents
  <2>2. Latest(agent'.inbox, agent'.interval) = Latest(agent.inbox, agent.interval)
    BY <1>0, <2>1, LatestIs
  <2>3. LastHeard(c)' = LastHeard(c)
    BY <2>1, <2>2 DEF LastHeard, Latest
  <2> QED BY <1>1, <2>3, HearFrame
<1>5. ASSUME NEW s \in Samples, Send(s) PROVE Hearing(c)'
  <2>1. down' = down /\ agent'.interval = agent.interval /\ agent'.inbox = agent.inbox
    BY <1>0, <1>5 DEF Send, Agents
  <2>2. LastHeard(c)' = LastHeard(c)
    BY <2>1 DEF LastHeard, Latest
  <2> QED BY <1>1, <2>2, HearFrame
<1> QED BY <1>2, <1>3, <1>4, <1>5

\* What a handler does, of the agent's connection or of another.
LEMMA HandlerHears ==
  ASSUME Telling, NEW c \in Conns, c = agent.conn, Hearing(c), Spared(c), NEW d \in Conns, HandlerSteps(d),
         ~HandlerEnds(c), Spared(c)'
  PROVE  Hearing(c)'
<1> USE Constants
<1>0. /\ agent \in Agents /\ down \in [Conns -> Seq(Intervals)] /\ handler \in [Conns -> Handlers]
      /\ handler[d] \in Handlers /\ LinkOK(c) /\ None # c
  BY TypeParts DEF Telling, AgentOK, NetOK, HubOK, Links
<1>1. UNCHANGED <<agent, cfg, put>>
  BY DEF HandlerSteps, ReadHello, WriteWelcome, Register, CloseOld, TakeSample, InsertSample, HandlerEnds
<1>2. CASE d # c
  <2>1. handler'[c] = handler[c] /\ down'[c] = down[c] /\ (registered' = c => registered = c)
    BY <1>0, <1>2 DEF HandlerSteps, ReadHello, WriteWelcome, Register, CloseOld, TakeSample, InsertSample,
                      HandlerEnds, Unregistered, net
  <2>2. LastHeard(c)' = LastHeard(c)
    BY <1>1, <2>1 DEF LastHeard, Latest
  <2> QED BY <1>1, <2>1, <2>2 DEF Hearing
<1>3. CASE d = c /\ ReadHello(c)
  <2>1. handler'[c].pc = "welcome" /\ handler'[c].offer = cfg /\ registered' = registered /\ down' = down
    BY <1>0, <1>3 DEF ReadHello, Handlers
  <2>2. LastHeard(c)' = LastHeard(c)
    BY <1>1, <2>1 DEF LastHeard, Latest
  <2> QED BY <1>1, <2>1, <2>2 DEF Hearing
<1>4. CASE d = c /\ WriteWelcome(c)
  <2>1. /\ handler[c].pc = "welcome" /\ handler'[c].pc = "register" /\ registered' = registered
        /\ down'[c] = Append(down[c], handler[c].offer)
    BY <1>0, <1>4 DEF WriteWelcome, Handlers, Spared
  <2>2. handler[c].offer \in Intervals /\ handler[c].offer = cfg
    BY <2>1, <1>0 DEF Hearing, LinkOK
  <2>3. LastHeard(c)' = cfg
    BY <1>0, <2>1, <2>2, LatestIs DEF LastHeard
  <2> QED BY <1>1, <2>1, <2>3 DEF Hearing
<1>5. CASE d = c /\ Register(c)
  <2>1. /\ handler[c].pc = "register" /\ handler'[c].pc \in {"serve", "close"} /\ down' = down
    BY <1>0, <1>5 DEF Register, Handlers, net
  <2>2. LastHeard(c)' = LastHeard(c)
    BY <1>1, <2>1 DEF LastHeard, Latest
  <2> QED BY <1>1, <2>1, <2>2 DEF Hearing
<1>6. CASE d = c /\ (CloseOld(c) \/ TakeSample(c) \/ InsertSample(c))
  <2>1. /\ handler'[c].pc \in {"serve", "insert"} /\ registered' = registered /\ down' = down
    BY <1>0, <1>6 DEF CloseOld, TakeSample, InsertSample, Handlers, net
  <2>2. LastHeard(c)' = LastHeard(c)
    BY <1>1, <2>1 DEF LastHeard, Latest
  <2> QED BY <1>1, <2>1, <2>2 DEF Hearing
<1> QED BY <1>2, <1>3, <1>4, <1>5, <1>6 DEF HandlerSteps

\* What a request that saves the settings does.
LEMMA RequestHears ==
  ASSUME Telling, NEW c \in Conns, c = agent.conn, Hearing(c), Spared(c), Spared(c)', NEW p \in Puts,
         PutSteps(p) \/ \E v \in Intervals : PutRead(p, v)
  PROVE  Hearing(c)'
<1> USE Constants
<1>0. /\ down \in [Conns -> Seq(Intervals)] /\ put \in [Puts -> PutRequests]
      /\ put[p] \in PutRequests /\ None # c /\ OneRequest /\ TargetsOK
  BY TypeParts DEF Telling, NetOK, HubOK, Links
<1>1. UNCHANGED <<agent, handler, registered>>
  BY DEF PutSteps, PutStore, PutFails, PutApply, PutPush, PutRead
<1>2. None \notin strays
  BY DEF Spared
<1>3. CASE PutStore(p) \/ PutFails(p) \/ \E v \in Intervals : PutRead(p, v)
  <2>1. /\ down' = down /\ cfg' = cfg /\ put[p].pc # "push" /\ \A q \in Puts \ {p} : put'[q] = put[q]
    BY <1>0, <1>3 DEF PutStore, PutFails, PutRead, net
  <2>2. LastHeard(c)' = LastHeard(c)
    BY <1>1, <2>1 DEF LastHeard, Latest
  <2>3. (\E q \in Puts : put[q].pc = "push" /\ put[q].target = c)
           => \E q \in Puts : put'[q].pc = "push" /\ put'[q].target = c
    BY <2>1
  <2> QED BY <1>1, <2>1, <2>2, <2>3 DEF Hearing
<1>4. CASE PutApply(p)
  <2>1. /\ handler[c].pc \notin {"welcome", "register"}
    BY <1>4 DEF PutApply, Spared
  <2>2. put'[p].pc = "push" /\ put'[p].target = registered
    BY <1>0, <1>4 DEF PutApply, PutRequests
  <2> QED BY <1>1, <2>1, <2>2 DEF Hearing
<1>5. CASE PutPush(p)
  <2>1. /\ put[p].pc = "push" /\ cfg' = cfg /\ \A q \in Puts \ {p} : put'[q] = put[q]
        /\ put[p].val \in Intervals
    BY <1>0, <1>5 DEF PutPush, TargetsOK
  <2>2. put[p].val = cfg /\ \A q \in Puts \ {p} : put[q].pc # "push"
    BY <1>0, <1>2, <2>1 DEF OneRequest, Active
  <2>3. CASE put[p].target = c
    <3>1. down'[c] = Append(down[c], put[p].val) /\ down[c] \in Seq(Intervals)
      BY <1>0, <1>5, <2>3 DEF PutPush, Spared
    <3>2. LastHeard(c)' = cfg
      BY <2>1, <2>2, <3>1, LatestIs DEF LastHeard
    <3> QED BY <1>1, <2>1, <3>2 DEF Hearing
  <2>4. CASE put[p].target # c
    <3>1. down'[c] = down[c]
      BY <1>0, <1>5, <2>4 DEF PutPush
    <3>2. LastHeard(c)' = LastHeard(c)
      BY <1>1, <3>1 DEF LastHeard, Latest
    <3>3. ~\E q \in Puts : put[q].pc = "push" /\ put[q].target = c
      BY <2>2, <2>4
    <3> QED BY <1>1, <2>1, <3>2, <3>3 DEF Hearing
  <2> QED BY <2>3, <2>4
<1> QED BY <1>3, <1>4, <1>5 DEF PutSteps

\* Every step keeps the agent of a spared connection hearing.
LEMMA HearingStays ==
  ASSUME Telling, [Next]_vars
  PROVE  WillHear'
<1> USE Constants
<1> SUFFICES ASSUME NEW c \in Conns, c = agent'.conn, Spared(c)' PROVE Hearing(c)'
  BY DEF WillHear
<1>0. TypeOK /\ Memory /\ Links /\ WillHear
  BY DEF Telling
<1>1. CASE Dial(c)
  <2>1. handler'[c].pc = "hello" /\ registered' = registered /\ handler[c].pc = "none" /\ RegisteredOK /\ None # c
    <3>1. handler[c] \in Handlers /\ handler \in [Conns -> Handlers]
      BY <1>0, TypeParts DEF HubOK
    <3> QED BY <1>0, <1>1, <3>1 DEF Dial, Free, Links, Handlers
  <2>2. registered # c
    BY <2>1 DEF RegisteredOK
  <2> QED BY <2>1, <2>2 DEF Hearing
<1>2. ASSUME ~Dial(c) PROVE Hearing(c)'
  <2>1. c = agent.conn /\ Spared(c) /\ ~HubRestart /\ ~Cut /\ ~HandlerEnds(c)
    BY <1>0, <1>2, SparedBefore
  <2>2. Hearing(c)
    BY <1>0, <2>1 DEF WillHear
  <2>3. CASE Welcome \/ Receive \/ Reconfigured \/ \E s \in Samples : Send(s)
    BY <2>1, <2>2, <2>3, AgentHears
  <2>4. CASE (\E d \in Conns : Dial(d)) \/ AgentRestart \/ LinkLost \/ \E s \in Samples : SendFails(s)
    <3>1. agent \in Agents /\ c # None
      BY <1>0, TypeParts DEF AgentOK
    <3>2. ASSUME NEW d \in Conns, Dial(d) PROVE FALSE
      BY <1>2, <2>1, <3>1, <3>2 DEF Dial, Agents
    <3>3. CASE AgentRestart
      BY <2>1, <3>1, <3>3 DEF AgentRestart, Fresh
    <3>4. ASSUME NEW push, EndSession(push) PROVE FALSE
      BY <2>1, <3>1, <3>4 DEF EndSession, Agents
    <3> QED BY <2>4, <3>2, <3>3, <3>4 DEF LinkLost, SendFails
  <2>5. CASE \E d \in Conns : HandlerSteps(d)
    BY <2>1, <2>2, <2>5, HandlerHears
  <2>6. CASE \E p \in Puts : PutSteps(p) \/ \E v \in Intervals : PutRead(p, v)
    BY <2>1, <2>2, <2>6, RequestHears
  <2>7. CASE UNCHANGED vars
    BY <2>2, <2>7 DEF vars, net, hub, Hearing, LastHeard, Latest
  <2> QED BY <2>1, <2>3, <2>4, <2>5, <2>6, <2>7 DEF Next, AgentSteps
<1> QED BY <1>1, <1>2

\* A connected agent with nothing on its way sends at the interval the hub
\* judges it by, through welcomes, settings saved meanwhile, cuts and restarts
\* (handler.go, ServeHTTP and Reconfigure; link.go), unless two requests met,
\* its inbox overflowed or it registered behind the back of Reconfigure.  A
\* request that failed with the interval stored (api_settings.go:41) leaves it,
\* until another is applied or the hub restarts, at the one applied before.
THEOREM IntervalAgreed == Spec => []IntervalKnown
<1> USE Constants
<1>1. Init => NoInbox /\ OneRequest /\ WillHear
  BY DEF Init, Fresh, NoPut, NoInbox, OneRequest, Active, WillHear
<1>2. Telling /\ [Next]_vars => NoInbox' /\ OneRequest' /\ WillHear'
  BY NoInboxStays, RequestsStay, HearingStays DEF Telling
<1>3. Telling => IntervalKnown
  <2> SUFFICES ASSUME Telling, Settled, strays \cap {agent.conn, None} = {}
                  PROVE  agent.interval = IF Unapplied \in strays THEN cfg ELSE setting
    BY DEF IntervalKnown
  <2>1. agent \in Agents /\ agent.conn \in Conns
    BY TypeParts DEF Telling, AgentOK, Memory, Settled, Agents
  <2>2. Hearing(agent.conn)
    BY <2>1 DEF Telling, WillHear, Settled, Spared
  <2>3. LastHeard(agent.conn) = agent.interval
    BY DEF Settled, LastHeard, Latest
  <2>4. agent.interval = cfg
    BY <2>2, <2>3 DEF Hearing, Settled
  <2>5. Unapplied \notin strays => cfg = setting
    BY DEF Telling, OneRequest, Settled
  <2> QED BY <2>4, <2>5
<1>4. IInv => TypeOK /\ Memory /\ Links
  BY DEF IInv
<1> QED BY <1>1, <1>2, <1>3, <1>4, Inductive, PTL DEF Spec, Telling
================================================================================
