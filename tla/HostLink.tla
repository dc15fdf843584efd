------------------------------ MODULE HostLink ------------------------------
(***************************************************************************)
(* The link of one host: the agent's sessions (agent/link), the WebSocket  *)
(* connections between agent and hub, the hub's handler of each of them    *)
(* (hub/ingest), and the settings page that changes the send interval.     *)
(*                                                                         *)
(* The agent holds one connection at a time; the hub runs one goroutine    *)
(* per connection, and those of old connections may still run when a newer *)
(* one is served.  A message that was written has not been read: a cut     *)
(* loses what is in flight, and a write that fails may have arrived.       *)
(*                                                                         *)
(* A sample is its timestamp; samples of the table are a set because       *)
(* (host_id, at) is its primary key.  The rate cap compares clocks: here a *)
(* sample after the first of a connection may come too early.              *)
(***************************************************************************)
EXTENDS Integers, Sequences, FiniteSets, FiniteSetsExt

CONSTANTS
  Intervals,     \* the send intervals an administrator can choose
  DefaultInterval,   \* the one of a hub whose settings were never saved
  Puts,          \* requests that save the settings
  InboxCap,      \* messages the agent's reader keeps for its loop
  None,          \* no connection, no interval
  MaxConns,      \* bound: connections not forgotten on both sides
  MaxSamples,    \* bound: samples the agent takes
  MaxFaults      \* bound: cuts, stalled writes, late welcomes and restarts

ASSUME LinkAssumption ==
  /\ Intervals \subseteq Nat \ {0} /\ DefaultInterval \in Intervals
  /\ InboxCap \in Nat \ {0} /\ {MaxConns, MaxSamples, MaxFaults} \subseteq Nat
  /\ None \notin Nat

Conns == 1..MaxConns
Samples == 1..MaxSamples
Hello == 0
Unapplied == 0   \* no connection: what strays holds for an interval never applied

VARIABLES
  agent,       \* the agent's process: where it is, its connection, its memory
  taken,       \* the newest sample it took: its clock
  up, down,    \* messages in flight, per connection, to the hub and to the agent
  ends,        \* who has closed a connection
  cut,         \* connections the network has lost
  handler,     \* the hub's goroutine of each connection
  registered,  \* Handler.conns of the host
  setting,     \* the interval of the settings table
  cfg,         \* the interval of the ingest handler's configuration
  put,         \* the requests that save the settings
  stored,      \* the samples of the host
  faults,      \* counter of the bound
  owed,        \* history: samples the agent could not send and has not sent since
  strays       \* history: connections that missed an interval; None if requests
               \* met; Unapplied while an interval is stored that was not applied

net == <<up, down, ends, cut>>
hub == <<handler, registered, setting, cfg, put, stored>>
vars == <<agent, taken, net, hub, faults, owed, strays>>

Fresh == [pc |-> "away", conn |-> None, interval |-> None, buf |-> <<>>, plan |-> <<>>, inbox |-> <<>>]
Idle == [pc |-> "none", offer |-> None, sample |-> None, accepted |-> FALSE, old |-> None]
NoPut == [pc |-> "idle", val |-> None, prev |-> None, target |-> None]

\* What is written on c now will be read.
Whole(c) == c \notin cut /\ ends[c] = {}
Closed(c, who) == [ends EXCEPT ![c] = @ \cup {who}]

\* Something goes wrong that the bound counts.
Fault == faults < MaxFaults /\ faults' = faults + 1

-----------------------------------------------------------------------------
(* The agent. *)

\* Buffer.Drain.
Drained(a) == [a EXCEPT !.plan = a.buf, !.buf = <<>>, !.pc = "replay"]

\* The end of a session: the connection is closed and the rest of the replay
\* forgotten; a sample that could not be sent goes to the buffer.
EndSession(push) ==
  /\ agent' = [agent EXCEPT !.pc = "away", !.conn = None, !.interval = None, !.plan = <<>>,
                            !.inbox = <<>>, !.buf = @ \o push]
  /\ ends' = Closed(agent.conn, "agent") /\ down' = [down EXCEPT ![agent.conn] = <<>>]

\* A connection nobody remembers, whose number can be that of a new one.
Free(c) == /\ handler[c].pc = "none" /\ agent.conn # c
           /\ \A d \in Conns : handler[d].old # c
           /\ \A p \in Puts : put[p].target # c

\* Dial, the upgrade ServeHTTP makes of it, and the hello the agent writes.  A
\* dial that fails changes nothing.
Dial(c) ==
  /\ agent.pc = "away" /\ Free(c) /\ \A d \in Conns : Free(d) => c <= d
  /\ agent' = [agent EXCEPT !.pc = "welcome", !.conn = c]
  /\ handler' = [handler EXCEPT ![c].pc = "hello"]
  /\ up' = [up EXCEPT ![c] = <<Hello>>] /\ ends' = [ends EXCEPT ![c] = {}]
  /\ cut' = cut \ {c} /\ strays' = strays \ {c}
  /\ UNCHANGED <<taken, down, registered, setting, cfg, put, stored, faults, owed>>

\* The first message of the hub is its welcome; the buffer is drained.
Welcome ==
  /\ agent.pc = "welcome" /\ down[agent.conn] # <<>>
  /\ agent' = [Drained(agent) EXCEPT !.interval = Head(down[agent.conn])]
  /\ down' = [down EXCEPT ![agent.conn] = Tail(@)]
  /\ UNCHANGED <<taken, up, ends, cut, hub, faults, owed, strays>>

\* The loop of a session samples once the replay is over, never while away.
MaySample == agent.pc \in {"replay", "live"} /\ agent.plan = <<>>

\* What the agent can send now: the next sample of the replay, or a fresh one.
ToSend == IF agent.pc = "replay" /\ agent.plan # <<>> THEN {Head(agent.plan)} ELSE {}
Outgoing == ToSend \cup IF MaySample /\ taken < MaxSamples THEN {taken + 1} ELSE {}

\* A send that succeeds: the message is in flight, or lost with a dead connection.
Send(s) ==
  /\ s \in Outgoing
  /\ agent' = IF s > taken THEN [agent EXCEPT !.pc = "live"] ELSE [agent EXCEPT !.plan = Tail(@)]
  /\ taken' = IF s > taken THEN s ELSE taken
  /\ up' = IF Whole(agent.conn) THEN [up EXCEPT ![agent.conn] = Append(@, s)] ELSE up
  /\ owed' = owed \ {s}
  /\ UNCHANGED <<down, ends, cut, hub, faults, strays>>

\* Mutant: a replay that fails keeps nothing.
PushedFresh(s) == IF s > taken THEN <<s>> ELSE <<>>

\* What a failed send pushes back.
Pushed(s) == <<s>>

\* A send that fails, on a dead connection or after ten seconds; what was
\* written may have arrived.  The sample is pushed back, the session ends.
SendFails(s) ==
  /\ s \in Outgoing
  /\ IF Whole(agent.conn) THEN Fault ELSE UNCHANGED faults
  /\ EndSession(Pushed(s))
  /\ taken' = IF s > taken THEN s ELSE taken
  /\ \/ UNCHANGED up
     \/ Whole(agent.conn) /\ up' = [up EXCEPT ![agent.conn] = Append(@, s)]
  /\ owed' = owed \cup {s}
  /\ UNCHANGED <<cut, hub, strays>>

\* Mutant: one message more than the channel holds.
HasRoomTwice == Len(agent.inbox) <= InboxCap

HasRoom == Len(agent.inbox) < InboxCap

\* The reader goroutine keeps a message for the loop, or drops it when four wait.
Receive ==
  /\ MaySample /\ down[agent.conn] # <<>>
  /\ IF HasRoom
     THEN agent' = [agent EXCEPT !.inbox = Append(@, Head(down[agent.conn]))] /\ UNCHANGED strays
     ELSE strays' = strays \cup {agent.conn} /\ UNCHANGED agent
  /\ down' = [down EXCEPT ![agent.conn] = Tail(@)]
  /\ UNCHANGED <<taken, up, ends, cut, hub, faults, owed>>

\* The loop takes a Reconfigure: its ticker runs at the new interval.
Reconfigured ==
  /\ MaySample /\ agent.inbox # <<>>
  /\ agent' = [agent EXCEPT !.pc = "live", !.interval = Head(agent.inbox), !.inbox = Tail(@)]
  /\ UNCHANGED <<taken, net, hub, faults, owed, strays>>

\* Mutant: no deadline for the welcome.
ListeningLate == MaySample

Listening == agent.pc = "welcome" \/ MaySample

\* A read that fails ends the session, and so does a welcome that takes more
\* than five seconds.
LinkLost ==
  /\ Listening
  /\ \/ ~Whole(agent.conn) /\ UNCHANGED faults
     \/ agent.pc = "welcome" /\ Whole(agent.conn) /\ Fault
  /\ EndSession(<<>>)
  /\ UNCHANGED <<taken, up, cut, hub, owed, strays>>

\* The agent's process is restarted: its buffer is memory.
AgentRestart ==
  /\ Fault
  /\ agent' = Fresh /\ owed' = {}
  /\ IF agent.conn = None THEN UNCHANGED <<ends, down>>
     ELSE ends' = Closed(agent.conn, "agent") /\ down' = [down EXCEPT ![agent.conn] = <<>>]
  /\ UNCHANGED <<taken, up, cut, hub, strays>>

\* The network loses the agent's connection; what had reached the hub's machine
\* may still be read there.
Cut ==
  /\ agent.conn # None /\ Whole(agent.conn) /\ Fault
  /\ cut' = cut \cup {agent.conn} /\ down' = [down EXCEPT ![agent.conn] = <<>>]
  /\ \/ up' = [up EXCEPT ![agent.conn] = <<>>] \/ UNCHANGED up
  /\ UNCHANGED <<agent, taken, ends, hub, owed, strays>>

-----------------------------------------------------------------------------
(* The hub. *)

\* hello is read, the host marked online, and the welcome made of the
\* configuration of this moment ...
ReadHello(c) ==
  /\ handler[c].pc = "hello" /\ up[c] # <<>>
  /\ handler' = [handler EXCEPT ![c].pc = "welcome", ![c].offer = cfg]
  /\ up' = [up EXCEPT ![c] = Tail(@)]
  /\ UNCHANGED <<agent, taken, down, ends, cut, registered, setting, cfg, put, stored, faults, owed, strays>>

\* ... written ...
WriteWelcome(c) ==
  /\ handler[c].pc = "welcome" /\ "hub" \notin ends[c]
  /\ handler' = [handler EXCEPT ![c].pc = "register"]
  /\ down' = IF Whole(c) THEN [down EXCEPT ![c] = Append(@, handler[c].offer)] ELSE down
  /\ UNCHANGED <<agent, taken, up, ends, cut, registered, setting, cfg, put, stored, faults, owed, strays>>

\* ... and the connection takes the place of the host's previous one ...
Register(c) ==
  /\ handler[c].pc = "register"
  /\ registered' = c
  /\ handler' = [handler EXCEPT ![c].pc = IF registered = None THEN "serve" ELSE "close",
                                ![c].old = registered]
  /\ UNCHANGED <<agent, taken, net, setting, cfg, put, stored, faults, owed, strays>>

\* ... which is closed after the lock is released.
CloseOld(c) ==
  /\ handler[c].pc = "close"
  /\ ends' = Closed(handler[c].old, "hub")
  /\ handler' = [handler EXCEPT ![c].pc = "serve", ![c].old = None]
  /\ UNCHANGED <<agent, taken, up, down, cut, registered, setting, cfg, put, stored, faults, owed, strays>>

\* Mutant: a sample must be newer than the newest row by more than the gap.
RefusedWithinGap(s) == stored # {} /\ s <= Max(stored) + 1

Refused(s) == stored # {} /\ s <= Max(stored)

\* One sample is read: the rate cap drops it, the newest row makes it stale ...
TakeSample(c) ==
  /\ handler[c].pc = "serve" /\ up[c] # <<>> /\ "hub" \notin ends[c]
  /\ up' = [up EXCEPT ![c] = Tail(@)]
  /\ \/ handler[c].accepted /\ UNCHANGED handler
     \/ Refused(Head(up[c])) /\ UNCHANGED handler
     \/ ~Refused(Head(up[c]))
        /\ handler' = [handler EXCEPT ![c].pc = "insert", ![c].sample = Head(up[c])]
  /\ UNCHANGED <<agent, taken, down, ends, cut, registered, setting, cfg, put, stored, faults, owed, strays>>

\* ... or it is inserted; the primary key refuses a sample already there.
InsertSample(c) ==
  /\ handler[c].pc = "insert"
  /\ handler' = [handler EXCEPT ![c].pc = "serve", ![c].sample = None,
                                ![c].accepted = @ \/ handler[c].sample \notin stored]
  /\ stored' = stored \cup {handler[c].sample}
  /\ UNCHANGED <<agent, taken, net, registered, setting, cfg, put, faults, owed, strays>>

\* Mutant: the entry of the host goes, whichever connection it names.
UnregisteredAny(c) == None

\* Handler.unregister.
Unregistered(c) == IF registered = c THEN None ELSE registered

\* A read, or the write of the welcome, fails: the goroutine ends.
HandlerEnds(c) ==
  /\ \/ /\ handler[c].pc \in {"hello", "serve"}
        /\ "hub" \in ends[c] \/ (up[c] = <<>> /\ ~Whole(c))
     \/ handler[c].pc = "welcome" /\ ~Whole(c)
  /\ registered' = IF handler[c].pc = "serve" THEN Unregistered(c) ELSE registered
  /\ handler' = [handler EXCEPT ![c] = Idle]
  /\ ends' = Closed(c, "hub") /\ up' = [up EXCEPT ![c] = <<>>]
  /\ cut' = cut \ {c} /\ strays' = strays \ {c}
  /\ UNCHANGED <<agent, taken, down, setting, cfg, put, stored, faults, owed>>

\* The hub restarts: its goroutines are gone, its configuration is the setting.
HubRestart ==
  /\ Fault
  /\ handler' = [c \in Conns |-> Idle] /\ ends' = [c \in Conns |-> ends[c] \cup {"hub"}]
  /\ up' = [c \in Conns |-> <<>>] /\ cut' = {} /\ registered' = None
  /\ cfg' = setting /\ put' = [p \in Puts |-> [NoPut EXCEPT !.pc = IF put[p].pc = "idle" THEN "idle" ELSE "done"]]
  /\ strays' = {}
  /\ UNCHANGED <<agent, taken, down, setting, stored, owed>>

-----------------------------------------------------------------------------
(* The settings page. *)

\* handlePutSettings reads the previous interval ...
PutRead(p, v) ==
  /\ put[p].pc = "idle"
  /\ put' = [put EXCEPT ![p] = [NoPut EXCEPT !.pc = "store", !.val = v, !.prev = setting]]
  /\ strays' = IF \E q \in Puts : put[q].pc \in {"store", "apply", "push"} THEN strays \cup {None} ELSE strays
  /\ UNCHANGED <<agent, taken, net, handler, registered, setting, cfg, stored, faults, owed>>

\* ... stores the new one among three other settings, in the order of a map ...
PutStore(p) ==
  /\ put[p].pc = "store"
  /\ setting' = put[p].val
  /\ put' = [put EXCEPT ![p].pc = IF put[p].prev = put[p].val THEN "done" ELSE "apply"]
  /\ UNCHANGED <<agent, taken, net, handler, registered, cfg, stored, faults, owed, strays>>

\* ... of which one fails, before the interval is stored or after: the request
\* ends with an error, and nothing is given to the ingest handler.
PutFails(p) ==
  /\ put[p].pc \in {"store", "apply"}
  /\ put' = [put EXCEPT ![p] = [NoPut EXCEPT !.pc = "done"]]
  /\ strays' = IF put[p].pc = "apply" THEN strays \cup {Unapplied} ELSE strays
  /\ UNCHANGED <<agent, taken, net, handler, registered, setting, cfg, stored, faults, owed>>

\* Mutant: the configuration keeps the interval the hub started with.
ApplyToNone(v) == cfg

\* The configuration Reconfigure leaves.
Apply(v) == v

\* ... and, when it differs, gives it to the ingest handler, which lists its
\* connections under the lock ...
PutApply(p) ==
  /\ put[p].pc = "apply"
  /\ cfg' = Apply(put[p].val)
  /\ put' = [put EXCEPT ![p].pc = "push", ![p].target = registered]
  /\ strays' = (strays \ {Unapplied}) \cup {c \in Conns : handler[c].pc \in {"welcome", "register"}}
  /\ UNCHANGED <<agent, taken, net, handler, registered, setting, stored, faults, owed>>

\* ... and writes to each after releasing it.
PutPush(p) ==
  /\ put[p].pc = "push"
  /\ down' = IF put[p].target # None /\ Whole(put[p].target)
             THEN [down EXCEPT ![put[p].target] = Append(@, put[p].val)] ELSE down
  /\ put' = [put EXCEPT ![p] = [NoPut EXCEPT !.pc = "done"]]
  /\ UNCHANGED <<agent, taken, up, ends, cut, handler, registered, setting, cfg, stored, faults, owed, strays>>

-----------------------------------------------------------------------------
AgentSteps == (\E c \in Conns : Dial(c)) \/ Welcome \/ LinkLost \/ Receive \/ Reconfigured
              \/ \E s \in Samples : Send(s) \/ SendFails(s)

HandlerSteps(c) == ReadHello(c) \/ WriteWelcome(c) \/ Register(c) \/ CloseOld(c)
                   \/ TakeSample(c) \/ InsertSample(c) \/ HandlerEnds(c)

PutSteps(p) == PutStore(p) \/ PutFails(p) \/ PutApply(p) \/ PutPush(p)

Init ==
  /\ agent = Fresh /\ taken = 0
  /\ up = [c \in Conns |-> <<>>] /\ down = [c \in Conns |-> <<>>]
  /\ ends = [c \in Conns |-> {}] /\ cut = {}
  /\ handler = [c \in Conns |-> Idle] /\ registered = None
  /\ setting = DefaultInterval /\ cfg = setting
  /\ put = [p \in Puts |-> NoPut] /\ stored = {}
  /\ faults = 0 /\ owed = {} /\ strays = {}

Next == AgentSteps \/ AgentRestart \/ Cut \/ HubRestart
        \/ (\E c \in Conns : HandlerSteps(c))
        \/ \E p \in Puts : PutSteps(p) \/ \E v \in Intervals : PutRead(p, v)

\* Go runs every goroutine that can go on: the agent's, the handler of each
\* connection, a request.
Fairness ==
  /\ WF_vars(AgentSteps) /\ WF_vars(\E p \in Puts : PutSteps(p))
  /\ \A c \in Conns : WF_vars(HandlerSteps(c))

Spec == Init /\ [][Next]_vars
FairSpec == Spec /\ Fairness

-----------------------------------------------------------------------------
(* Properties. *)

TypeOK ==
  /\ agent \in [pc : {"away", "welcome", "replay", "live"}, conn : Conns \cup {None},
                interval : Intervals \cup {None}, buf : Seq(Samples), plan : Seq(Samples),
                inbox : Seq(Intervals)]
  /\ Len(agent.inbox) <= InboxCap /\ taken \in 0..MaxSamples
  /\ up \in [Conns -> Seq(Samples \cup {Hello})] /\ down \in [Conns -> Seq(Intervals)]
  /\ ends \in [Conns -> SUBSET {"agent", "hub"}] /\ cut \subseteq Conns
  /\ handler \in [Conns -> [pc : {"none", "hello", "welcome", "register", "close", "serve", "insert"},
                            offer : Intervals \cup {None}, sample : Samples \cup {None},
                            accepted : BOOLEAN, old : Conns \cup {None}]]
  /\ registered \in Conns \cup {None} /\ setting \in Intervals /\ cfg \in Intervals
  /\ put \in [Puts -> [pc : {"idle", "store", "apply", "push", "done"}, val : Intervals \cup {None},
                       prev : Intervals \cup {None}, target : Conns \cup {None}]]
  /\ stored \subseteq Samples /\ faults \in 0..MaxFaults
  /\ owed \subseteq Samples /\ strays \subseteq Conns \cup {None, Unapplied}

\* No sample is taken while away and a session drains the buffer before it
\* sends: of the sixty places of the buffer (link.go:41) one is ever used.
BufferOfOne == Len(agent.buf) + Len(agent.plan) <= 1

\* A sample the agent knows it could not send is in its buffer or its replay
\* until it has been sent: a failing replay loses nothing (link.go:173-178),
\* though it drops the rest of what it drained.
UnsentIsKept ==
  owed \subseteq {agent.buf[i] : i \in DOMAIN agent.buf} \cup {agent.plan[i] : i \in DOMAIN agent.plan}

\* On the connection the agent is using, the hub refuses as stale only what it
\* has stored already: the replay goes out before any fresh sample (link.go:171).
RefusedIsStored ==
  \A c \in Conns : c = agent.conn /\ handler[c].pc = "serve" /\ up[c] # <<>> /\ Refused(Head(up[c]))
                   => Head(up[c]) \in stored

\* A connection that is served is the one registered, or has been closed, or is
\* about to be by the one that replaced it (handler.go:178: no zombie).
NoZombie ==
  \A c \in Conns : handler[c].pc \in {"close", "serve", "insert"} /\ c # registered =>
    "hub" \in ends[c] \/ \E d \in Conns : handler[d].pc = "close" /\ handler[d].old = c

\* Nothing is on its way to the agent in use.
Settled == /\ agent.pc = "live" /\ agent.inbox = <<>> /\ registered = agent.conn
           /\ Whole(agent.conn) /\ down[agent.conn] = <<>>
           /\ \A p \in Puts : put[p].pc \in {"idle", "done"}

\* A connected agent sends at the interval of the settings, the interval the
\* hub judges its silence by, except after two requests at once, an inbox that
\* overflowed or a registration that Reconfigure did not see.  Once a request has
\* failed with the interval stored and not applied (api_settings.go:41), and until
\* another interval is applied or the hub restarts, it sends at the one before.
IntervalKnown ==
  Settled /\ strays \cap {agent.conn, None} = {} =>
    agent.interval = IF Unapplied \in strays THEN cfg ELSE setting

\* Whatever was lost, the agent ends connected, registered and served.
ComesBack == <>[](/\ agent.conn # None /\ agent.pc \in {"replay", "live"} /\ registered = agent.conn
                  /\ handler[agent.conn].pc \in {"serve", "insert"})
=============================================================================
