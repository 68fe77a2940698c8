----------------------------- MODULE AudioRelay -----------------------------
(***************************************************************************)
(* The session-audio relay of the Mac tunnel daemon                        *)
(* (src/tools/mac-tunnel/audio_relay.go and audio_relay_darwin.go).  Audio *)
(* agents, one per logged-in account, connect over a Unix socket; one      *)
(* subscriber at a time asks over UDP for an account's audio and renews    *)
(* its request; the relay tells the agent to start and stop tapping.       *)
(*                                                                         *)
(* The datagram reader, the ticker and one goroutine per agent call the    *)
(* relay; each handler runs under r.mu and is one action.  UDP loses,      *)
(* repeats and delays datagrams, so any address may be heard of at any     *)
(* time.  A command to an agent travels through its socket: cmds[a] is     *)
(* what the agent has not read yet.  A relayAgent is used for one          *)
(* connection; a new connection of the same slot starts afresh.            *)
(***************************************************************************)
EXTENDS Integers, Sequences

CONSTANTS
    Agent,      \* connection slots for agents
    Uid,        \* accounts
    Addr,       \* addresses of subscribers
    None,       \* nil
    SubTimeout, \* audioSubTimeout, in ticks
    MaxCmds     \* bound: commands an agent has not read yet

ASSUME RelayAssumption ==
    /\ None \notin Agent \cup Addr
    /\ SubTimeout \in Nat
    /\ MaxCmds \in Nat \ {0, 1}

VARIABLES
    agents,     \* r.agents: the agents the relay knows
    uidOf,      \* a.uid, from the peer credentials of the connection
    alive,      \* agents whose process is there to read commands
    started,    \* a.started
    active,     \* r.active
    client,     \* r.client
    clientUID,  \* r.clientUID
    age,        \* now - r.lastSub
    due,        \* the ticker has fired and tick() has not run yet
    cmds,       \* per agent: commands sent and not read
    tapping,    \* per agent: the agent captures audio
    gone,       \* addresses whose client has died
    sent        \* the last audio packet forwarded: [to, uid], or None

relayVars == <<agents, started, active, client, clientUID, age, cmds>>
vars == <<agents, uidOf, alive, started, active, client, clientUID, age, due, cmds, tapping, gone, sent>>

Command == {"start", "stop"}

Init ==
    /\ agents = {}
    /\ uidOf \in [Agent -> Uid]
    /\ alive = {}
    /\ started = [a \in Agent |-> FALSE]
    /\ active = None
    /\ client = None
    /\ clientUID \in Uid
    /\ age = 0
    /\ due = FALSE
    /\ cmds = [a \in Agent |-> <<>>]
    /\ tapping = [a \in Agent |-> FALSE]
    /\ gone = {}
    /\ sent = None

-----------------------------------------------------------------------------
(* Agents.                                                                 *)

\* serveAgent -> addAgent, with a fresh relayAgent.
AddAgent(a, u) ==
    /\ a \notin agents
    /\ a \notin alive
    /\ agents' = agents \cup {a}
    /\ uidOf' = [uidOf EXCEPT ![a] = u]
    /\ alive' = alive \cup {a}
    /\ started' = [started EXCEPT ![a] = FALSE]
    /\ cmds' = [cmds EXCEPT ![a] = <<>>]
    /\ tapping' = [tapping EXCEPT ![a] = FALSE]
    /\ UNCHANGED <<active, client, clientUID, age, due, gone, sent>>

\* The agent's process ends; the relay does not know yet.
AgentDies(a) ==
    /\ a \in alive
    /\ alive' = alive \ {a}
    /\ tapping' = [tapping EXCEPT ![a] = FALSE]
    /\ cmds' = [cmds EXCEPT ![a] = <<>>]
    /\ UNCHANGED <<agents, uidOf, started, active, client, clientUID, age, due, gone, sent>>

\* Mutant: the active agent is not forgotten.
RemoveAgentActive(a) ==
    /\ a \in agents
    /\ a \notin alive
    /\ agents' = agents \ {a}
    /\ UNCHANGED <<alive, uidOf, started, active, client, clientUID, age, due, cmds, tapping, gone, sent>>

\* serveAgent's read fails -> removeAgent.
RemoveAgent(a) ==
    /\ a \in agents
    /\ a \notin alive
    /\ agents' = agents \ {a}
    /\ active' = IF active = a THEN None ELSE active
    /\ UNCHANGED <<alive, uidOf, started, client, clientUID, age, due, cmds, tapping, gone, sent>>

\* The agent reads a command.
AgentReads(a) ==
    /\ a \in alive
    /\ cmds[a] # <<>>
    /\ tapping' = [tapping EXCEPT ![a] = Head(cmds[a]) = "start"]
    /\ cmds' = [cmds EXCEPT ![a] = Tail(cmds[a])]
    /\ UNCHANGED <<agents, alive, uidOf, started, active, client, clientUID, age, due, gone, sent>>

\* Mutant: any agent's audio is forwarded.
ForwardsAny(a) == client # None

\* Only the audio of the agent the subscriber asked for is forwarded.
Forwards(a) == active = a /\ client # None

\* onAgentFrame: a frame of audio arrives, however long it was under way.
AgentFrame(a) ==
    /\ a \in agents
    /\ Forwards(a)
    /\ sent' = [to |-> client, uid |-> uidOf[a]]
    /\ UNCHANGED <<relayVars, alive, uidOf, due, tapping, gone>>

-----------------------------------------------------------------------------
(* Subscribers.                                                            *)

\* a.cmd: nobody looks at the error of a write to an agent that has died.
Write(q, a, command) ==
    IF a \in alive THEN [q EXCEPT ![a] = Append(@, command)] ELSE q

\* Mutant: the agent is told to stop but still counts as started.
StoppedFlagKept == started

\* The flags after stopActiveLocked ...
StoppedFlag ==
    IF active # None THEN [started EXCEPT ![active] = FALSE] ELSE started

\* ... and the commands it has sent.
StoppedCmds ==
    IF active # None /\ started[active]
      THEN Write(cmds, active, "stop")
      ELSE cmds

\* No agent's socket is full: a renewal sends at most two commands.
Writable == \A a \in Agent : Len(cmds[a]) + 2 <= MaxCmds

\* onDatagram, "bye": only the current subscriber can end the subscription.
Bye(c) ==
    /\ Writable
    /\ client = c
    /\ started' = StoppedFlag
    /\ cmds' = StoppedCmds
    /\ active' = None
    /\ client' = None
    /\ age' = 0
    /\ UNCHANGED <<agents, alive, uidOf, clientUID, due, tapping, gone, sent>>

\* Mutant: a renewal under another account keeps the agent.
SwitchesAddr(c, u) == client # c

\* onDatagram: this is not the subscriber, or not the account, of before.
Switches(c, u) == client # c \/ clientUID # u

\* onDatagram, "sub".  The account resolves to u; one that does not changes
\* nothing.  stopActiveLocked runs first if the subscriber or the account is
\* new; then an agent is looked for, and told to start unless it is started.
Sub(c, u) ==
    LET flag == IF Switches(c, u) THEN StoppedFlag ELSE started
        q == IF Switches(c, u) THEN StoppedCmds ELSE cmds
        kept == IF Switches(c, u) THEN None ELSE active
        found == {a \in agents : uidOf[a] = u}
    IN /\ Writable
       /\ client' = c
       /\ clientUID' = u
       /\ age' = 0
       /\ \/ /\ kept = None /\ found = {}
             /\ active' = None
             /\ started' = flag
             /\ cmds' = q
          \/ \E a \in (IF kept = None THEN found ELSE {kept}) :
                /\ active' = a
                /\ started' = [flag EXCEPT ![a] = TRUE]
                /\ cmds' = IF flag[a] THEN q ELSE Write(q, a, "start")
       /\ UNCHANGED <<agents, alive, uidOf, due, tapping, gone, sent>>

\* The client dies, or the tunnel goes away: it will not renew any more.
ClientDies(c) ==
    /\ c \notin gone
    /\ gone' = gone \cup {c}
    /\ UNCHANGED <<relayVars, alive, uidOf, due, tapping, sent>>

-----------------------------------------------------------------------------
(* Time: one unit is the ticker's second.                                  *)

\* Bound: an age beyond this one is not told apart from it.
MaxAge == SubTimeout + 2

\* The ticker drops no second: tick() runs before the next one.
Second ==
    /\ ~due
    /\ due' = TRUE
    /\ age' = IF client # None /\ age < MaxAge THEN age + 1 ELSE age
    /\ UNCHANGED <<agents, alive, uidOf, started, active, client, clientUID, cmds, tapping, gone, sent>>

\* Mutant: the comparison is the wrong way round by one second.
ExpiredLate == age > SubTimeout + 1

\* Mutant: only a subscriber that has an agent times out.
ExpiredServed == age > SubTimeout /\ active # None

Expired == age > SubTimeout

\* tick: drop a subscriber that stopped renewing.
Tick ==
    /\ Writable
    /\ due
    /\ due' = FALSE
    /\ IF client # None /\ Expired
         THEN /\ started' = StoppedFlag
              /\ cmds' = StoppedCmds
              /\ active' = None
              /\ client' = None
              /\ age' = 0
         ELSE UNCHANGED <<started, cmds, active, client, age>>
    /\ UNCHANGED <<agents, alive, uidOf, clientUID, tapping, gone, sent>>

Next ==
    \/ \E a \in Agent : \/ \E u \in Uid : AddAgent(a, u)
                        \/ AgentDies(a) \/ RemoveAgent(a)
                        \/ AgentReads(a) \/ AgentFrame(a)
    \/ \E c \in Addr \ gone : Bye(c) \/ ClientDies(c) \/ \E u \in Uid : Sub(c, u)
    \/ Second
    \/ Tick

\* The subscriber that is there renews: session_audio_thread sends a "sub"
\* every second for as long as its session lasts.
Renew == \E c \in Addr \ gone, u \in Uid : client = c /\ clientUID = u /\ Sub(c, u)

\* Goroutines and agents get on; a lost renewal is followed by another one.
Fairness ==
    /\ \A a \in Agent : WF_vars(RemoveAgent(a)) /\ WF_vars(AgentReads(a))
    /\ WF_vars(Second)
    /\ SF_vars(Tick)
    /\ SF_vars(Renew)

Spec == Init /\ [][Next]_vars

FairSpec == Spec /\ Fairness

-----------------------------------------------------------------------------
(* Properties.                                                             *)

\* The relay's state has the types of the struct.
TypeOK ==
    /\ agents \subseteq Agent
    /\ uidOf \in [Agent -> Uid]
    /\ alive \subseteq agents
    /\ started \in [Agent -> BOOLEAN]
    /\ active \in agents \cup {None}
    /\ client \in Addr \cup {None}
    /\ clientUID \in Uid
    /\ age \in Nat
    /\ due \in BOOLEAN
    /\ cmds \in [Agent -> Seq(Command)]
    /\ tapping \in [Agent -> BOOLEAN]
    /\ gone \subseteq Addr
    /\ sent \in [to : Addr, uid : Uid] \cup {None}

\* The only agent that has been told to start, and not to stop, is the one
\* the current subscriber asked for: an agent never captures for nobody.
StartedIsWanted ==
    \A a \in agents :
        started[a] => active = a /\ client # None /\ uidOf[a] = clientUID

\* The agent ends up doing what the relay believes it does: the commands it
\* has still to read end in the state the relay has noted.
AgentFollows ==
    \A a \in alive :
        started[a] = IF cmds[a] = <<>> THEN tapping[a] ELSE cmds[a][Len(cmds[a])] = "start"

\* Audio is forwarded only to the current subscriber, and only from an agent
\* of the account it asked for, however late the frame arrives.
ForwardedAsAsked ==
    [][sent' # sent => sent'.to = client /\ sent'.uid = clientUID]_vars

\* A subscriber is dropped at the first tick after its time-out.
ExpiresInTime == client # None => age <= SubTimeout + 1

\* A subscriber that has died is dropped or replaced, so that its agent stops.
DeadIsDropped == \A c \in Addr : (c \in gone /\ client = c) ~> client # c

\* A subscriber that keeps renewing gets its audio captured once agents have
\* stopped coming and going and one of them is of its account, also after the
\* agent that served it went away.
RenewalFindsAgent ==
    \A c \in Addr, a \in Agent, up \in SUBSET Agent :
        a \in up /\ <>[](client = c /\ c \notin gone /\ clientUID = uidOf[a] /\ alive = up)
            => <>[](active # None /\ tapping[active])

\* Under subscriptions, byes, time-outs and agents that come and go: only
\* the agent that is asked for captures, each agent is led to what the relay
\* has noted of it, and a subscription ends in time.
AgentsObey == StartedIsWanted /\ AgentFollows /\ ExpiresInTime

\* After a death: a dead client is dropped, and a client that goes on
\* renewing is served again after its agent went away.
RelayRecovers == DeadIsDropped /\ RenewalFindsAgent

=============================================================================
