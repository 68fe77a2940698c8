---------------------------- MODULE ViewerProofs ----------------------------
(***************************************************************************)
(* Proofs about what the viewer presents, plays, sends and asks for, each  *)
(* by itself: AudioRelay and AudioSink, the sound on the Mac and in the    *)
(* viewer; Renderer, the swap chains the pictures are presented with;      *)
(* KeyRouting, the keys that go to the Mac; and Feedback, the requests for *)
(* a frame.                                                                *)
(***************************************************************************)
EXTENDS AudioRelay, AudioSink, Renderer, KeyRouting, Feedback, TLAPS

-----------------------------------------------------------------------------
(* AudioRelay, for any number of agents, accounts and subscribers.  The    *)
(* inductive invariant adds to the properties what ties r.active to the    *)
(* subscriber, and that a subscription which is over its time is one the   *)
(* ticker has not looked at yet.                                           *)

\* The active agent is of the account the current subscriber asked for.
ActiveIsWanted ==
    active # None => client # None /\ uidOf[active] = clientUID

\* Before the ticker fires again the subscription is within its time.
AgeBounded ==
    client # None => age <= SubTimeout + 1 /\ (~due => age <= SubTimeout)

Inv ==
    /\ TypeOK
    /\ ActiveIsWanted
    /\ StartedIsWanted
    /\ AgentFollows
    /\ AgeBounded

\* What an agent does once it has read all its commands.
Final(a, told, tap) == IF told[a] = <<>> THEN tap[a] ELSE told[a][Len(told[a])] = "start"

\* The last command written to a socket is the last one read from it.
LEMMA LastOfAppend ==
    ASSUME NEW S, NEW s \in Seq(S), NEW e \in S
    PROVE  Append(s, e) # <<>> /\ Append(s, e)[Len(Append(s, e))] = e
<1>1. Len(Append(s, e)) = Len(s) + 1 /\ Len(s) \in Nat
  OBVIOUS
<1>2. Append(s, e)[Len(s) + 1] = e
  OBVIOUS
<1>3. Append(s, e) # <<>>
  BY <1>1
<1> QED BY Zenon, <1>1, <1>2, <1>3

\* Reading the first command leaves the last one last.
LEMMA LastOfTail ==
    ASSUME NEW S, NEW s \in Seq(S), s # <<>>
    PROVE  /\ Tail(s) = <<>> => Head(s) = s[Len(s)]
           /\ Tail(s) # <<>> => Tail(s)[Len(Tail(s))] = s[Len(s)]
<1>1. Len(s) \in Nat /\ Len(s) # 0 /\ Head(s) = s[1]
  OBVIOUS
<1>2. Tail(s) \in Seq(S) /\ Len(Tail(s)) = Len(s) - 1
  BY <1>1
<1>3. Tail(s) = <<>> => Len(s) = 1
  <2>1. Len(<<>>) = 0
    OBVIOUS
  <2>2. Tail(s) = <<>> => Len(Tail(s)) = 0
    BY Zenon, <2>1, Zenon
  <2> QED BY <1>1, <1>2, <2>2
<1>4. Tail(s) # <<>> => Len(Tail(s)) \in 1..Len(Tail(s))
  BY <1>1, <1>2
<1>5. \A i \in 1..Len(Tail(s)) : Tail(s)[i] = s[i + 1]
  BY <1>1, <1>2
<1>6. Tail(s) # <<>> => Tail(s)[Len(Tail(s))] = s[Len(s)]
  BY <1>1, <1>2, <1>4, <1>5
<1> QED BY Zenon, <1>1, <1>3, <1>6

\* stopActiveLocked: no agent counts as started any more, the active one is
\* told so, and the other agents' sockets are left alone.
LEMMA StopActive ==
    ASSUME Inv
    PROVE  /\ StoppedFlag \in [Agent -> BOOLEAN]
           /\ StoppedCmds \in [Agent -> Seq(Command)]
           /\ \A a \in agents : StoppedFlag[a] = FALSE
           /\ \A a \in alive : StoppedFlag[a] = Final(a, StoppedCmds, tapping)
<1> USE RelayAssumption DEF Inv, TypeOK
<1>1. CASE active = None
  <2>1. StoppedFlag = started /\ StoppedCmds = cmds
    BY Zenon, <1>1 DEF StoppedFlag, StoppedCmds
  <2>2. \A a \in agents : started[a] = FALSE
    BY Zenon, <1>1, <2>1 DEF StartedIsWanted
  <2>3. \A a \in alive : started[a] = Final(a, cmds, tapping)
    BY Zenon DEF AgentFollows, Final
  <2> QED BY Zenon, <2>1, <2>2, <2>3
<1>2. CASE active # None
  <2>0. active \in Agent
    BY Zenon, <1>2
  <2>1. StoppedFlag = [started EXCEPT ![active] = FALSE]
    BY Zenon, <1>2 DEF StoppedFlag
  <2>2. StoppedFlag \in [Agent -> BOOLEAN] /\ StoppedFlag[active] = FALSE
    BY Zenon, <2>0, <2>1
  <2>3. \A a \in Agent : a # active => StoppedFlag[a] = started[a]
    BY Zenon, <2>0, <2>1
  <2>4. \A a \in agents : StoppedFlag[a] = FALSE
    BY Zenon, <2>2, <2>3 DEF StartedIsWanted
  <2>5. StoppedCmds \in [Agent -> Seq(Command)]
    BY <2>0 DEF StoppedCmds, Write, Command
  <2>6. ASSUME NEW a \in alive PROVE StoppedFlag[a] = Final(a, StoppedCmds, tapping)
    <3>1. CASE a # active
      <4>1. StoppedCmds[a] = cmds[a]
        BY Zenon, <2>0, <3>1 DEF StoppedCmds, Write
      <4> QED BY <2>3, <3>1, <4>1 DEF AgentFollows, Final
    <3>2. CASE a = active /\ started[active]
      <4>1. StoppedCmds[a] = Append(cmds[a], "stop")
        BY Zenon, <1>2, <2>0, <2>6, <3>2 DEF StoppedCmds, Write
      <4>2. cmds[a] \in Seq(Command) /\ "stop" \in Command
        BY Zenon, <2>0, <3>2 DEF Command
      <4>3. StoppedCmds[a] # <<>> /\ StoppedCmds[a][Len(StoppedCmds[a])] = "stop"
        <5> HIDE DEF Inv, TypeOK
        <5> QED BY <4>1, <4>2, LastOfAppend
      <4> QED BY Zenon, <2>2, <3>2, <4>3 DEF Final
    <3>3. CASE a = active /\ ~started[active]
      <4>1. StoppedCmds = cmds
        BY Zenon, <3>3 DEF StoppedCmds
      <4>2. started[a] = FALSE
        BY Zenon, <2>0, <3>3
      <4> QED BY Zenon, <2>2, <3>3, <4>1, <4>2 DEF AgentFollows, Final
    <3> QED BY Zenon, <3>1, <3>2, <3>3
  <2> QED BY Zenon, <2>2, <2>4, <2>5, <2>6
<1> QED BY Zenon, <1>1, <1>2

\* The end of a subscription (bye or time-out).
LEMMA Unsubscribe ==
    ASSUME Inv, started' = StoppedFlag, cmds' = StoppedCmds, active' = None, client' = None,
           age' = 0, due' \in BOOLEAN, UNCHANGED <<agents, alive, uidOf, clientUID, tapping, gone, sent>>
    PROVE  Inv'
<1>0. /\ StoppedFlag \in [Agent -> BOOLEAN]
      /\ StoppedCmds \in [Agent -> Seq(Command)]
      /\ \A a \in agents : StoppedFlag[a] = FALSE
      /\ \A a \in alive : StoppedFlag[a] = Final(a, StoppedCmds, tapping)
  BY Zenon, StopActive
<1>1. TypeOK'
  BY Zenon, <1>0 DEF Inv, TypeOK
<1>2. ActiveIsWanted' /\ AgeBounded'
  BY Zenon DEF ActiveIsWanted, AgeBounded
<1>3. StartedIsWanted'
  BY Zenon, <1>0 DEF StartedIsWanted
<1>4. AgentFollows'
  BY Zenon, <1>0 DEF AgentFollows, Final
<1> QED BY Zenon, <1>1, <1>2, <1>3, <1>4 DEF Inv

\* A subscription or its renewal keeps the invariant.
LEMMA SubInv ==
    ASSUME Inv, NEW c \in Addr, NEW u \in Uid, Sub(c, u)
    PROVE  Inv'
<1> DEFINE flag == IF Switches(c, u) THEN StoppedFlag ELSE started
           told == IF Switches(c, u) THEN StoppedCmds ELSE cmds
           kept == IF Switches(c, u) THEN None ELSE active
           found == {a \in agents : uidOf[a] = u}
<1>0. TypeOK /\ None \notin Agent \cup Addr
  BY Zenon, RelayAssumption DEF Inv
<1>1. /\ flag \in [Agent -> BOOLEAN]
      /\ told \in [Agent -> Seq(Command)]
      /\ \A b \in alive : flag[b] = Final(b, told, tapping)
  <2>1. CASE Switches(c, u)
    BY Zenon, <2>1, StopActive
  <2>2. CASE ~Switches(c, u)
    BY Zenon, <2>2 DEF Inv, TypeOK, AgentFollows, Final
  <2> QED BY Zenon, <2>1, <2>2
<1>2. \A b \in agents : flag[b] => kept = b /\ uidOf[b] = u
  <2>1. CASE Switches(c, u)
    BY Zenon, <2>1, StopActive
  <2>2. CASE ~Switches(c, u)
    BY Zenon, <2>2 DEF Inv, StartedIsWanted, Switches
  <2> QED BY Zenon, <2>1, <2>2
<1>3. kept # None => kept \in agents /\ uidOf[kept] = u
  BY Zenon DEF Inv, TypeOK, ActiveIsWanted, Switches
<1>4. /\ client' = c /\ clientUID' = u /\ age' = 0
      /\ UNCHANGED <<agents, alive, uidOf, due, tapping, gone, sent>>
  BY Zenon DEF Sub
<1>5. \/ kept = None /\ active' = None /\ started' = flag /\ cmds' = told
      \/ \E a \in (IF kept = None THEN found ELSE {kept}) :
            /\ active' = a
            /\ started' = [flag EXCEPT ![a] = TRUE]
            /\ cmds' = IF flag[a] THEN told ELSE Write(told, a, "start")
  BY Zenon DEF Sub
<1>6. AgeBounded'
  BY <1>4, RelayAssumption DEF AgeBounded
<1> HIDE DEF flag, told, kept
<1>7. CASE kept = None /\ active' = None /\ started' = flag /\ cmds' = told
  <2>1. TypeOK'
    BY Zenon, <1>0, <1>1, <1>4, <1>7 DEF TypeOK
  <2>2. ActiveIsWanted'
    BY Zenon, <1>7 DEF ActiveIsWanted
  <2>3. StartedIsWanted'
    BY Zenon, <1>0, <1>2, <1>4, <1>7 DEF StartedIsWanted, TypeOK
  <2>4. AgentFollows'
    BY Zenon, <1>1, <1>4, <1>7 DEF AgentFollows, Final
  <2> QED BY Zenon, <1>6, <2>1, <2>2, <2>3, <2>4 DEF Inv
<1>8. ASSUME NEW a \in (IF kept = None THEN found ELSE {kept}),
             active' = a, started' = [flag EXCEPT ![a] = TRUE],
             cmds' = IF flag[a] THEN told ELSE Write(told, a, "start")
      PROVE  Inv'
  <2>1. a \in agents /\ uidOf[a] = u
    BY Zenon, <1>3
  <2>2. \A b \in agents : b # a => flag[b] = FALSE
    <3>1. \A b \in agents : flag[b] => b = a
      BY Zenon, <1>0, <1>2 DEF TypeOK
    <3>2. \A b \in agents : flag[b] \in BOOLEAN
      BY Zenon, <1>0, <1>1 DEF TypeOK
    <3> QED BY Zenon, <3>1, <3>2
  <2> HIDE DEF found
  <2>3. /\ started' \in [Agent -> BOOLEAN]
        /\ cmds' \in [Agent -> Seq(Command)]
        /\ \A b \in agents : started'[b] => b = a
    <3>1. a \in Agent /\ agents \subseteq Agent /\ "start" \in Command
      BY Zenon, <1>0, <2>1 DEF TypeOK, Command
    <3>2. cmds' \in [Agent -> Seq(Command)]
      BY <1>1, <1>8, <3>1 DEF Write
    <3>3. started' \in [Agent -> BOOLEAN] /\ \A b \in Agent : b # a => started'[b] = flag[b]
      BY Zenon, <1>1, <1>8, <3>1
    <3> QED BY Zenon, <2>2, <3>1, <3>2, <3>3
  <2>3a. AgentFollows'
    <3>0. a \in Agent /\ alive \subseteq Agent /\ "start" \in Command
      BY Zenon, <1>0, <2>1 DEF TypeOK, Command
    <3>1. SUFFICES ASSUME NEW b \in alive
                   PROVE  started'[b] = IF cmds'[b] = <<>> THEN tapping[b]
                                        ELSE cmds'[b][Len(cmds'[b])] = "start"
      BY Zenon, <1>4 DEF AgentFollows
    <3>2. flag[b] = IF told[b] = <<>> THEN tapping[b] ELSE told[b][Len(told[b])] = "start"
      BY Zenon, <1>1 DEF Final
    <3>3. CASE b # a
      <4>1. started'[b] = flag[b] /\ cmds'[b] = told[b]
        BY Zenon, <1>1, <1>8, <3>0, <3>3 DEF Write
      <4> QED BY Zenon, <3>2, <4>1
    <3>4. CASE b = a /\ flag[a]
      <4>1. started'[b] = TRUE /\ cmds'[b] = told[b] /\ flag[b] = TRUE
        BY Zenon, <1>1, <1>8, <3>0, <3>4
      <4> QED BY Zenon, <3>2, <4>1
    <3>5. CASE b = a /\ ~flag[a]
      <4>1. started'[b] = TRUE /\ cmds'[b] = Append(told[b], "start")
        BY Zenon, <1>1, <1>8, <3>0, <3>5 DEF Write
      <4>2. told[b] \in Seq(Command)
        BY Zenon, <1>1, <3>0
      <4>3. cmds'[b] # <<>> /\ cmds'[b][Len(cmds'[b])] = "start"
        BY <3>0, <4>1, <4>2, LastOfAppend
      <4> QED BY Zenon, <4>1, <4>3
    <3> QED BY Zenon, <3>3, <3>4, <3>5
  <2>4. TypeOK'
    BY Zenon, <1>0, <1>4, <1>8, <2>1, <2>3 DEF TypeOK
  <2>5. ActiveIsWanted' /\ StartedIsWanted'
    BY Zenon, <1>0, <1>4, <1>8, <2>1, <2>3 DEF ActiveIsWanted, StartedIsWanted
  <2> QED BY Zenon, <1>6, <2>3a, <2>4, <2>5 DEF Inv
<1> QED BY Zenon, <1>5, <1>7, <1>8

\* Every step of the relay, of an agent and of a subscriber keeps it.
LEMMA NextInv == Inv /\ [Next]_vars => Inv'
<1> SUFFICES ASSUME Inv, [Next]_vars PROVE Inv'
  OBVIOUS
<1> USE DEF Inv
<1>1. ASSUME NEW a \in Agent, NEW u \in Uid, AddAgent(a, u) PROVE Inv'
  <2>1. TypeOK'
    BY <1>1 DEF AddAgent, TypeOK
  <2>2. ActiveIsWanted' /\ AgeBounded'
    <3>1. active # None => active # a /\ uidOf'[active] = uidOf[active]
      BY Zenon, <1>1 DEF AddAgent, TypeOK
    <3> QED BY Zenon, <1>1, <3>1 DEF AddAgent, ActiveIsWanted, AgeBounded
  <2>3. StartedIsWanted'
    BY Zenon, <1>1 DEF AddAgent, StartedIsWanted, TypeOK
  <2>4. AgentFollows'
    <3>1. /\ started'[a] = FALSE /\ cmds'[a] = <<>> /\ tapping'[a] = FALSE
          /\ \A b \in alive : b # a /\ started'[b] = started[b] /\ cmds'[b] = cmds[b]
                              /\ tapping'[b] = tapping[b]
      BY Zenon, <1>1 DEF AddAgent, TypeOK
    <3>2. alive' = alive \cup {a}
      BY Zenon, <1>1 DEF AddAgent
    <3> QED BY Zenon, <3>1, <3>2 DEF AgentFollows
  <2> QED BY <2>1, <2>2, <2>3, <2>4
<1>2. ASSUME NEW a \in Agent, AgentDies(a) PROVE Inv'
  <2>1. TypeOK'
    BY <1>2 DEF AgentDies, TypeOK
  <2>2. ActiveIsWanted' /\ AgeBounded' /\ StartedIsWanted'
    BY Zenon, <1>2 DEF AgentDies, ActiveIsWanted, AgeBounded, StartedIsWanted
  <2>3. AgentFollows'
    <3>1. \A b \in alive' : b \in alive /\ started'[b] = started[b] /\ cmds'[b] = cmds[b]
                            /\ tapping'[b] = tapping[b]
      BY Zenon, <1>2 DEF AgentDies, TypeOK
    <3> QED BY Zenon, <3>1 DEF AgentFollows
  <2> QED BY Zenon, <2>1, <2>2, <2>3
<1>3. ASSUME NEW a \in Agent, RemoveAgent(a) PROVE Inv'
  <2>1. TypeOK'
    BY Zenon, <1>3 DEF RemoveAgent, TypeOK
  <2>2. ActiveIsWanted' /\ AgeBounded' /\ StartedIsWanted' /\ AgentFollows'
    BY Zenon, <1>3 DEF RemoveAgent, ActiveIsWanted, AgeBounded, StartedIsWanted, AgentFollows, TypeOK
  <2> QED BY Zenon, <2>1, <2>2
<1>4. ASSUME NEW a \in Agent, AgentReads(a) PROVE Inv'
  <2>0. cmds[a] \in Seq(Command) /\ cmds[a] # <<>>
    BY Zenon, <1>4 DEF AgentReads, TypeOK
  <2>1. TypeOK'
    BY <1>4, <2>0 DEF AgentReads, TypeOK
  <2>2. ActiveIsWanted' /\ AgeBounded' /\ StartedIsWanted'
    BY Zenon, <1>4 DEF AgentReads, ActiveIsWanted, AgeBounded, StartedIsWanted
  <2>3. AgentFollows'
    <3>1. SUFFICES ASSUME NEW b \in alive
                   PROVE  started[b] = IF cmds'[b] = <<>> THEN tapping'[b]
                                       ELSE cmds'[b][Len(cmds'[b])] = "start"
      BY Zenon, <1>4 DEF AgentReads, AgentFollows
    <3>2. started[b] = IF cmds[b] = <<>> THEN tapping[b] ELSE cmds[b][Len(cmds[b])] = "start"
      BY Zenon DEF AgentFollows
    <3>3. CASE b # a
      <4>1. cmds'[b] = cmds[b] /\ tapping'[b] = tapping[b]
        BY Zenon, <1>4, <3>3 DEF AgentReads, TypeOK
      <4> QED BY Zenon, <3>2, <4>1
    <3>4. CASE b = a
      <4>1. cmds'[a] = Tail(cmds[a]) /\ tapping'[a] = (Head(cmds[a]) = "start")
        BY Zenon, <1>4 DEF AgentReads, TypeOK
      <4>2. started[a] = (cmds[a][Len(cmds[a])] = "start")
        BY Zenon, <2>0, <3>2, <3>4
      <4>3. /\ Tail(cmds[a]) = <<>> => Head(cmds[a]) = cmds[a][Len(cmds[a])]
            /\ Tail(cmds[a]) # <<>> =>
                 Tail(cmds[a])[Len(Tail(cmds[a]))] = cmds[a][Len(cmds[a])]
        BY Zenon, <2>0, LastOfTail
      <4> QED BY Zenon, <3>4, <4>1, <4>2, <4>3
    <3> QED BY Zenon, <3>3, <3>4
  <2> QED BY Zenon, <2>1, <2>2, <2>3
<1>5. ASSUME NEW a \in Agent, AgentFrame(a) PROVE Inv'
  <2>1. TypeOK'
    BY Zenon, <1>5, RelayAssumption DEF AgentFrame, Forwards, TypeOK, relayVars
  <2>2. ActiveIsWanted' /\ AgeBounded' /\ StartedIsWanted' /\ AgentFollows'
    BY Zenon, <1>5 DEF AgentFrame, relayVars, ActiveIsWanted, AgeBounded, StartedIsWanted, AgentFollows
  <2> QED BY Zenon, <2>1, <2>2
<1>6. ASSUME NEW c \in Addr, Bye(c) PROVE Inv'
  BY Zenon, <1>6, Unsubscribe DEF Bye, TypeOK
<1>7. ASSUME NEW c \in Addr, ClientDies(c) PROVE Inv'
  <2>1. TypeOK'
    BY Zenon, <1>7 DEF ClientDies, TypeOK, relayVars
  <2>2. ActiveIsWanted' /\ AgeBounded' /\ StartedIsWanted' /\ AgentFollows'
    BY Zenon, <1>7 DEF ClientDies, relayVars, ActiveIsWanted, AgeBounded, StartedIsWanted, AgentFollows
  <2> QED BY Zenon, <2>1, <2>2
<1>8. ASSUME NEW c \in Addr, NEW u \in Uid, Sub(c, u) PROVE Inv'
  BY Zenon, <1>8, SubInv
<1>9. CASE Second
  <2>1. TypeOK'
    BY <1>9, RelayAssumption DEF Second, TypeOK, MaxAge
  <2>2. ActiveIsWanted' /\ StartedIsWanted' /\ AgentFollows'
    BY Zenon, <1>9 DEF Second, ActiveIsWanted, StartedIsWanted, AgentFollows
  <2>3. AgeBounded'
    BY <1>9, RelayAssumption DEF Second, AgeBounded, TypeOK, MaxAge
  <2> QED BY Zenon, <2>1, <2>2, <2>3
<1>10. CASE Tick
  <2>1. CASE client # None /\ Expired
    BY Zenon, <1>10, <2>1, Unsubscribe DEF Tick
  <2>2. CASE ~(client # None /\ Expired)
    <3>1. /\ due' = FALSE
          /\ UNCHANGED <<agents, alive, uidOf, started, active, client, clientUID, age, cmds,
                         tapping, gone, sent>>
      BY Zenon, <1>10, <2>2 DEF Tick
    <3>2. TypeOK'
      BY Zenon, <3>1 DEF TypeOK
    <3>3. ActiveIsWanted' /\ StartedIsWanted' /\ AgentFollows'
      BY Zenon, <3>1 DEF ActiveIsWanted, StartedIsWanted, AgentFollows
    <3>4. AgeBounded'
      BY <2>2, <3>1, RelayAssumption DEF AgeBounded, Expired, TypeOK
    <3> QED BY Zenon, <3>2, <3>3, <3>4
  <2> QED BY Zenon, <2>1, <2>2
<1>11. CASE UNCHANGED vars
  BY Zenon, <1>11 DEF vars, TypeOK, ActiveIsWanted, StartedIsWanted, AgentFollows, AgeBounded
<1> QED BY Zenon, <1>1, <1>2, <1>3, <1>4, <1>5, <1>6, <1>7, <1>8, <1>9, <1>10, <1>11 DEF Next

\* The invariant holds throughout.
LEMMA InductiveInv == Spec => []Inv
<1>1. Init => Inv
  <2> SUFFICES ASSUME Init PROVE Inv
    OBVIOUS
  <2>1. <<>> \in Seq(Command)
    OBVIOUS
  <2>2. cmds \in [Agent -> Seq(Command)] /\ started \in [Agent -> BOOLEAN]
        /\ tapping \in [Agent -> BOOLEAN]
    BY Zenon, <2>1 DEF Init
  <2>3. TypeOK
    BY Zenon, <2>2 DEF Init, TypeOK
  <2>4. ActiveIsWanted /\ StartedIsWanted /\ AgentFollows /\ AgeBounded
    BY Zenon DEF Init, ActiveIsWanted, StartedIsWanted, AgentFollows, AgeBounded
  <2> QED BY Zenon, <2>3, <2>4 DEF Inv
<1> QED BY <1>1, NextInv, PTL DEF Spec

\* The relay's state keeps the types of the struct.
THEOREM TypeCorrect == Spec => []TypeOK
<1>1. Inv => TypeOK
  BY Zenon DEF Inv
<1> QED BY <1>1, InductiveInv, PTL

\* stopActiveLocked and onDatagram leave no agent started for nobody.
THEOREM NobodyIsTapped == Spec => []StartedIsWanted
<1>1. Inv => StartedIsWanted
  BY Zenon DEF Inv
<1> QED BY <1>1, InductiveInv, PTL

\* Whatever is under way in the sockets, the agents end up doing what the
\* relay has noted in a.started.
THEOREM AgentsFollow == Spec => []AgentFollows
<1>1. Inv => AgentFollows
  BY Zenon DEF Inv
<1> QED BY <1>1, InductiveInv, PTL

\* tick drops a silent subscriber at the first tick after the time-out.
THEOREM Expires == Spec => []ExpiresInTime
<1>1. Inv => ExpiresInTime
  BY Zenon DEF Inv, AgeBounded, ExpiresInTime
<1> QED BY <1>1, InductiveInv, PTL

\* onAgentFrame forwards to the subscriber only what it asked for.
THEOREM ForwardsAsAsked == Spec => ForwardedAsAsked
<1>1. Inv /\ [Next]_vars => [sent' # sent => sent'.to = client /\ sent'.uid = clientUID]_vars
  <2> SUFFICES ASSUME Inv, Next, sent' # sent
               PROVE  sent'.to = client /\ sent'.uid = clientUID
    BY Zenon DEF vars
  <2>1. PICK a \in Agent : AgentFrame(a)
    <3>1. ASSUME NEW a \in Agent, NEW u \in Uid
          PROVE  ~AddAgent(a, u)
      BY Zenon DEF AddAgent
    <3>2. ASSUME NEW a \in Agent
          PROVE  ~AgentDies(a) /\ ~RemoveAgent(a) /\ ~AgentReads(a)
      BY Zenon DEF AgentDies, RemoveAgent, AgentReads
    <3>3. ASSUME NEW c \in Addr
          PROVE  ~Bye(c) /\ ~ClientDies(c) /\ \A u \in Uid : ~Sub(c, u)
      BY Zenon DEF Bye, ClientDies, Sub
    <3>4. ~Second /\ ~Tick
      BY Zenon DEF Second, Tick
    <3> QED BY Zenon, <3>1, <3>2, <3>3, <3>4 DEF Next
  <2> QED BY Zenon, <2>1, RelayAssumption DEF AgentFrame, Forwards, Inv, TypeOK, ActiveIsWanted
<1> QED BY <1>1, InductiveInv, PTL DEF Spec, ForwardedAsAsked

\* The three together, the invariant of the relay run: only the agent that is
\* asked for captures, agents follow a.started, and a silent subscriber is
\* dropped in time.
THEOREM RelayIsObeyed == Spec => []AgentsObey
<1> QED BY NobodyIsTapped, AgentsFollow, Expires, PTL DEF AgentsObey

-----------------------------------------------------------------------------
(* AudioSink: what is queued is in the order it was fed, and newer than     *)
(* what was written.                                                        *)

Sample == [n : Nat, id : Nat, t : Nat]

\* Frames in the order they were fed, none of them fed after now or numbered beyond last.
InOrder(s, last, time) ==
  /\ s \in Seq(Sample)
  /\ \A i \in 1 .. Len(s) : s[i].n <= last /\ s[i].t <= time
  /\ \A i, j \in 1 .. Len(s) : i < j => s[i].n < s[j].n /\ s[i].t <= s[j].t

Newer(s, f) == \A i \in 1 .. Len(f), j \in 1 .. Len(s) : f[i].n < s[j].n

AuInv ==
  /\ now \in Nat /\ feeds \in Nat
  /\ InOrder(q, feeds * ChunkFrames, now)
  /\ InOrder(out.frames, feeds * ChunkFrames, now)
  /\ Newer(q, out.frames)
  /\ NeverLate

\* p is the piece of s from frame a to frame b.
IsPiece(p, s, a, b) ==
  /\ Len(p) = IF a <= b THEN b - a + 1 ELSE 0
  /\ \A i \in 1 .. Len(p) : p[i] = s[a + i - 1] /\ a + i - 1 \in 1 .. Len(s)

\* A piece of an ordered queue is ordered.
LEMMA Piece ==
  ASSUME NEW s, NEW last \in Nat, NEW time \in Nat, InOrder(s, last, time),
         NEW a \in Nat \ {0}, NEW b \in 0 .. Len(s)
  PROVE  InOrder(SubSeq(s, a, b), last, time) /\ IsPiece(SubSeq(s, a, b), s, a, b)
<1> DEFINE p == SubSeq(s, a, b)
<1>1. s \in Seq(Sample)
  BY Zenon DEF InOrder
<1>2. /\ p \in Seq(Sample) /\ Len(p) = IF a <= b THEN b - a + 1 ELSE 0
      /\ \A i \in 1 .. Len(p) : p[i] = s[a + i - 1]
  BY <1>1
<1>3. \A i \in 1 .. Len(p) : a + i - 1 \in 1 .. Len(s)
  BY <1>1, <1>2
<1> HIDE DEF p
<1>4. \A i \in 1 .. Len(p) : p[i].n <= last /\ p[i].t <= time
  BY Zenon, <1>2, <1>3 DEF InOrder
<1>5. ASSUME NEW i \in 1 .. Len(p), NEW j \in 1 .. Len(p), i < j
      PROVE  p[i].n < p[j].n /\ p[i].t <= p[j].t
  <2>1. a + i - 1 \in 1 .. Len(s) /\ a + j - 1 \in 1 .. Len(s) /\ a + i - 1 < a + j - 1
    BY <1>2, <1>3, <1>5
  <2> QED BY Zenon, <1>2, <1>5, <2>1 DEF InOrder
<1>6. InOrder(p, last, time)
  BY Zenon, <1>2, <1>4, <1>5 DEF InOrder
<1> QED BY Zenon, <1>2, <1>3, <1>6 DEF p, IsPiece

\* Where the samples of a piece come from.
LEMMA PlaceInPiece ==
  ASSUME NEW n \in Nat, NEW m \in Nat, NEW i \in 1 .. (IF n + 1 <= m THEN m - (n + 1) + 1 ELSE 0)
  PROVE  (n + 1) + i - 1 = n + i /\ n + i > n /\ n + i <= m
  OBVIOUS

\* Once the stale frames are popped what is left is in time.
LEMMA FreshRest ==
  ASSUME AuInv, NEW n \in Popped(Stale), NEW i \in 1 .. Len(q), i > n
  PROVE  q[i].t + Late >= now
<1>1. /\ n \in 0 .. Len(q) /\ n + 1 \notin Stale /\ now \in Nat /\ q \in Seq(Sample)
      /\ InOrder(q, feeds * ChunkFrames, now)
  BY Zenon DEF Popped, AuInv, InOrder
<1>2. n + 1 \in 1 .. Len(q) /\ (n + 1 = i \/ n + 1 < i)
  BY <1>1
<1>3. q[n + 1].t \in Nat /\ q[i].t \in Nat
  <2>1. q[n + 1] \in Sample /\ q[i] \in Sample
    BY <1>1, <1>2
  <2> QED BY Zenon, <2>1 DEF Sample
<1>4. q[n + 1].t + Late >= now
  <2>1. ~(q[n + 1].t + Late < now)
    BY <1>1, <1>2 DEF Stale
  <2> QED BY <1>1, <1>3, <2>1, SinkAssumption
<1>5. n + 1 < i => q[n + 1].t <= q[i].t
  BY Zenon, <1>1, <1>2 DEF InOrder
<1>6. CASE n + 1 = i
  BY Zenon, <1>4, <1>6
<1>7. CASE n + 1 < i
  BY <1>1, <1>3, <1>4, <1>5, <1>7, SinkAssumption
<1> QED BY Zenon, <1>2, <1>6, <1>7

\* The render thread takes a period of sound from the queue.
LEMMA RenderStep == ASSUME AuInv, NEW k \in Period, AuRender(k) PROVE AuInv'
<1>0. feeds' = feeds /\ now' = now
  BY Zenon DEF AuRender
<1>1. CASE q' = q /\ out' = out
  BY Zenon, <1>0, <1>1 DEF AuInv, NeverLate
<1>2. ASSUME NEW n \in Popped(Stale), k > 0,
             out' = [frames |-> SubSeq(q, n + 1, IF n + k < Len(q) THEN n + k ELSE Len(q)), at |-> now],
             q' = Left(n, k)
      PROVE  AuInv'
  <2>1. PICK m : m = IF n + k < Len(q) THEN n + k ELSE Len(q)
    OBVIOUS
  <2>2. PICK p : p = SubSeq(q, n + 1, m)
    BY Zenon
  <2>3. out'.frames = p /\ out'.at = now
    <3>1. out' = [frames |-> p, at |-> now]
      BY Zenon, <1>2, <2>1, <2>2
    <3> QED BY Zenon, <3>1
  <2>4. /\ InOrder(q, feeds * ChunkFrames, now) /\ n \in 0 .. Len(q) /\ q \in Seq(Sample)
        /\ feeds * ChunkFrames \in Nat /\ now \in Nat /\ k \in Nat
    BY SinkAssumption DEF AuInv, InOrder, Popped
  <2>5. /\ m \in 0 .. Len(q) /\ Len(q) \in 0 .. Len(q) /\ m <= n + k
        /\ n + 1 \in Nat \ {0} /\ n + k + 1 \in Nat \ {0}
    BY <1>2, <2>1, <2>4
  <2>6. InOrder(p, feeds * ChunkFrames, now) /\ IsPiece(p, q, n + 1, m)
    BY Zenon, <2>2, <2>4, <2>5, Piece
  <2>7. InOrder(q', feeds * ChunkFrames, now) /\ IsPiece(q', q, n + k + 1, Len(q))
    BY Zenon, <1>2, <2>4, <2>5, Piece DEF Left
  <2>8. ASSUME NEW i \in 1 .. Len(p)
        PROVE  p[i] = q[n + i] /\ n + i \in 1 .. Len(q) /\ n + i > n /\ n + i <= m
    <3>1. /\ p[i] = q[(n + 1) + i - 1] /\ (n + 1) + i - 1 \in 1 .. Len(q)
          /\ Len(p) = IF n + 1 <= m THEN m - (n + 1) + 1 ELSE 0
      BY Zenon, <2>6 DEF IsPiece
    <3>2. n \in Nat /\ m \in Nat
      BY <2>4, <2>5
    <3>3. (n + 1) + i - 1 = n + i /\ n + i > n /\ n + i <= m
      BY Zenon, <3>1, <3>2, PlaceInPiece
    <3> QED BY Zenon, <3>1, <3>3
  <2>9. ASSUME NEW i \in 1 .. Len(p), NEW j \in 1 .. Len(q') PROVE p[i].n < q'[j].n
    <3>1. q'[j] = q[(n + k + 1) + j - 1] /\ (n + k + 1) + j - 1 \in 1 .. Len(q)
      BY Zenon, <2>7 DEF IsPiece
    <3>2. n + i < (n + k + 1) + j - 1
      <4>1. n + i <= m
        BY Zenon, <2>8
      <4> QED BY <2>4, <2>5, <4>1
    <3>3. q[n + i].n < q[(n + k + 1) + j - 1].n
      BY Zenon, <2>4, <2>8, <3>1, <3>2 DEF InOrder
    <3> QED BY Zenon, <2>8, <3>1, <3>3
  <2>10. NeverLate'
    <3>1. DOMAIN p = 1 .. Len(p)
      BY <2>6 DEF InOrder
    <3>2. \A i \in 1 .. Len(p) : q[n + i].t + Late >= now
      BY Zenon, <2>8, FreshRest
    <3> QED BY Zenon, <2>3, <2>8, <3>1, <3>2 DEF NeverLate
  <2> QED BY Zenon, <1>0, <2>3, <2>4, <2>6, <2>7, <2>9, <2>10 DEF AuInv, Newer
<1> QED BY Zenon, <1>1, <1>2 DEF AuRender

\* A chunk of sound comes from the network.
LEMMA FeedStep == ASSUME AuInv, AuFeed PROVE AuInv'
<1> DEFINE c == Chunk(feeds + 1)
<1>0. PICK n \in Nat : q' = SubSeq(q, n + 1, Len(q)) \o c
  <2>1. PICK n \in IF Chunks >= MaxChunks THEN Popped(HeadChunk) ELSE {0} :
                q' = SubSeq(q, n + 1, Len(q)) \o c
    BY Zenon DEF AuFeed
  <2>2. n \in Nat
    BY <2>1 DEF Popped
  <2> QED BY Zenon, <2>1, <2>2
<1> DEFINE b == SubSeq(q, n + 1, Len(q))
<1>1. q' = b \o c /\ feeds' = feeds + 1 /\ now' = now /\ out' = out
  BY Zenon, <1>0 DEF AuFeed
<1>2. PICK last \in Nat : last = feeds * ChunkFrames
  BY SinkAssumption DEF AuInv
<1>3. feeds' * ChunkFrames = last + ChunkFrames /\ last + ChunkFrames \in Nat /\ last <= last + ChunkFrames
      /\ feeds \in Nat /\ now \in Nat
  BY <1>1, <1>2, SinkAssumption DEF AuInv
<1>4. InOrder(b, last, now) /\ Newer(b, out.frames)
  <2>1. InOrder(q, last, now) /\ Newer(q, out.frames) /\ q \in Seq(Sample)
    BY Zenon, <1>2 DEF AuInv, InOrder
  <2>2. Len(q) \in 0 .. Len(q) /\ n + 1 \in Nat \ {0}
    BY <2>1
  <2>3. InOrder(b, last, now) /\ IsPiece(b, q, n + 1, Len(q))
    BY Zenon, <1>3, <2>1, <2>2, Piece
  <2> QED BY Zenon, <2>1, <2>3 DEF Newer, IsPiece
<1>5. /\ c \in Seq(Sample) /\ Len(c) = ChunkFrames
      /\ \A i \in 1 .. ChunkFrames : c[i].n = last + i /\ c[i].t = now
  <2>0. PICK d \in Nat : d = feeds + 1
    BY <1>3
  <2>1. (d - 1) * ChunkFrames = last
    <3>1. d - 1 = feeds
      BY <1>3, <2>0
    <3> QED BY Zenon, <1>2, <3>1
  <2>2. c = [i \in 1 .. ChunkFrames |-> [n |-> last + i, id |-> d, t |-> now]]
    <3> DEFINE v == (d - 1) * ChunkFrames
    <3>1. Chunk(d) = [i \in 1 .. ChunkFrames |-> [n |-> v + i, id |-> d, t |-> now]]
      BY Zenon DEF Chunk
    <3> HIDE DEF v
    <3>2. v = last
      BY Zenon, <2>1 DEF v
    <3>3. Chunk(d) = [i \in 1 .. ChunkFrames |-> [n |-> last + i, id |-> d, t |-> now]]
      BY Zenon, <3>1, <3>2
    <3> QED BY Zenon, <2>0, <3>3
  <2>3. \A i \in 1 .. ChunkFrames : [n |-> last + i, id |-> d, t |-> now] \in Sample
    BY <1>3 DEF Sample
  <2> HIDE DEF c
  <2>4. \A i \in 1 .. ChunkFrames : c[i] \in Sample /\ c[i].n = last + i /\ c[i].t = now
    BY Zenon, <2>2, <2>3
  <2>5. c \in [1 .. ChunkFrames -> Sample]
    BY Zenon, <2>2, <2>3
  <2>6. c \in Seq(Sample) /\ Len(c) = ChunkFrames
    BY <2>5, SinkAssumption
  <2> QED BY Zenon, <2>4, <2>6
<1> HIDE DEF b, c
<1>6. /\ b \o c \in Seq(Sample) /\ Len(b \o c) = Len(b) + ChunkFrames /\ Len(b) \in Nat
      /\ \A i \in 1 .. Len(b) : (b \o c)[i] = b[i]
      /\ \A i \in 1 .. ChunkFrames : (b \o c)[Len(b) + i] = c[i]
  <2>1. b \in Seq(Sample)
    BY Zenon, <1>4 DEF InOrder
  <2>2. /\ b \o c \in Seq(Sample) /\ Len(b \o c) = Len(b) + Len(c) /\ Len(b) \in Nat
        /\ \A i \in 1 .. Len(b) : (b \o c)[i] = b[i]
        /\ \A i \in 1 .. Len(c) : (b \o c)[Len(b) + i] = c[i]
    <3>1. c \in Seq(Sample)
      BY Zenon, <1>5
    <3> QED BY <2>1, <3>1
  <2> QED BY Zenon, <1>5, <2>2
<1>7. \A i \in 1 .. Len(q') :
         \/ i \in 1 .. Len(b) /\ q'[i] = b[i]
         \/ i > Len(b) /\ q'[i].n = last + (i - Len(b)) /\ q'[i].t = now /\ i - Len(b) \in 1 .. ChunkFrames
  <2> SUFFICES ASSUME NEW i \in 1 .. Len(q'), i > Len(b)
               PROVE  /\ q'[i].n = last + (i - Len(b)) /\ q'[i].t = now
                      /\ i - Len(b) \in 1 .. ChunkFrames
    BY <1>1, <1>6
  <2>1. i - Len(b) \in 1 .. ChunkFrames /\ Len(b) + (i - Len(b)) = i
    BY <1>1, <1>6, SinkAssumption
  <2>2. q'[i] = c[i - Len(b)]
    BY Zenon, <1>1, <1>6, <2>1
  <2> QED BY Zenon, <1>5, <2>1, <2>2
<1>8. /\ \A i \in 1 .. Len(b) : b[i].n \in Nat /\ b[i].t \in Nat /\ b[i].n <= last /\ b[i].t <= now
      /\ \A i, j \in 1 .. Len(b) : i < j => b[i].n < b[j].n /\ b[i].t <= b[j].t
  <2>1. \A i \in 1 .. Len(b) : b[i] \in Sample
    BY <1>4 DEF InOrder
  <2>2. \A i \in 1 .. Len(b) : b[i].n \in Nat /\ b[i].t \in Nat
    BY Zenon, <2>1 DEF Sample
  <2> QED BY Zenon, <1>4, <2>2 DEF InOrder
<1>9. \A i \in 1 .. Len(q') : q'[i].n <= last + ChunkFrames /\ q'[i].t <= now
  <2> SUFFICES ASSUME NEW i \in 1 .. Len(q')
               PROVE  q'[i].n <= last + ChunkFrames /\ q'[i].t <= now
    OBVIOUS
  <2>1. CASE i \in 1 .. Len(b) /\ q'[i] = b[i]
    <3>1. b[i].n \in Nat /\ b[i].n <= last /\ b[i].t <= now
      BY Zenon, <1>8, <2>1
    <3>2. b[i].n <= last + ChunkFrames
      BY <1>3, <3>1, SinkAssumption
    <3> QED BY Zenon, <2>1, <3>1, <3>2
  <2>2. CASE q'[i].n = last + (i - Len(b)) /\ q'[i].t = now /\ i - Len(b) \in 1 .. ChunkFrames
    <3>1. last + (i - Len(b)) <= last + ChunkFrames /\ now <= now
      BY <1>3, <2>2, SinkAssumption
    <3> QED BY Zenon, <2>2, <3>1
  <2> QED BY Zenon, <1>7, <2>1, <2>2
<1>10. \A i, j \in 1 .. Len(q') : i < j => q'[i].n < q'[j].n /\ q'[i].t <= q'[j].t
  <2> SUFFICES ASSUME NEW i \in 1 .. Len(q'), NEW j \in 1 .. Len(q'), i < j
               PROVE  q'[i].n < q'[j].n /\ q'[i].t <= q'[j].t
    OBVIOUS
  <2>1. CASE j \in 1 .. Len(b) /\ q'[j] = b[j]
    <3>1. i \in 1 .. Len(b) /\ q'[i] = b[i]
      <4>1. ~(i > Len(b))
        BY <1>1, <1>6, <2>1
      <4> QED BY Zenon, <1>7, <4>1
    <3> QED BY Zenon, <1>8, <2>1, <3>1
  <2>2. CASE j > Len(b) /\ q'[j].n = last + (j - Len(b)) /\ q'[j].t = now
    <3>1. CASE i \in 1 .. Len(b) /\ q'[i] = b[i]
      <4>1. b[i].n \in Nat /\ b[i].n <= last /\ b[i].t <= now
        BY Zenon, <1>8, <3>1
      <4>2. last < last + (j - Len(b)) /\ b[i].n < last + (j - Len(b))
        BY <1>6, <2>2, <4>1
      <4> QED BY Zenon, <2>2, <3>1, <4>1, <4>2
    <3>2. CASE i > Len(b) /\ q'[i].n = last + (i - Len(b)) /\ q'[i].t = now
      <4>1. last + (i - Len(b)) < last + (j - Len(b)) /\ now <= now
        BY <1>3, <1>6
      <4> QED BY Zenon, <2>2, <3>2, <4>1
    <3> QED BY Zenon, <1>7, <3>1, <3>2
  <2> QED BY Zenon, <1>7, <2>1, <2>2
<1>11. InOrder(q', last + ChunkFrames, now)
  BY Zenon, <1>1, <1>6, <1>9, <1>10 DEF InOrder
<1>12. InOrder(out.frames, last + ChunkFrames, now)
  <2>1. InOrder(out.frames, last, now)
    BY Zenon, <1>2 DEF AuInv
  <2>2. \A i \in 1 .. Len(out.frames) : out.frames[i].n \in Nat
    <3>1. \A i \in 1 .. Len(out.frames) : out.frames[i] \in Sample
      BY <2>1 DEF InOrder
    <3> QED BY Zenon, <3>1 DEF Sample
  <2>3. \A i \in 1 .. Len(out.frames) : out.frames[i].n <= last + ChunkFrames
    <3>1. \A i \in 1 .. Len(out.frames) : out.frames[i].n <= last
      BY Zenon, <2>1 DEF InOrder
    <3> QED BY <1>3, <2>2, <3>1, SinkAssumption
  <2> QED BY Zenon, <2>1, <2>3 DEF InOrder
<1>13. Newer(q', out.frames)
  <2> SUFFICES ASSUME NEW i \in 1 .. Len(out.frames), NEW j \in 1 .. Len(q')
               PROVE  out.frames[i].n < q'[j].n
    BY Zenon DEF Newer
  <2>1. CASE j \in 1 .. Len(b) /\ q'[j] = b[j]
    BY Zenon, <1>4, <2>1 DEF Newer
  <2>2. CASE j > Len(b) /\ q'[j].n = last + (j - Len(b))
    <3>1. out.frames[i].n <= last
      BY Zenon, <1>2 DEF AuInv, InOrder
    <3>2. out.frames[i] \in Sample
      BY <1>12 DEF InOrder
    <3>3. out.frames[i].n \in Nat
      BY Zenon, <3>2 DEF Sample
    <3>4. out.frames[i].n < last + (j - Len(b))
      BY <1>6, <2>2, <3>1, <3>3
    <3> QED BY Zenon, <2>2, <3>4
  <2> QED BY Zenon, <1>7, <2>1, <2>2
<1>14. NeverLate' /\ feeds' \in Nat
  <2>1. feeds' \in Nat
    BY <1>1, <1>3
  <2> QED BY Zenon, <1>1, <2>1 DEF NeverLate, AuInv
<1> QED BY Zenon, <1>1, <1>3, <1>11, <1>12, <1>13, <1>14 DEF AuInv

\* No chunk that is older than the bound is played, however long the render thread pauses (create), and
\* every frame is written once, in the order it was fed, through partly played chunks, a full queue and
\* chunks that are dropped for their age (feed).
THEOREM SoundKeepsOrder == AuSpec => []NeverLate /\ []PlayedInOrder
<1>1. AuInit => AuInv
  <2> SUFFICES ASSUME AuInit PROVE AuInv
    OBVIOUS
  <2>1. q = <<>> /\ out.frames = <<>> /\ now = 0 /\ feeds = 0
    BY Zenon DEF AuInit
  <2> QED BY <2>1, SinkAssumption DEF AuInv, InOrder, Newer, NeverLate
<1>2. AuInv /\ [AuNext]_auVars => AuInv'
  <2> SUFFICES ASSUME AuInv, [AuNext]_auVars PROVE AuInv'
    OBVIOUS
  <2>1. ASSUME q' = q, out' = out, feeds' = feeds, now' = now PROVE AuInv'
    BY Zenon, <2>1 DEF AuInv, NeverLate
  <2>2. CASE AuTick
    <3>1. q' = q /\ out' = out /\ feeds' = feeds /\ now' = now + 1
      BY Zenon, <2>2 DEF AuTick
    <3>2. ASSUME NEW s, NEW last \in Nat, InOrder(s, last, now) PROVE InOrder(s, last, now + 1)
      <4>1. \A i \in 1 .. Len(s) : s[i] \in Sample
        BY <3>2 DEF InOrder
      <4>2. \A i \in 1 .. Len(s) : s[i].t \in Nat
        BY Zenon, <4>1 DEF Sample
      <4>3. \A i \in 1 .. Len(s) : s[i].t <= now
        BY Zenon, <3>2 DEF InOrder
      <4>4. now \in Nat
        BY Zenon DEF AuInv
      <4>5. \A i \in 1 .. Len(s) : s[i].t <= now + 1
        BY <4>2, <4>3, <4>4
      <4> QED BY Zenon, <3>2, <4>5 DEF InOrder
    <3>3. feeds * ChunkFrames \in Nat /\ now + 1 \in Nat
      BY SinkAssumption DEF AuInv
    <3> QED BY Zenon, <3>1, <3>2, <3>3 DEF AuInv, NeverLate
  <2>3. ASSUME NEW k \in Period, AuRender(k) PROVE AuInv'
    BY Zenon, <2>3, RenderStep
  <2>4. CASE AuCreate \/ AuLeave \/ AuStop \/ Joined \/ Unplug
    BY Zenon, <2>1, <2>4 DEF AuCreate, AuLeave, AuStop, Joined, Unplug
  <2>5. CASE UNCHANGED auVars
    BY Zenon, <2>1, <2>5 DEF auVars
  <2> QED BY Zenon, <2>2, <2>3, <2>4, <2>5, FeedStep DEF AuNext
<1>3. AuInv => NeverLate /\ PlayedInOrder
  <2> SUFFICES ASSUME AuInv PROVE PlayedInOrder
    BY Zenon DEF AuInv
  <2> DEFINE f == out.frames
  <2>1. InOrder(f, feeds * ChunkFrames, now) /\ InOrder(q, feeds * ChunkFrames, now) /\ Newer(q, f)
    BY Zenon DEF AuInv
  <2> HIDE DEF f
  <2>2. f \in Seq(Sample) /\ q \in Seq(Sample)
    BY Zenon, <2>1 DEF InOrder
  <2>3. /\ DOMAIN (f \o q) = 1 .. Len(f) + Len(q) /\ Len(f) \in Nat /\ Len(q) \in Nat
        /\ \A i \in 1 .. Len(f) + Len(q) : (f \o q)[i] = IF i <= Len(f) THEN f[i] ELSE q[i - Len(f)]
    BY <2>2
  <2>4. ASSUME NEW i \in 1 .. Len(f) + Len(q), NEW j \in 1 .. Len(f) + Len(q), i < j
        PROVE  (f \o q)[i].n < (f \o q)[j].n
    <3>1. CASE j <= Len(f)
      BY <2>1, <2>3, <2>4, <3>1 DEF InOrder
    <3>2. CASE i <= Len(f) /\ j > Len(f)
      <4>1. i \in 1 .. Len(f) /\ j - Len(f) \in 1 .. Len(q) /\ ~(j <= Len(f))
        BY <2>3, <3>2
      <4> QED BY Zenon, <2>1, <2>3, <3>2, <4>1 DEF Newer
    <3>3. CASE i > Len(f)
      <4>1. /\ i - Len(f) \in 1 .. Len(q) /\ j - Len(f) \in 1 .. Len(q) /\ i - Len(f) < j - Len(f)
            /\ ~(i <= Len(f)) /\ ~(j <= Len(f))
        BY <2>3, <2>4, <3>3
      <4> QED BY Zenon, <2>1, <2>3, <4>1 DEF InOrder
    <3> QED BY <2>3, <2>4, <3>1, <3>2, <3>3
  <2> QED BY Zenon, <2>3, <2>4 DEF PlayedInOrder, f
<1> QED BY <1>1, <1>2, <1>3, PTL DEF AuSpec

-----------------------------------------------------------------------------
(* Renderer.                                                               *)

Chain == [live : BOOLEAN, sem : Nat, waited : BOOLEAN, queued : Nat, target : BOOLEAN]

\* The permit of one swap chain: with the waitable object, the loop, or the queued frame.
Permits(c) == c.sem + c.queued + (IF c.waited THEN 1 ELSE 0)

\* A cached view is filed under the address of its texture.
RnInv ==
    /\ chain \in [Id -> Chain]
    /\ \A a \in DOMAIN cache : cache[a].addr = a
    /\ FramesAreCurrent

\* A swap chain after a store to two of its fields.
LEMMA ChainStores ==
  ASSUME NEW c \in Chain, NEW n \in Nat, NEW m \in Nat, NEW b \in BOOLEAN
  PROVE  /\ [c EXCEPT !.sem = n, !.waited = b] \in Chain
         /\ [c EXCEPT !.queued = n, !.waited = b] \in Chain
         /\ [c EXCEPT !.queued = n, !.sem = m] \in Chain
         /\ [c EXCEPT !.target = b] \in Chain
BY Zenon DEF Chain

\* Waiting for the swap chain and presenting to it hand its permit on.
LEMMA PermitMoves ==
  ASSUME NEW c \in Chain, MayPresent(c)
  PROVE  /\ Waited(c) \in Chain /\ Presented(Waited(c)) \in Chain
         /\ Permits(Waited(c)) = Permits(c) /\ Permits(Presented(Waited(c))) = Permits(c)
<1> DEFINE w == Waited(c)
<1>1. w \in Chain /\ w.waited /\ w.sem + 1 = Permits(c) - c.queued /\ w.queued = c.queued
  <2>1. CASE c.waited
    BY <2>1 DEF Waited, Permits, Chain
  <2>2. CASE ~c.waited
    <3>1. c.sem - 1 \in Nat /\ w = [c EXCEPT !.sem = c.sem - 1, !.waited = TRUE]
      BY <2>2 DEF MayPresent, Waited, Chain
    <3>2. w \in Chain
      BY Zenon, <3>1, ChainStores, Zenon
    <3>3. w.waited /\ w.sem = c.sem - 1 /\ w.queued = c.queued
      BY Zenon, <3>1 DEF Chain
    <3>4. Permits(c) = c.sem + c.queued
      BY <2>2 DEF Permits, Chain
    <3>5. c.sem \in Nat /\ c.queued \in Nat
      BY Zenon DEF Chain
    <3> QED BY <3>2, <3>3, <3>4, <3>5
  <2> QED BY Zenon, <2>1, <2>2
<1> HIDE DEF w
<1>2. Presented(w) \in Chain
  <2>1. w.queued + 1 \in Nat
    BY <1>1 DEF Chain
  <2> QED BY Zenon, <1>1, <2>1, ChainStores, Zenon DEF Presented
<1>3. ~Presented(w).waited /\ Presented(w).queued = w.queued + 1 /\ Presented(w).sem = w.sem
  BY Zenon, <1>1 DEF Presented, Chain
<1>4. Permits(w) = Permits(c) /\ Permits(Presented(w)) = Permits(c)
  BY <1>1, <1>3 DEF Permits, Chain
<1> QED BY Zenon, <1>1, <1>2, <1>4 DEF w

\* RnInv is inductive.
LEMMA RnInductive == RnInv /\ [RnNext]_rnVars => RnInv'
<1> SUFFICES ASSUME RnInv, [RnNext]_rnVars PROVE RnInv'
  OBVIOUS
<1> DEFINE ChainsOK == chain \in [Id -> Chain] /\ \A i \in Id : chain[i].live => Permits(chain[i]) = 1
           CacheOK == (\A a \in DOMAIN cache : cache[a].addr = a) /\ CacheHitIsTrue
<1>1. ChainsOK /\ CacheOK
  BY Zenon DEF RnInv, FramesAreCurrent, NeverQueued, Permits
<1> SUFFICES ChainsOK' /\ CacheOK'
  BY Zenon DEF RnInv, FramesAreCurrent, NeverQueued, Permits
<1>2. ChainsOK'
  <2>1. CASE UNCHANGED chain
    BY Zenon, <1>1, <2>1 DEF Permits
  <2>2. NewChain \in Chain /\ NoChain \in Chain /\ ~NoChain.live /\ Permits(NewChain) = 1
    BY DEF NewChain, NoChain, Permits, Chain
  <2>3. CASE Top \/ OpenSecondaries
    BY Zenon, <1>1, <2>2, <2>3 DEF Top, OpenSecondaries
  <2>4. CASE Frame
    <3>1. MayPresent(chain[0]) /\ chain' = [chain EXCEPT ![0] = Waited(chain[0])] /\ 0 \in Id
      BY Zenon, <2>4 DEF Frame, Id
    <3>2. Waited(chain[0]) \in Chain /\ Permits(Waited(chain[0])) = Permits(chain[0]) /\ chain[0].live
      BY Zenon, <1>1, <3>1, PermitMoves DEF MayPresent
    <3> QED BY Zenon, <1>1, <3>1, <3>2
  <2>5. ASSUME NEW i \in Id, DrawView(i) PROVE ChainsOK'
    <3>1. CASE UNCHANGED chain
      BY Zenon, <1>1, <3>1
    <3>2. CASE MayPresent(chain[i]) /\ chain' = [chain EXCEPT ![i] = Presented(Waited(chain[i]))]
      <4>1. /\ Presented(Waited(chain[i])) \in Chain /\ chain[i].live
            /\ Permits(Presented(Waited(chain[i]))) = Permits(chain[i])
        BY Zenon, <1>1, <3>2, PermitMoves DEF MayPresent
      <4> QED BY Zenon, <1>1, <3>2, <4>1
    <3> QED BY Zenon, <2>5, <3>1, <3>2 DEF DrawView
  <2>6. ASSUME NEW i \in Id, Compose(i) PROVE ChainsOK'
    <3> DEFINE n == [chain[i] EXCEPT !.queued = @ - 1, !.sem = @ + 1]
    <3>1. chain[i] \in Chain /\ chain[i].queued > 0 /\ chain' = [chain EXCEPT ![i] = n]
      BY Zenon, <1>1, <2>6 DEF Compose
    <3>2. chain[i].queued - 1 \in Nat /\ chain[i].sem + 1 \in Nat
      BY <3>1 DEF Chain
    <3>3. n \in Chain
      BY Zenon, <3>1, <3>2, ChainStores, Zenon
    <3>4. Permits(n) = Permits(chain[i]) /\ n.live = chain[i].live
      BY <3>1 DEF Permits, Chain
    <3> HIDE DEF n
    <3> QED BY Zenon, <1>1, <3>1, <3>3, <3>4
  <2>7. ASSUME NEW i \in Id, Resize(i) PROVE ChainsOK'
    <3>1. PICK b \in BOOLEAN : chain' = [chain EXCEPT ![i] = [chain[i] EXCEPT !.target = b]]
      BY Zenon, <2>7 DEF Resize
    <3> DEFINE n == [chain[i] EXCEPT !.target = b]
    <3>2. n \in Chain /\ chain[i] \in Chain
      BY Zenon, <1>1, ChainStores
    <3>3. Permits(n) = Permits(chain[i]) /\ n.live = chain[i].live
      BY Zenon, <3>2 DEF Permits, Chain
    <3> HIDE DEF n
    <3> QED BY Zenon, <1>1, <3>1, <3>2, <3>3 DEF n
  <2> QED BY Zenon, <2>1, <2>3, <2>4, <2>5, <2>6, <2>7
          DEF RnNext, Skip, DrawDone, SetCanvas, NewPool, UserCloses, rnVars
<1>3. CacheOK'
  <2>1. CASE UNCHANGED <<pool, cache>>
    BY Zenon, <1>1, <2>1 DEF CacheHitIsTrue, Textures
  <2>2. CASE SetCanvas
    BY Zenon, <2>2 DEF SetCanvas, NoViews, CacheHitIsTrue
  <2>3. CASE NewPool
    <3>1. PICK a \in Address \ Held : pool' = [addr |-> a, gen |-> gen']
      BY Zenon, <2>3 DEF NewPool
    <3>2. cache' = cache /\ a \notin DOMAIN cache /\ pool'.addr = a
      BY Zenon, <1>1, <2>3, <3>1 DEF NewPool, Held, Cached
    <3> QED BY Zenon, <1>1, <3>2 DEF CacheHitIsTrue, Textures
  <2>4. ASSUME NEW t \in RnTile, RnSubmitFrame(t, pool), UNCHANGED pool PROVE CacheOK'
    <3>1. CASE pool.addr \in DOMAIN cache
      BY Zenon, <1>1, <2>4, <3>1 DEF RnSubmitFrame, CacheHitIsTrue, Textures
    <3>2. CASE pool.addr \notin DOMAIN cache
      <4>1. cache' = [a \in Kept \cup {pool.addr} |-> IF a = pool.addr THEN pool ELSE cache[a]]
        BY Zenon, <2>4, <3>2 DEF RnSubmitFrame
      <4>2. Kept \subseteq DOMAIN cache
        BY Zenon DEF Kept
      <4> QED BY Zenon, <1>1, <2>4, <4>1, <4>2 DEF CacheHitIsTrue, Textures
    <3> QED BY Zenon, <3>1, <3>2
  <2> QED BY Zenon, <2>1, <2>2, <2>3, <2>4
          DEF RnNext, Top, OpenSecondaries, Skip, Frame, DrawDone, UserCloses, Resize, DrawView, Compose, rnVars
<1> QED BY Zenon, <1>2, <1>3

\* For any number of windows, tiles, addresses and cached views: no window has a second frame
\* queued, and a view found in the cache is of the texture the frame is in.
THEOREM RendererIsCurrent == RnSpec => []FramesAreCurrent
<1>1. RnInit => RnInv
  BY DEF RnInit, RnInv, FramesAreCurrent, NeverQueued, CacheHitIsTrue, NoViews, NewChain, NoChain, Textures, Chain
<1>2. RnInv => FramesAreCurrent
  BY Zenon DEF RnInv
<1> QED BY <1>1, <1>2, RnInductive, PTL DEF RnSpec

-----------------------------------------------------------------------------
(* KeyRouting, for any keys and windows.                                   *)

\* A command modifier that the hook has pressed at the Mac is one it will release.
HookRemembers ==
    \A k \in held \cap byHook \cap Modifier : hook /\ ModBit(k) \in mods

\* The hook serves a window of the viewer.
ServesViewer ==
    /\ hwnd \in View
    /\ notice \in Seq([view : View, gained : BOOLEAN])

\* With keys on one side only, mods_ tells which key is down.
LEMMA OneKeyOfAKind ==
  ASSUME Side = {"left"}, NEW j \in Modifier
  PROVE  j = LeftOf(ModBit(j)) /\ ModBit(j) \in Bit
BY DEF Modifier, LeftOf, ModBit

\* Every report of the hook is noted in mods_, every release clears it.
LEMMA RememberStep ==
  ASSUME Side = {"left"}, HookRemembers, [KrNext]_krVars
  PROVE  HookRemembers'
<1>1. ASSUME NEW k \in Key, KeyEvent(k) PROVE HookRemembers'
  <2> DEFINE press == k \notin down
  <2>1. UNCHANGED hook
    BY Zenon, <1>1 DEF KeyEvent
  <2>2. CASE ~HookSeesFront /\ PassedOn(k, press) /\ UNCHANGED mods
    BY Zenon, <2>1, <2>2 DEF PassedOn, HookRemembers
  <2>3. CASE /\ HookSeesFront /\ k \in Modifier
             /\ mods' = IF press THEN mods \cup {ModBit(k)} ELSE mods \ {ModBit(k)}
             /\ HookReports(k, press)
    <3> SUFFICES ASSUME NEW j \in held' \cap byHook' \cap Modifier PROVE hook /\ ModBit(j) \in mods'
      BY Zenon, <2>1 DEF HookRemembers
    <3>1. j = k \/ (j \in held \cap byHook \cap Modifier /\ ModBit(j) # ModBit(k))
      <4>1. j # k => ModBit(j) # ModBit(k)
        BY Zenon, <2>3, OneKeyOfAKind
      <4> QED BY Zenon, <4>1, <2>3 DEF HookReports, Report
    <3>2. CASE j = k
      BY Zenon, <2>3, <3>2 DEF HookReports, Report, HookSeesFront
    <3>3. CASE j \in held \cap byHook \cap Modifier /\ ModBit(j) # ModBit(k)
      BY Zenon, <2>3, <3>3 DEF HookRemembers
    <3> QED BY Zenon, <3>1, <3>2, <3>3
  <2>4. CASE HookSeesFront /\ k \notin Modifier /\ UNCHANGED mods
             /\ IF mods = {} THEN PassedOn(k, press) ELSE HookReports(k, press)
    BY Zenon, <2>1, <2>4 DEF PassedOn, HookReports, Report, HookRemembers
  <2> QED BY Zenon, <1>1, <2>2, <2>3, <2>4 DEF KeyEvent, Handle
<1>2. CASE WindowKey
  BY Zenon, <1>2 DEF WindowKey, Report, HookRemembers
<1>3. ASSUME NEW f \in View \cup {Elsewhere}, Switch(f) PROVE HookRemembers'
  BY Zenon, <1>3 DEF Switch, HookRemembers
<1>4. CASE FocusMessage
  <2>1. CASE notice[1].gained
    <3>1. UNCHANGED <<mods, held, byHook>> /\ (hook => hook')
      BY Zenon, <1>4, <2>1 DEF FocusMessage
    <3> QED BY Zenon, <3>1 DEF HookRemembers
  <2>2. CASE ~notice[1].gained
    <3>1. byHook' = byHook /\ held' = IF hook THEN held \ {LeftOf(m) : m \in mods} ELSE held
      BY Zenon, <1>4, <2>2 DEF FocusMessage, DisableReleases
    <3> SUFFICES ASSUME NEW j \in held' \cap byHook' \cap Modifier PROVE FALSE
      BY Zenon DEF HookRemembers
    <3>2. hook /\ ModBit(j) \in mods
      BY Zenon, <3>1 DEF HookRemembers
    <3> QED BY Zenon, <3>1, <3>2, OneKeyOfAKind
  <2> QED BY Zenon, <2>1, <2>2
<1>5. CASE UNCHANGED krVars
  BY Zenon, <1>5 DEF krVars, HookRemembers
<1> QED BY Zenon, <1>1, <1>2, <1>3, <1>4, <1>5 DEF KrNext

\* On a keyboard whose command modifiers are on the left, disable() of the
\* keyboard hook leaves none of those it has reported pressed at the Mac.
THEOREM NoneStaysDown == Side = {"left"} => (KrSpec => []NoStuckModifier)
<1> SUFFICES ASSUME Side = {"left"} PROVE KrSpec => []NoStuckModifier
  OBVIOUS
<1>1. KrInit => HookRemembers
  BY Zenon DEF KrInit, HookRemembers
<1>2. HookRemembers => NoStuckModifier
  BY Zenon DEF HookRemembers, NoStuckModifier
<1>3. HookRemembers /\ [KrNext]_krVars => HookRemembers'
  BY Zenon, RememberStep
<1> QED BY <1>1, <1>2, <1>3, PTL DEF KrSpec

\* A sequence of one element.
LEMMA ShortSeqs == ASSUME NEW S, NEW x \in S PROVE <<x>> \in Seq(S)
OBVIOUS

\* The sequence of none.
LEMMA EmptySeqs == ASSUME NEW S PROVE <<>> \in Seq(S)
OBVIOUS

\* Focus messages are about windows of the viewer.
LEMMA ServesStep ==
  ASSUME ServesViewer, [KrNext]_krVars
  PROVE  ServesViewer'
<1>1. ASSUME NEW f \in View \cup {Elsewhere}, Switch(f) PROVE ServesViewer'
  <2> DEFINE a == IF front \in View THEN <<[view |-> front, gained |-> FALSE]>> ELSE <<>>
             b == IF f \in View THEN <<[view |-> f, gained |-> TRUE]>> ELSE <<>>
  <2>1. a \in Seq([view : View, gained : BOOLEAN])
    <3>1. front \in View => [view |-> front, gained |-> FALSE] \in [view : View, gained : BOOLEAN]
      OBVIOUS
    <3> QED BY Zenon, <3>1, ShortSeqs, EmptySeqs
  <2>2. b \in Seq([view : View, gained : BOOLEAN])
    <3>1. f \in View => [view |-> f, gained |-> TRUE] \in [view : View, gained : BOOLEAN]
      OBVIOUS
    <3> QED BY Zenon, <3>1, ShortSeqs, EmptySeqs
  <2>3. notice' = notice \o a \o b /\ hwnd' = hwnd
    BY Zenon, <1>1 DEF Switch
  <2> HIDE DEF a, b
  <2> QED BY <2>1, <2>2, <2>3 DEF ServesViewer
<1>2. CASE FocusMessage
  <2> DEFINE N == [view : View, gained : BOOLEAN]
  <2>1. notice \in Seq(N) /\ notice # <<>>
    BY Zenon, <1>2 DEF FocusMessage, ServesViewer
  <2>2. notice[1] \in N
    <3> HIDE DEF N
    <3> QED BY <2>1
  <2>3. Tail(notice) \in Seq(N)
    <3> HIDE DEF N
    <3> QED BY <2>1
  <2> QED BY Zenon, <1>2, <2>2, <2>3 DEF FocusMessage, ServesViewer
<1>3. CASE UNCHANGED <<notice, hwnd>>
  BY Zenon, <1>3 DEF ServesViewer
<1> QED BY Zenon, <1>1, <1>2, <1>3 DEF KrNext, KeyEvent, WindowKey, krVars

\* What is typed elsewhere stays there: the hook compares the foreground with
\* the window it serves, and a window gets only the keys that were meant for it.
THEOREM TypedHereOnly == KrSpec => OnlyTypedHere
<1>1. KrInit => ServesViewer
  BY DEF KrInit, ServesViewer
<1>2. ServesViewer /\ [KrNext]_krVars => ServesViewer'
  BY Zenon, ServesStep
<1>3. ServesViewer /\ [KrNext]_krVars
        => [\A k \in held' \ held : front \in View \/ (inbox.key = k /\ inbox.press)]_krVars
  <2> SUFFICES ASSUME ServesViewer, KrNext, NEW j \in held' \ held
               PROVE  front \in View \/ (inbox.key = j /\ inbox.press)
    OBVIOUS
  <2>1. ASSUME NEW k \in Key, KeyEvent(k) PROVE front \in View
    <3>1. HookSeesFront
      BY Zenon, <2>1 DEF KeyEvent, Handle, PassedOn
    <3> QED BY Zenon, <3>1 DEF HookSeesFront, ServesViewer
  <2>2. CASE WindowKey
    BY Zenon, <2>2 DEF WindowKey, Report
  <2>3. held' = held => FALSE
    OBVIOUS
  <2>4. CASE FocusMessage
    BY Zenon, <2>4 DEF FocusMessage, DisableReleases
  <2> QED BY Zenon, <2>1, <2>2, <2>3, <2>4 DEF KrNext, Switch
<1> QED BY <1>1, <1>2, <1>3, PTL DEF KrSpec, OnlyTypedHere

-----------------------------------------------------------------------------
(* Feedback, for any number of tiles and any limits.                       *)

Gates == [required : SUBSET Tile, idr : SUBSET Tile, bad : SUBSET Tile, attempts : 0 .. ReArmCap]

\* n is g with nothing but errors marked.
Raises(g, n) ==
    /\ n \in Gates
    /\ g.required \subseteq n.required /\ n.idr \subseteq g.idr
    /\ g.idr \subseteq g.required => n.idr \subseteq n.required
    /\ n.attempts \in {0, g.attempts}
    /\ 0 \in n.required \ g.required => n.attempts = 0

\* mark_error, for one tile or for several.
LEMMA MarkErrorRaises ==
  ASSUME NEW g \in Gates, NEW ts \in SUBSET Tile, FbAssumption
  PROVE  Raises(g, MarkError(g, ts))
<1> DEFINE hit == IF Running("grace") THEN {} ELSE ts
           new == hit \ g.required
           n == MarkError(g, ts)
           at == IF 0 \in new THEN 0 ELSE g.attempts
<1>1. n = [g EXCEPT !.bad = @ \cup hit, !.required = @ \cup hit, !.idr = @ \ new, !.attempts = at]
  BY Zenon DEF MarkError
<1>2. hit \in SUBSET Tile
  OBVIOUS
<1>3. at \in 0 .. ReArmCap /\ at \in {0, g.attempts} /\ (0 \in new => at = 0)
  BY FbAssumption DEF Gates
<1> HIDE DEF n, at, hit
<1>4. /\ n \in Gates /\ n.required = g.required \cup hit /\ n.idr = g.idr \ new /\ n.attempts = at
  BY Zenon, <1>1, <1>2, <1>3 DEF Gates
<1> QED BY Zenon, <1>3, <1>4 DEF Raises, n

\* Marking errors twice is marking errors.
LEMMA RaisesTwice ==
  ASSUME NEW g, NEW n, NEW k, Raises(g, n), Raises(n, k)
  PROVE  Raises(g, k)
BY Zenon DEF Raises

\* What a step may do to the gate: the first and the last part of StickyRequirement, FreshAttempts.
Steps(g, n) ==
    /\ n \in Gates /\ n.idr \subseteq n.required
    /\ \A t \in g.required \ n.required : t \in g.idr /\ ~Running("loud")
    /\ 0 \in n.required /\ 0 \notin g.required => n.attempts = 0

\* Marking an error is a step the gate may take.
LEMMA RaisesSteps ==
  ASSUME NEW g, NEW n, g.idr \subseteq g.required, Raises(g, n)
  PROVE  Steps(g, n) /\ n.idr \ g.idr = {}
BY Zenon DEF Raises, Steps

\* consume_refresh counts an attempt and leaves the requirement alone.
LEMMA ConsumeSteps ==
  ASSUME NEW g \in Gates, NEW n, n \in Gates, Steps(g, n), 0 \in n.required => 0 \in g.required,
         FbAssumption
  PROVE  Steps(g, Consume(n)) /\ Consume(n).idr = n.idr
<1> DEFINE at == IF n.attempts < ReArmCap THEN n.attempts + 1 ELSE n.attempts
           k == Consume(n)
<1>1. at \in 0 .. ReArmCap
  BY FbAssumption DEF Gates
<1>2. k = [n EXCEPT !.attempts = at]
  BY Zenon DEF Consume
<1> HIDE DEF k, at
<1>3. k \in Gates /\ k.required = n.required /\ k.idr = n.idr
  BY Zenon, <1>1, <1>2 DEF Gates
<1> QED BY Zenon, <1>3 DEF Steps, k

\* A clean frame lifts the requirement of a tile whose IDR has come.
LEMMA MarkCleanSteps ==
  ASSUME NEW g \in Gates, g.idr \subseteq g.required, NEW t \in Tile, FbAssumption
  PROVE  Steps(g, MarkClean(g, t)) /\ MarkClean(g, t).idr \ g.idr = {}
<1> DEFINE r == IF Recovers(g, t) THEN {t} ELSE {}
           at == IF 0 \in r THEN 0 ELSE g.attempts
           n == MarkClean(g, t)
<1>1. n = [g EXCEPT !.bad = @ \ {t}, !.required = @ \ r, !.idr = @ \ r, !.attempts = at]
  BY Zenon DEF MarkClean
<1>2. at \in 0 .. ReArmCap
  BY FbAssumption DEF Gates
<1>3. \A u \in r : u \in g.idr /\ ~Running("loud")
  BY Zenon DEF Recovers
<1> HIDE DEF r, at, n
<1>4. n \in Gates /\ n.required = g.required \ r /\ n.idr = g.idr \ r
  BY Zenon, <1>1, <1>2 DEF Gates
<1>5. Steps(g, n) /\ n.idr \ g.idr = {}
  BY Zenon, <1>3, <1>4 DEF Steps
<1> QED BY Zenon, <1>5 DEF n

\* A credible IDR is noted for every tile that requires one, a small one for none.
LEMMA MarkIdrSteps ==
  ASSUME NEW g \in Gates, g.idr \subseteq g.required
  PROVE  Steps(g, MarkIdr(g, FALSE)) /\ MarkIdr(g, TRUE) = g
<1> DEFINE n == MarkIdr(g, FALSE)
<1>1. n = [g EXCEPT !.idr = @ \cup g.required]
  BY Zenon DEF MarkIdr
<1> HIDE DEF n
<1>2. n \in Gates /\ n.required = g.required /\ n.idr = g.idr \cup g.required
  BY Zenon, <1>1 DEF Gates
<1> QED BY Zenon, <1>2 DEF Steps, MarkIdr, n

\* A step that leaves the gate alone.
LEMMA StaysSteps ==
  ASSUME NEW g \in Gates, g.idr \subseteq g.required
  PROVE  Steps(g, g)
BY Zenon DEF Steps

Macs == [idle : BOOLEAN, asked : BOOLEAN, faults : 0 .. Faults]

GateInv == FbTypeOK /\ gate.idr \subseteq gate.required

\* Every handler does to the gate what it may.
LEMMA GateStep ==
  ASSUME GateInv, FbNext, FbAssumption
  PROVE  Steps(gate, gate') /\ (gate'.idr \ gate.idr # {} => mac'.faults = mac.faults)
<1> DEFINE Goal == Steps(gate, gate') /\ (gate'.idr \ gate.idr # {} => mac'.faults = mac.faults)
<1>0. gate \in Gates /\ gate.idr \subseteq gate.required /\ tiles \in Nat \ {0} /\ 0 \in Tile
  BY FbAssumption DEF GateInv, FbTypeOK, Gates, Tile
<1>9. ASSUME UNCHANGED gate PROVE Goal
  BY Zenon, <1>0, <1>9, StaysSteps
<1>m. ASSUME NEW ts \in SUBSET Tile, gate' = MarkError(gate, ts) PROVE Goal
  BY Zenon, <1>0, <1>m, MarkErrorRaises, RaisesSteps
<1>1. CASE TxTick
  <2>1. CASE Escalates
    <3> DEFINE g == MarkError(gate, Tile)
    <3>1. Raises(gate, g) /\ g \in Gates /\ Steps(gate, g) /\ g.idr \ gate.idr = {}
      <4>1. Raises(gate, g)
        BY Zenon, <1>0, MarkErrorRaises
      <4> HIDE DEF g
      <4> QED BY Zenon, <1>0, <4>1, RaisesSteps DEF Raises
    <3>2. 0 \in gate.required
      <4>1. tiles = 1 /\ gate.required # {} /\ gate.required \subseteq Tile
        BY Zenon, <1>0, <2>1 DEF Escalates, Gates
      <4> QED BY <4>1 DEF Tile
    <3>3. gate' = g \/ gate' = Consume(g)
      BY Zenon, <1>1, <2>1 DEF TxTick, DrainEscalates
    <3> HIDE DEF g
    <3>4. Steps(gate, Consume(g)) /\ Consume(g).idr = g.idr
      BY Zenon, <1>0, <3>1, <3>2, ConsumeSteps
    <3> QED BY Zenon, <3>1, <3>3, <3>4
  <2>2. CASE ~Escalates
    <3>1. gate' = gate \/ gate' = Consume(gate)
      BY Zenon, <1>1, <2>2 DEF TxTick, DrainPendingFir
    <3>2. Steps(gate, Consume(gate)) /\ Consume(gate).idr = gate.idr
      BY Zenon, <1>0, StaysSteps, ConsumeSteps
    <3> QED BY Zenon, <1>9, <3>1, <3>2
  <2> QED BY Zenon, <2>1, <2>2
<1>2. CASE RequestFir \/ SoftConcealment \/ \E t \in Tile : DecodeError(t)
  <2>1. \E ts \in SUBSET Tile : gate' = MarkError(gate, ts)
    BY Zenon, <1>0, <1>2 DEF RequestFir, SoftConcealment, DecodeError
  <2> QED BY Zenon, <1>m, <2>1
<1>3. CASE FbRestart
  <2>1. gate' = [required |-> Tile, idr |-> {}, bad |-> Tile, attempts |-> 0]
    BY Zenon, <1>3 DEF FbRestart, Reset
  <2>2. gate' \in Gates /\ gate'.required = Tile /\ gate'.idr = {} /\ gate'.attempts = 0
    BY <2>1, FbAssumption DEF Gates
  <2> QED BY Zenon, <1>0, <2>2 DEF Steps, Gates
<1>4. CASE OnLibavConcealment
  <2>1. UNCHANGED gate \/ \E g \in {gate, MarkError(gate, Tile)}, ts \in SUBSET Tile :
                             gate' = MarkError(g, ts)
    <3>1. ASSUME NEW g, g \in Gates PROVE g.bad \in SUBSET Tile
      BY Zenon, <3>1 DEF Gates
    <3>2. MarkError(gate, Tile) \in Gates
      BY Zenon, <1>0, MarkErrorRaises DEF Raises
    <3> DEFINE all == (IF Running("storm") THEN policy.firs ELSE 0) + 1 >= ForceallAfter
               g == IF all THEN MarkError(gate, Tile) ELSE gate
               ts == IF g.bad = {} /\ tiles = 1 THEN {0} ELSE g.bad
    <3>3. UNCHANGED gate \/ gate' = MarkError(g, ts)
      BY Zenon, <1>4 DEF OnLibavConcealment
    <3>4. g \in {gate, MarkError(gate, Tile)} /\ ts \in SUBSET Tile
      BY Zenon, <1>0, <3>1, <3>2
    <3> HIDE DEF g, ts
    <3> QED BY Zenon, <3>3, <3>4
  <2>2. ASSUME NEW ts \in SUBSET Tile, gate' = MarkError(MarkError(gate, Tile), ts) PROVE Goal
    <3>1. Raises(gate, MarkError(gate, Tile)) /\ MarkError(gate, Tile) \in Gates
      BY Zenon, <1>0, MarkErrorRaises DEF Raises
    <3>2. Raises(MarkError(gate, Tile), gate')
      BY Zenon, <2>2, <3>1, MarkErrorRaises
    <3>3. Raises(gate, gate')
      BY Zenon, <3>1, <3>2, RaisesTwice
    <3> QED BY Zenon, <1>0, <3>3, RaisesSteps
  <2> QED BY Zenon, <1>9, <1>m, <2>1, <2>2
<1>5. CASE HostAnswers \/ UnaskedIdr
  <2>1. gate' = MarkIdr(gate, FALSE) /\ mac'.faults = mac.faults
    <3>1. mac \in Macs
      BY Zenon DEF GateInv, FbTypeOK, Macs
    <3>2. gate' = MarkIdr(gate, FALSE) /\ (mac' = mac \/ mac' = [mac EXCEPT !.asked = FALSE])
      BY Zenon, <1>5 DEF HostAnswers, UnaskedIdr, IdrArrives
    <3> QED BY Zenon, <3>1, <3>2 DEF Macs
  <2> QED BY Zenon, <1>0, <2>1, MarkIdrSteps
<1>6. CASE SmallIdr
  BY Zenon, <1>0, <1>6, <1>9, MarkIdrSteps DEF SmallIdr, IdrArrives
<1>7. ASSUME NEW t \in Tile, Clean(t) PROVE Goal
  BY Zenon, <1>0, <1>7, MarkCleanSteps DEF Clean
<1>8. CASE Reanchor \/ AnswerLost \/ GoIdle \/ Resume \/ \E x \in Timers : Expire(x)
  BY Zenon, <1>8, <1>9 DEF Reanchor, AnswerLost, GoIdle, Resume, Expire
<1> QED BY Zenon, <1>1, <1>2, <1>3, <1>4, <1>5, <1>6, <1>7, <1>8 DEF FbNext

\* What a step may do to the Mac and to the faults left.
LEMMA MacMoves ==
  ASSUME NEW m \in Macs, NEW ts, NEW b \in BOOLEAN, FbAssumption
  PROVE  /\ Sent(m, ts) \in Macs /\ [m EXCEPT !.asked = b] \in Macs /\ [m EXCEPT !.idle = b] \in Macs
         /\ m.faults > 0 => Spent(m) \in Macs
<1>1. (m.asked \/ Due(ts) # {}) \in BOOLEAN
  OBVIOUS
<1>2. Sent(m, ts) = [m EXCEPT !.asked = m.asked \/ Due(ts) # {}]
  BY Zenon DEF Sent
<1>3. \A c \in BOOLEAN : [m EXCEPT !.asked = c] \in Macs
  BY Zenon DEF Macs
<1>4. m.faults > 0 => Spent(m) \in Macs
  BY FbAssumption DEF Macs, Spent
<1>5. [m EXCEPT !.idle = b] \in Macs
  BY Zenon DEF Macs
<1> QED BY Zenon, <1>1, <1>2, <1>3, <1>4, <1>5

\* The Mac and the network, step by step.
LEMMA MacStep == ASSUME mac \in Macs, FbNext, FbAssumption PROVE mac' \in Macs
<1>1. mac.faults > 0 => Spent(mac) \in Macs
  BY Zenon, MacMoves
<1>2. CASE TxTick
  <2>1. mac' \in {mac, Sent(mac, {0}), Sent(mac, Tile)}
    BY Zenon, <1>2 DEF TxTick, DrainEscalates, DrainPendingFir
  <2> QED BY Zenon, <2>1, MacMoves
<1>3. CASE RequestFir \/ FbRestart \/ Reanchor
  BY Zenon, <1>1, <1>3, MacMoves DEF RequestFir, FbRestart, Reanchor, Fault
<1>4. CASE OnLibavConcealment
  <2>1. mac.faults > 0 /\ mac' \in {Spent(mac), Sent(Spent(mac), Tile)}
    BY Zenon, <1>4 DEF OnLibavConcealment, Fault
  <2> QED BY Zenon, <1>1, <2>1, MacMoves
<1>5. CASE SoftConcealment \/ SmallIdr \/ \E t \in Tile : DecodeError(t)
  BY Zenon, <1>1, <1>5 DEF SoftConcealment, SmallIdr, DecodeError, IdrArrives, Fault
<1>6. CASE HostAnswers \/ UnaskedIdr \/ Resume \/ \E t \in Tile : Clean(t)
  BY Zenon, <1>6, MacMoves DEF HostAnswers, UnaskedIdr, IdrArrives, Resume, Clean
<1>7. CASE AnswerLost \/ GoIdle
  BY Zenon, <1>1, <1>7, MacMoves DEF AnswerLost, GoIdle, Fault
<1>8. CASE \E x \in Timers : Expire(x)
  BY Zenon, <1>8 DEF Expire
<1> QED BY Zenon, <1>2, <1>3, <1>4, <1>5, <1>6, <1>7, <1>8 DEF FbNext

Policies == [firs : 0 .. ForceallAfter - 1, forceall : BOOLEAN]

\* What policy_mu_ protects.
LEMMA PolicyStep == ASSUME policy \in Policies, FbNext, FbAssumption PROVE policy' \in Policies
<1>1. CASE TxTick
  <2>1. \E b \in BOOLEAN : policy' = [policy EXCEPT !.forceall = b]
    <3>1. (policy.forceall /\ ~(tiles = 1 /\ gate.required = {})) \in BOOLEAN
      BY Zenon DEF Policies
    <3>2. \/ policy' = [policy EXCEPT !.forceall = FALSE]
          \/ policy' = [policy EXCEPT !.forceall = policy.forceall /\ ~(tiles = 1 /\ gate.required = {})]
      BY Zenon, <1>1 DEF TxTick, DrainEscalates, DrainPendingFir
    <3> QED BY Zenon, <3>1, <3>2
  <2> QED BY Zenon, <2>1 DEF Policies
<1>2. CASE OnLibavConcealment
  <2> DEFINE before == IF Running("storm") THEN policy.firs ELSE 0
  <2>1. before \in 0 .. ForceallAfter - 1
    BY FbAssumption DEF Policies
  <2>2. policy' = [policy EXCEPT !.firs = before] \/ policy' = Count(before + 1)
    BY Zenon, <1>2 DEF OnLibavConcealment
  <2> HIDE DEF before
  <2>3. [policy EXCEPT !.firs = before] \in Policies
    BY Zenon, <2>1 DEF Policies
  <2>4. Count(before + 1) \in Policies
    <3>1. (policy.forceall \/ tiles = 1) \in BOOLEAN
      OBVIOUS
    <3>2. ASSUME NEW b \in BOOLEAN, NEW n \in 0 .. ForceallAfter - 1
          PROVE  [firs |-> n, forceall |-> b] \in Policies
      BY Zenon DEF Policies
    <3>3. 0 \in 0 .. ForceallAfter - 1
          /\ (~(before + 1 >= ForceallAfter) => before + 1 \in 0 .. ForceallAfter - 1)
      BY <2>1, FbAssumption
    <3> QED BY Zenon, <3>1, <3>2, <3>3 DEF Count
  <2> QED BY Zenon, <2>2, <2>3, <2>4
<1>3. CASE UNCHANGED policy
  BY Zenon, <1>3
<1> QED BY Zenon, <1>1, <1>2, <1>3 DEF FbNext, RequestFir, FbRestart, Reanchor, SoftConcealment, HostAnswers,
       UnaskedIdr, SmallIdr, IdrArrives, AnswerLost, GoIdle, Resume, DecodeError, Clean, Expire

\* Only timers of this session run.
LEMMA TimerStep ==
  ASSUME tiles \in TileCounts, timer \subseteq Timers, FbNext, FbAssumption
  PROVE  timer' \subseteq Timers /\ tiles' = tiles
<1>0. 0 \in Tile
  BY FbAssumption DEF Tile
<1>1. /\ \A ps \in SUBSET Plain : Start(ps) \subseteq Timers
      /\ \A ts \in SUBSET Tile : FirTimers(ts) \subseteq Timers
  BY Zenon DEF Start, FirTimers, Due, Timers
<1>2. {"grace"} \subseteq Plain /\ {"rearm"} \subseteq Plain /\ {"loud"} \subseteq Plain
      /\ {"fast"} \subseteq Plain /\ {"stall", "storm"} \subseteq Plain /\ {0} \subseteq Tile
  BY Zenon, <1>0 DEF Plain
<1>3. CASE TxTick
  BY Zenon, <1>1, <1>2, <1>3 DEF TxTick, DrainEscalates, DrainPendingFir
<1>4. CASE RequestFir \/ FbRestart \/ Reanchor \/ SoftConcealment
  BY Zenon, <1>1, <1>2, <1>4 DEF RequestFir, FbRestart, Reanchor, SoftConcealment
<1>5. CASE OnLibavConcealment
  <2>1. timer' \subseteq timer \cup Start({"stall", "storm"}) \cup Start({"fast"}) \cup Start({"loud"})
                      \cup FirTimers(Tile) /\ tiles' = tiles
    BY Zenon, <1>5 DEF OnLibavConcealment
  <2> QED BY Zenon, <1>1, <1>2, <2>1
<1>6. CASE HostAnswers \/ UnaskedIdr \/ SmallIdr
  BY Zenon, <1>1, <1>2, <1>6 DEF HostAnswers, UnaskedIdr, SmallIdr, IdrArrives
<1>7. CASE AnswerLost \/ GoIdle \/ Resume \/ \E t \in Tile : DecodeError(t) \/ Clean(t)
  BY Zenon, <1>7 DEF AnswerLost, GoIdle, Resume, DecodeError, Clean
<1>8. CASE \E x \in Timers : Expire(x)
  BY Zenon, <1>8 DEF Expire
<1> QED BY Zenon, <1>3, <1>4, <1>5, <1>6, <1>7, <1>8 DEF FbNext

\* A tile's requirement of a key frame falls only when a credible IDR has come
\* after it and a frame decodes cleanly; each starts with its own attempts.
THEOREM RequirementsKept == FbSpec => RequirementKept
<1> USE FbAssumption
<1>1. FbInit => GateInv
  <2> SUFFICES ASSUME FbInit PROVE GateInv
    OBVIOUS
  <2>1. gate \in Gates /\ gate.idr = {} /\ mac \in Macs /\ policy \in Policies
    BY DEF FbInit, Gates, Macs, Policies
  <2> QED BY Zenon, <2>1 DEF FbInit, GateInv, FbTypeOK, Gates, Macs, Policies
<1>2. GateInv /\ FbNext => GateInv' /\ StickyRequirement /\ FreshAttempts
  <2> SUFFICES ASSUME GateInv, FbNext PROVE GateInv' /\ StickyRequirement /\ FreshAttempts
    OBVIOUS
  <2>1. Steps(gate, gate') /\ (gate'.idr \ gate.idr # {} => mac'.faults = mac.faults)
    BY Zenon, GateStep
  <2>2. mac \in Macs /\ policy \in Policies /\ tiles \in TileCounts /\ timer \subseteq Timers
    BY Zenon DEF GateInv, FbTypeOK, Macs, Policies
  <2>3. mac' \in Macs /\ policy' \in Policies /\ timer' \subseteq Timers /\ tiles' = tiles
    BY Zenon, <2>2, MacStep, PolicyStep, TimerStep
  <2>4. Tile' = Tile /\ Timers' = Timers
    BY Zenon, <2>3 DEF Tile, Timers
  <2>5. FbTypeOK'
    BY Zenon, <2>1, <2>2, <2>3, <2>4 DEF FbTypeOK, Macs, Policies, Steps, Gates
  <2> QED BY Zenon, <2>1, <2>5 DEF GateInv, Steps, StickyRequirement, FreshAttempts
<1>3. GateInv /\ UNCHANGED fbVars => GateInv'
  BY Zenon DEF fbVars, GateInv, FbTypeOK, Tile, Timers
<1>4. GateInv /\ [FbNext]_fbVars
        => GateInv' /\ [FbTypeOK' /\ StickyRequirement /\ FreshAttempts]_fbVars
  BY Zenon, <1>2, <1>3 DEF GateInv
<1> QED BY <1>1, <1>4, PTL DEF FbSpec, RequirementKept

=============================================================================
