--------------------------- MODULE SessionsProofs ---------------------------
(***************************************************************************)
(* Proofs about Sessions, for any set of connections and whichever Stops   *)
(* may wedge: the process still behaves as Lifecycle says while handlers   *)
(* come and go, and a handler that gets through to the sandbox has the     *)
(* whole of the target although Target and teardown share no lock.         *)
(***************************************************************************)
EXTENDS Sessions, LifecycleProofs

\* What is true of main and the VM from the first connection on: nothing is started
\* any more below the control plane, and the VM only comes apart.
Served ==
    /\ vm \in {"booted", "terminating", "removing", "clearing", "unaimed", "off"}
    /\ phase = "starting" => at = 6 /\ vm = "booted"
    /\ vm \in {"booted", "terminating", "removing", "clearing"} => target = Fields
    /\ vm = "unaimed" => "signer" \in target

\* What a handler has copied of the target, or else how far teardown has come.
AimInv(c) ==
    /\ run[c] # "absent" => Served
    /\ run[c] \in {"aimed", "dialing"} => "port" \in aim[c] \/ vm \in {"unaimed", "off"}
    /\ run[c] = "dialing" => "signer" \in aim[c] \/ vm = "off"
    /\ Bridged(c) => aim[c] = Fields

SInv ==
    /\ IInv
    /\ SessionsTypeOK
    /\ \A c \in Conns : AimInv(c)

-----------------------------------------------------------------------------
\* A step of a connection is no step of main's, or it is the cancellation of the root
\* context: the owner's handler has returned.
LEMMA HostStep ==
    ASSUME TypeOK, [SessionsNext]_allVars
    PROVE  [Next]_vars
  <1>1. CASE HostNext
    BY <1>1 DEF HostNext
  <1>2. CASE phase # "exited" /\ \E c \in Conns : HandlerReturns(c)
    <2>1. PICK c \in Conns : HandlerReturns(c)
      BY <1>2
    <2>2. cancelled \in BOOLEAN
      BY DEF TypeOK
    <2>3. UNCHANGED <<phase, at, live, vm, target, expired, wedged>>
      BY <2>1 DEF HandlerReturns
    <2>4. cancelled' = (cancelled \/ c = owner)
      BY <2>1 DEF HandlerReturns
    <2>5. CASE cancelled \/ c # owner
      <3>1. cancelled' = cancelled
        BY <2>2, <2>4, <2>5, Zenon
      <3>2. QED
        BY <2>3, <3>1 DEF vars
    <2>6. CASE ~cancelled /\ c = owner
      <3>1. cancelled' = TRUE
        BY <2>2, <2>4, <2>6, Zenon
      <3>2. QED
        BY <1>2, <2>3, <2>6, <3>1 DEF Next, Cancel
    <2>7. QED
      BY <2>5, <2>6
  <1>3. CASE \E c \in Conns : SessionNext(c) /\ ~HandlerReturns(c)
    BY <1>3 DEF SessionNext, Targets, Attaches, Waits, Inputs, Client,
       ComesToBridge, CheckTarget, CopyPort, CopySigner, Dial, Fails, Handshake,
       OpenSession, StartAttach, WaitEnds, RunReturns, CloserEnds, ResizerEnds,
       ChannelCloses, OutputEnds, PumpReads, PumpHandsOver, PumpEnds, FeederReads,
       FeederWrites, FeederEnds, Kicked, HangsUp, ClientStalls, ClientReadsOn
  <1>4. CASE SandboxHangs
    BY <1>4 DEF SandboxHangs
  <1>5. CASE UNCHANGED allVars
    BY <1>5 DEF allVars
  <1>6. QED
    BY <1>1, <1>2, <1>3, <1>4, <1>5 DEF SessionsNext

\* So the invariant of Lifecycle is kept, whatever the connections do.
LEMMA HostInv == IInv /\ [SessionsNext]_allVars => IInv'
  BY HostStep, StepMain, StepVM, StepHeld, StepTyped DEF IInv

-----------------------------------------------------------------------------
\* Every step keeps the connections well typed.
LEMMA StepSessionsTyped ==
    ASSUME SessionsTypeOK, [SessionsNext]_allVars
    PROVE  SessionsTypeOK'
  <1> USE DEF SessionsTypeOK
  <1>1. CASE HostNext
    BY <1>1 DEF HostNext
  <1>2. CASE SandboxHangs
    BY <1>2 DEF SandboxHangs
  <1>3. CASE UNCHANGED allVars
    BY <1>3 DEF allVars, sessionVars
  <1>4. CASE \E c \in Conns : SessionNext(c)
    <2>1. PICK c \in Conns : SessionNext(c)
      BY <1>4
    <2>2. CASE Targets(c)
      BY <2>2 DEF Targets, ComesToBridge, CheckTarget, CopyPort, CopySigner, To, Copies, Fields
    <2>3. CASE Dial(c) \/ Fails(c) \/ Handshake(c)
      BY <2>3 DEF Dial, Fails, Handshake, To
    <2>4. CASE OpenSession(c) \/ StartAttach(c)
      BY <2>4 DEF OpenSession, StartAttach, To
    <2>5. CASE Waits(c)
      BY <2>5 DEF Waits, WaitEnds, RunReturns, HandlerReturns, To
    <2>6. CASE CloserEnds(c) \/ ResizerEnds(c)
      BY <2>6 DEF CloserEnds, ResizerEnds
    <2>7. CASE ChannelCloses(c) \/ OutputEnds(c)
      BY <2>7 DEF ChannelCloses, OutputEnds
    <2>8. CASE Inputs(c)
      BY <2>8 DEF Inputs, PumpReads, PumpHandsOver, PumpEnds, FeederReads, FeederWrites,
                  FeederEnds
    <2>9. CASE Client(c)
      BY <2>9 DEF Client, Kicked, HangsUp, ClientStalls, ClientReadsOn
    <2>10. QED
      BY <2>1, <2>2, <2>3, <2>4, <2>5, <2>6, <2>7, <2>8, <2>9 DEF SessionNext, Attaches
  <1>5. QED
    BY <1>1, <1>2, <1>3, <1>4 DEF SessionsNext

-----------------------------------------------------------------------------
\* The first connection comes when everything below the front door is up.
LEMMA ServerIsServed ==
    ASSUME IInv, "server" \in live
    PROVE  Served
  <1>1. Up(5)
    BY DEF IInv, HeldInv
  <1>2. Up(3) /\ (phase = "starting" => at = 6)
    BY <1>1 DEF Up, IInv, MainInv
  <1>3. vm = "booted"
    BY <1>2 DEF IInv, MainInv
  <1>4. QED
    BY <1>2, <1>3 DEF IInv, VMInv, Served

\* From then on the VM only comes apart, its port before its signer.
LEMMA ServedStays ==
    ASSUME IInv, Served, [Next]_vars
    PROVE  /\ Served'
           /\ vm \in {"unaimed", "off"} => vm' \in {"unaimed", "off"}
           /\ vm = "off" => vm' = "off"
           /\ "qemu" \in live' => "qemu" \in live
  <1> USE OrderOfManagers, NowIsIndex DEF Served, Fields
  <1>0. MainInv
    BY DEF IInv
  <1>1. CASE StartVM
    BY <1>0, <1>1 DEF MainInv, StartVM, ExtractFlake, BuildVM, GenerateKey, StageShare,
                      LaunchQemu, WaitForSSH
  <1>2. CASE StartRegistry \/ StartWriter \/ ConnectAgent \/ OpenEndpoint
    BY <1>0, <1>2 DEF MainInv, StartRegistry, StartWriter, ConnectAgent, OpenEndpoint
  <1>3. CASE StartFrontDoor \/ StartControl
    BY <1>0, <1>3 DEF MainInv, StartFrontDoor, StartControl, Started, StartFailed
  <1>4. CASE StopControl \/ StopFrontDoor \/ StopTunnel \/ StopWriter \/ StopRegistry
    BY <1>0, <1>4 DEF MainInv, StopControl, StopFrontDoor, StopTunnel, StopWriter,
                      StopRegistry, Stopped
  <1>5. CASE StopVM \/ TerminateQemu \/ RemoveRuntimeDir \/ ClearPort \/ ClearSigner
    BY <1>0, <1>5 DEF MainInv, StopVM, TerminateQemu, RemoveRuntimeDir, ClearPort, ClearSigner
  <1>6. CASE BeginTeardown \/ Exit \/ Wedge \/ Expire \/ Cancel \/ QemuDies
    BY <1>6 DEF BeginTeardown, Exit, Wedge, Expire, Cancel, QemuDies
  <1>7. CASE UNCHANGED vars
    BY <1>7 DEF vars
  <1>8. QED
    BY <1>1, <1>2, <1>3, <1>4, <1>5, <1>6, <1>7 DEF Next, StartNext, StopNext

\* A handler that does not move keeps what it has, whatever main does.
LEMMA HandlerStays ==
    ASSUME SInv, [Next]_vars, NEW c \in Conns, AimInv(c),
           run'[c] = run[c] \/ (run'[c] \in {"draining", "returned", "over"} /\ run[c] # "absent"),
           aim'[c] = aim[c]
    PROVE  AimInv(c)'
  BY ServedStays DEF SInv, AimInv, Bridged

\* Each move of a handler: what it copies is there, or teardown has passed it.
LEMMA HandlerMoves ==
    ASSUME SInv, UNCHANGED <<phase, at, live, vm, target>>, NEW c \in Conns,
           Targets(c) \/ Attaches(c)
    PROVE  AimInv(c)'
  <1>1. Served' = Served
    BY DEF Served
  <1>2. run[c] \in {"absent", "called", "checked", "aimed", "dialing", "handshaking",
                    "opening", "starting", "waiting", "draining", "returned", "over"}
        /\ run \in [Conns -> {"absent", "called", "checked", "aimed", "dialing", "handshaking",
                    "opening", "starting", "waiting", "draining", "returned", "over"}]
        /\ aim \in [Conns -> SUBSET Fields]
    BY DEF SInv, SessionsTypeOK
  <1>3. AimInv(c)
    BY DEF SInv
  <1>4. "qemu" \in live => vm \in {"launched", "booted", "terminating"}
    BY DEF SInv, IInv, VMInv
  <1> USE <1>1, <1>2, <1>3 DEF AimInv, Bridged, To
  <1>5. CASE ComesToBridge(c)
    BY <1>5, ServerIsServed DEF ComesToBridge, SInv
  <1>6. CASE CheckTarget(c)
    BY <1>6 DEF CheckTarget
  <1>7. CASE CopyPort(c)
    BY <1>7 DEF CopyPort, Copies, Served, Fields
  <1>8. CASE CopySigner(c)
    BY <1>8 DEF CopySigner, Copies, Served, Fields
  <1>9. CASE Dial(c)
    BY <1>4, <1>9 DEF Dial, Gone, Fields
  <1>10. CASE Fails(c) \/ Handshake(c)
    BY <1>10 DEF Fails, Handshake, Answers
  <1>11. CASE OpenSession(c) \/ StartAttach(c)
    BY <1>11 DEF OpenSession, StartAttach
  <1>12. QED
    BY <1>5, <1>6, <1>7, <1>8, <1>9, <1>10, <1>11 DEF Targets, Attaches

\* Every step keeps every handler's aim.
LEMMA StepAim ==
    ASSUME SInv, [SessionsNext]_allVars, NEW d \in Conns
    PROVE  AimInv(d)'
  <1>0. [Next]_vars
    BY HostStep DEF SInv, IInv
  <1>1. AimInv(d) /\ run \in [Conns -> {"absent", "called", "checked", "aimed", "dialing",
                    "handshaking", "opening", "starting", "waiting", "draining", "returned", "over"}]
        /\ aim \in [Conns -> SUBSET Fields]
    BY DEF SInv, SessionsTypeOK
  <1>2. CASE run' = run /\ aim' = aim
    BY <1>0, <1>1, <1>2, HandlerStays
  <1>3. CASE \E c \in Conns : Targets(c) \/ Attaches(c)
    <2>1. PICK c \in Conns : Targets(c) \/ Attaches(c)
      BY <1>3
    <2>2. UNCHANGED vars
      BY <2>1 DEF Targets, Attaches, ComesToBridge, CheckTarget, CopyPort, CopySigner, Dial,
         Fails, Handshake, OpenSession, StartAttach
    <2>3. CASE c = d
      BY <2>1, <2>2, <2>3, HandlerMoves DEF vars
    <2>4. CASE c # d
      <3>1. run'[d] = run[d] /\ aim'[d] = aim[d]
        BY <1>1, <2>1, <2>4 DEF Targets, Attaches, ComesToBridge, CheckTarget, CopyPort,
           CopySigner, Dial, Fails, Handshake, OpenSession, StartAttach, To, Copies
      <3>2. QED
        BY <1>0, <1>1, <3>1, HandlerStays
    <2>5. QED
      BY <2>3, <2>4
  <1>4. CASE \E c \in Conns : Waits(c)
    <2>1. PICK c \in Conns : Waits(c)
      BY <1>4
    <2>2. aim'[d] = aim[d]
      BY <2>1 DEF Waits, WaitEnds, RunReturns, HandlerReturns
    <2>3. run'[d] = run[d] \/ (run'[d] \in {"draining", "returned", "over"} /\ run[d] # "absent")
      BY <1>1, <2>1 DEF Waits, WaitEnds, RunReturns, HandlerReturns, To
    <2>4. QED
      BY <1>0, <1>1, <2>2, <2>3, HandlerStays
  <1>5. QED
    <2>1. CASE HostNext \/ SandboxHangs \/ UNCHANGED allVars
      BY <1>2, <2>1 DEF HostNext, SandboxHangs, allVars, sessionVars
    <2>2. CASE \E c \in Conns : \/ CloserEnds(c) \/ ResizerEnds(c) \/ ChannelCloses(c)
                                \/ OutputEnds(c) \/ Inputs(c) \/ Client(c)
      BY <1>2, <2>2 DEF CloserEnds, ResizerEnds, ChannelCloses, OutputEnds, Inputs, Client,
         PumpReads, PumpHandsOver, PumpEnds, FeederReads, FeederWrites, FeederEnds,
         Kicked, HangsUp, ClientStalls, ClientReadsOn
    <2>3. QED
      BY <1>3, <1>4, <2>1, <2>2 DEF SessionsNext, SessionNext

-----------------------------------------------------------------------------
\* The strengthened invariant holds throughout.
THEOREM SessionsInvariance == SessionsSpec => []SInv
  <1>1. SessionsInit => SInv
    <2> SUFFICES ASSUME SessionsInit PROVE SInv
      OBVIOUS
    <2>1. IInv
      BY InitInv DEF SessionsInit
    <2>2. SessionsTypeOK
      BY DEF SessionsInit, SessionsTypeOK
    <2>3. \A c \in Conns : AimInv(c)
      BY DEF SessionsInit, AimInv, Bridged
    <2>4. QED
      BY <2>1, <2>2, <2>3 DEF SInv
  <1>2. SInv /\ [SessionsNext]_allVars => SInv'
    <2> SUFFICES ASSUME SInv, [SessionsNext]_allVars PROVE SInv'
      OBVIOUS
    <2>1. IInv'
      BY HostInv DEF SInv
    <2>2. SessionsTypeOK'
      BY StepSessionsTyped DEF SInv
    <2>3. \A c \in Conns : AimInv(c)'
      BY StepAim
    <2>4. QED
      BY <2>1, <2>2, <2>3 DEF SInv
  <1>3. QED
    BY <1>1, <1>2, PTL DEF SessionsSpec

\* Whatever connections do, the process lives as Lifecycle says: what is proved there
\* holds here, the release of everything among it.
THEOREM SessionsKeepLifecycle == SessionsSpec => Spec
  <1>1. SessionsInit => Init
    BY DEF SessionsInit
  <1>2. SInv /\ [SessionsNext]_allVars => [Next]_vars
    BY HostStep DEF SInv, IInv
  <1>3. QED
    BY <1>1, <1>2, SessionsInvariance, PTL DEF SessionsSpec, Spec

\* Connections, their copiers and helpers are well typed.
THEOREM SessionsTypeCorrect == SessionsSpec => []SessionsTypeOK
  <1>1. SInv => SessionsTypeOK
    BY DEF SInv
  <1>2. QED
    BY <1>1, SessionsInvariance, PTL

\* A handler that gets through to the sandbox has its port and its key, however Target's
\* reads interleave with teardown's writes and however long a killed QEMU takes to die.
THEOREM BridgesHaveTheTarget == SessionsSpec => []BridgedWithWholeTarget
  <1>1. SInv => BridgedWithWholeTarget
    BY DEF SInv, AimInv, BridgedWithWholeTarget
  <1>2. QED
    BY <1>1, SessionsInvariance, PTL
=============================================================================
