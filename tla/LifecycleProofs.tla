--------------------------- MODULE LifecycleProofs ---------------------------
(***************************************************************************)
(* Proofs about Lifecycle, whichever Stops may wedge: what the process     *)
(* holds follows from how far main has come, and main's order is the       *)
(* order of dependencies.                                                  *)
(***************************************************************************)
EXTENDS Lifecycle, TLAPS

\* The i-th manager's Start has returned nil and its Stop has not returned.
Up(i) ==
    \/ phase = "starting" /\ at > i
    \/ phase = "ready"
    \/ phase = "tearing" /\ at >= i

\* Where main can be, and the VM's part of it.
MainInv ==
    /\ at \in 0 .. 6
    /\ phase \in {"starting", "ready", "tearing", "exited"}
    /\ phase = "starting" => at >= 1
    /\ phase = "ready" => at = 6
    /\ phase = "exited" => at = 0
    /\ vm = "booted" => Up(2)
    /\ phase = "starting" /\ at >= 3 => vm = "booted"
    /\ Up(3) => vm = "booted"
    /\ vm = "off" => ~Up(2)
    /\ vm \in {"building", "dir", "keyed", "staged", "launched"} => phase = "starting" /\ at = 2
    /\ vm \in {"terminating", "removing", "clearing", "unaimed"} =>
          phase \in {"starting", "tearing"} /\ at = 2

\* What the VM manager holds at each stage.
VMInv ==
    /\ target \subseteq Fields
    /\ "flakeDir" \in live => vm = "building"
    /\ "runtimeDir" \in live <=> vm \in {"dir", "keyed", "staged", "launched", "booted",
                                        "terminating", "removing"}
    /\ "qemu" \in live => vm \in {"launched", "booted", "terminating"}
    /\ vm \in {"staged", "launched", "booted"} => target = Fields
    /\ vm \in {"off", "building", "dir"} => target = {}
    /\ vm = "keyed" => target = {"signer"}
    /\ vm = "unaimed" => target \subseteq {"signer"}

\* What the other managers hold.
HeldInv ==
    /\ "writer" \in live => Up(3)
    /\ "agent" \in live => Up(4) \/ (phase = "starting" /\ at = 4)
    /\ "endpoint" \in live => Up(4)
    /\ Up(4) => {"agent", "endpoint"} \subseteq live
    /\ "server" \in live <=> Up(5)
    /\ "ui" \in live => Up(6)

IInv == TypeOK /\ MainInv /\ VMInv /\ HeldInv

-----------------------------------------------------------------------------
LEMMA OrderOfManagers ==
    /\ Len(Order) = 6
    /\ Order[1] = "registry"
    /\ Order[2] = "vm"
    /\ Order[3] = "coauthor"
    /\ Order[4] = "tunnel"
    /\ Order[5] = "frontdoor"
    /\ Order[6] = "control"
  BY DEF Order

\* main stands at a manager exactly when its index says so.
LEMMA NowIsIndex ==
    ASSUME at \in 0 .. 6, NEW p
    PROVE  /\ Now(p, "registry") <=> phase = p /\ at = 1
           /\ Now(p, "vm") <=> phase = p /\ at = 2
           /\ Now(p, "coauthor") <=> phase = p /\ at = 3
           /\ Now(p, "tunnel") <=> phase = p /\ at = 4
           /\ Now(p, "frontdoor") <=> phase = p /\ at = 5
           /\ Now(p, "control") <=> phase = p /\ at = 6
  <1>1. at \in {0, 1, 2, 3, 4, 5, 6}
    OBVIOUS
  <1>2. QED
    BY <1>1, OrderOfManagers DEF Now

\* The initial state satisfies the invariant.
LEMMA InitInv == Init => IInv
  <1> SUFFICES ASSUME Init PROVE IInv
    OBVIOUS
  <1>1. MainInv
    BY DEF Init, MainInv, Up
  <1>2. VMInv
    BY DEF Init, VMInv
  <1>3. HeldInv
    BY DEF Init, HeldInv, Up
  <1>4. at \in 0 .. Len(Order)
    BY OrderOfManagers DEF Init
  <1>5. QED
    BY <1>1, <1>2, <1>3, <1>4 DEF IInv, TypeOK, Init

\* Every step keeps main's place, and the VM's, in order.
LEMMA StepMain == MainInv /\ [Next]_vars => MainInv'
  <1> SUFFICES ASSUME MainInv, [Next]_vars PROVE MainInv'
    OBVIOUS
  <1> USE OrderOfManagers, NowIsIndex DEF MainInv, Up
  <1>1. CASE StartVM
    BY <1>1 DEF StartVM, ExtractFlake, BuildVM, GenerateKey, StageShare, LaunchQemu,
                WaitForSSH, Started, StartFailed
  <1>2. CASE StartRegistry \/ StartWriter \/ ConnectAgent \/ OpenEndpoint
    <2>1. CASE StartRegistry
      BY <2>1 DEF StartRegistry, Started
    <2>2. CASE StartWriter
      BY <2>2 DEF StartWriter, Started, StartFailed
    <2>3. CASE ConnectAgent
      BY <2>3 DEF ConnectAgent, StartFailed
    <2>4. CASE OpenEndpoint
      BY <2>4 DEF OpenEndpoint, Started, StartFailed
    <2>5. QED
      BY <1>2, <2>1, <2>2, <2>3, <2>4
  <1>3. CASE StartFrontDoor \/ StartControl
    BY <1>3 DEF StartFrontDoor, StartControl, Started, StartFailed
  <1>4. CASE StopControl \/ StopFrontDoor \/ StopTunnel \/ StopWriter \/ StopRegistry
    BY <1>4 DEF StopControl, StopFrontDoor, StopTunnel, StopWriter, StopRegistry, Stopped
  <1>5. CASE StopVM \/ TerminateQemu \/ RemoveRuntimeDir \/ ClearPort \/ ClearSigner
    BY <1>5 DEF StopVM, TerminateQemu, RemoveRuntimeDir, ClearPort, ClearSigner
  <1>6. CASE BeginTeardown \/ Exit \/ Wedge \/ Expire \/ Cancel \/ QemuDies
    BY <1>6 DEF BeginTeardown, Exit, Wedge, Expire, Cancel, QemuDies
  <1>7. CASE UNCHANGED vars
    BY <1>7 DEF vars
  <1>8. QED
    BY <1>1, <1>2, <1>3, <1>4, <1>5, <1>6, <1>7 DEF Next, StartNext, StopNext

\* The stages of the VM acquire and release what VMInv says.
LEMMA StepVM == MainInv /\ VMInv /\ [Next]_vars => VMInv'
  <1> SUFFICES ASSUME MainInv, VMInv, [Next]_vars PROVE VMInv'
    OBVIOUS
  <1> USE DEF VMInv, Fields
  <1>1. CASE StartVM
    BY <1>1 DEF StartVM, ExtractFlake, BuildVM, GenerateKey, StageShare, LaunchQemu,
                WaitForSSH
  <1>2. CASE StartRegistry \/ StartWriter \/ ConnectAgent \/ OpenEndpoint
    BY <1>2 DEF StartRegistry, StartWriter, ConnectAgent, OpenEndpoint
  <1>3. CASE StartFrontDoor \/ StartControl
    BY <1>3 DEF StartFrontDoor, StartControl
  <1>4. CASE StopControl \/ StopFrontDoor \/ StopTunnel \/ StopWriter \/ StopRegistry
    BY <1>4 DEF StopControl, StopFrontDoor, StopTunnel, StopWriter, StopRegistry, Stopped
  <1>5. CASE StopVM \/ TerminateQemu \/ RemoveRuntimeDir \/ ClearPort \/ ClearSigner
    BY <1>5 DEF StopVM, TerminateQemu, RemoveRuntimeDir, ClearPort, ClearSigner
  <1>6. CASE BeginTeardown \/ Exit \/ Wedge \/ Expire \/ Cancel \/ QemuDies
    BY <1>6 DEF BeginTeardown, Exit, Wedge, Expire, Cancel, QemuDies
  <1>7. CASE UNCHANGED vars
    BY <1>7 DEF vars
  <1>8. QED
    BY <1>1, <1>2, <1>3, <1>4, <1>5, <1>6, <1>7 DEF Next, StartNext, StopNext

\* The other managers hold what they hold between their Start and their Stop.
LEMMA StepHeld == MainInv /\ HeldInv /\ [Next]_vars => HeldInv'
  <1> SUFFICES ASSUME MainInv, HeldInv, [Next]_vars PROVE HeldInv'
    OBVIOUS
  <1> USE OrderOfManagers, NowIsIndex DEF MainInv, HeldInv, Up
  <1>1. CASE StartVM
    BY <1>1 DEF StartVM, ExtractFlake, BuildVM, GenerateKey, StageShare, LaunchQemu,
                WaitForSSH, Started, StartFailed
  <1>2. CASE StartRegistry \/ StartWriter \/ ConnectAgent \/ OpenEndpoint
    BY <1>2 DEF StartRegistry, StartWriter, ConnectAgent, OpenEndpoint, Started, StartFailed
  <1>3. CASE StartFrontDoor \/ StartControl
    BY <1>3 DEF StartFrontDoor, StartControl, Started, StartFailed
  <1>4. CASE StopControl \/ StopFrontDoor \/ StopTunnel \/ StopWriter \/ StopRegistry
    BY <1>4 DEF StopControl, StopFrontDoor, StopTunnel, StopWriter, StopRegistry, Stopped
  <1>5. CASE StopVM \/ TerminateQemu \/ RemoveRuntimeDir \/ ClearPort \/ ClearSigner
    BY <1>5 DEF StopVM, TerminateQemu, RemoveRuntimeDir, ClearPort, ClearSigner
  <1>6. CASE BeginTeardown \/ Exit \/ Wedge \/ Expire \/ Cancel \/ QemuDies
    BY <1>6 DEF BeginTeardown, Exit, Wedge, Expire, Cancel, QemuDies
  <1>7. CASE UNCHANGED vars
    BY <1>7 DEF vars
  <1>8. QED
    BY <1>1, <1>2, <1>3, <1>4, <1>5, <1>6, <1>7 DEF Next, StartNext, StopNext

\* Every step keeps the state well typed; where main goes is StepMain's.
LEMMA StepTyped == TypeOK /\ MainInv' /\ [Next]_vars => TypeOK'
  <1> SUFFICES ASSUME TypeOK, MainInv', [Next]_vars PROVE TypeOK'
    OBVIOUS
  <1>0. at' \in 0 .. Len(Order) /\ phase' \in {"starting", "ready", "tearing", "exited"}
    BY OrderOfManagers DEF MainInv
  <1> USE <1>0 DEF TypeOK
  <1>1. CASE StartVM
    BY <1>1 DEF StartVM, ExtractFlake, BuildVM, GenerateKey, StageShare, LaunchQemu,
                WaitForSSH, Fields, Resources
  <1>2. CASE StartRegistry \/ StartWriter \/ ConnectAgent \/ OpenEndpoint
    BY <1>2 DEF StartRegistry, StartWriter, ConnectAgent, OpenEndpoint, Resources
  <1>3. CASE StartFrontDoor \/ StartControl
    BY <1>3 DEF StartFrontDoor, StartControl, Resources
  <1>4. CASE StopControl \/ StopFrontDoor \/ StopTunnel \/ StopWriter \/ StopRegistry
    BY <1>4 DEF StopControl, StopFrontDoor, StopTunnel, StopWriter, StopRegistry, Stopped
  <1>5. CASE StopVM \/ TerminateQemu \/ RemoveRuntimeDir \/ ClearPort \/ ClearSigner
    BY <1>5 DEF StopVM, TerminateQemu, RemoveRuntimeDir, ClearPort, ClearSigner, Resources
  <1>6. CASE BeginTeardown \/ Exit \/ Wedge \/ Expire \/ Cancel \/ QemuDies
    BY <1>6 DEF BeginTeardown, Exit, Wedge, Expire, Cancel, QemuDies
  <1>7. CASE UNCHANGED vars
    BY <1>7 DEF vars
  <1>8. QED
    BY <1>1, <1>2, <1>3, <1>4, <1>5, <1>6, <1>7 DEF Next, StartNext, StopNext

-----------------------------------------------------------------------------
\* The strengthened invariant holds throughout.
THEOREM Invariance == Spec => []IInv
  <1>1. IInv /\ [Next]_vars => IInv'
    BY StepMain, StepVM, StepHeld, StepTyped DEF IInv
  <1>2. QED
    BY InitInv, <1>1, PTL DEF Spec

\* The state of main and of what the process holds is well typed.
THEOREM TypeCorrect == Spec => []TypeOK
  <1>1. IInv => TypeOK
    BY DEF IInv
  <1>2. QED
    BY <1>1, Invariance, PTL

\* Whichever step of whichever Start fails and whenever the signal comes, the process
\* exits with nothing left but what no code waits for or looks after, whatever Stops wedge
\* in between.
THEOREM NothingIsLeft == Spec => []NothingLeftBehind
  <1>1. IInv => NothingLeftBehind
    <2> SUFFICES ASSUME IInv, phase = "exited" PROVE live \subseteq {"dyingQemu", "leftovers"} /\ target = {}
      BY DEF NothingLeftBehind
    <2>1. vm = "off"
      BY DEF IInv, TypeOK, MainInv, Up
    <2>2. ~Up(3) /\ ~Up(4) /\ ~Up(5) /\ ~Up(6)
      BY DEF IInv, MainInv, Up
    <2>3. QED
      BY <2>1, <2>2 DEF IInv, TypeOK, VMInv, HeldInv, Resources
  <1>2. QED
    BY <1>1, Invariance, PTL

\* A manager runs only over what it was started on top of.
THEOREM DependenciesAreUp == Spec => []RunsOverItsDependencies
  <1>1. IInv => RunsOverItsDependencies
    <2> SUFFICES ASSUME MainInv, VMInv, HeldInv PROVE RunsOverItsDependencies
      BY DEF IInv
    <2>1. /\ Up(6) => Up(5)
          /\ Up(5) => Up(4)
          /\ Up(4) => Up(3)
          /\ phase = "starting" /\ at = 4 => Up(3)
      BY DEF MainInv, Up
    <2>2. Up(3) => vm = "booted"
      BY DEF MainInv
    <2>3. QED
      BY <2>1, <2>2 DEF VMInv, HeldInv, RunsOverItsDependencies
  <1>2. QED
    BY <1>1, Invariance, PTL
=============================================================================
