----------------------------- MODULE Lifecycle -----------------------------
(***************************************************************************)
(* The life of the host process: cmd/sssh/main.go starts the managers in   *)
(* dependency order, waits for the root context to be cancelled and stops  *)
(* in reverse order those that started.  Starting the VM takes many steps, *)
(* each of which may fail, and cleans up after itself.                     *)
(***************************************************************************)
EXTENDS Naturals, Sequences

CONSTANT MayWedge   \* managers whose Stop, which waits for something, may never return

Order == <<"registry", "vm", "coauthor", "tunnel", "frontdoor", "control">>

ASSUME LifecycleAssumption ==
    MayWedge \subseteq {"control", "tunnel", "coauthor"}

VARIABLES
    phase,      \* of run
    at,         \* index of the manager being started or stopped
    live,       \* what the process holds: processes, directories, listeners
    vm,         \* how far the VM manager has come
    target,     \* the fields of the VM manager that Target needs and that are set
    cancelled,  \* the root context is done
    expired,    \* the teardown's context is done
    wedged      \* the Stop being run will not return

vars == <<phase, at, live, vm, target, cancelled, expired, wedged>>

Resources == {"flakeDir", "runtimeDir", "leftovers", "qemu", "dyingQemu", "writer",
              "agent", "endpoint", "server", "ui"}

Fields == {"port", "signer"}

TypeOK ==
    /\ phase \in {"starting", "ready", "tearing", "exited"}
    /\ at \in 0 .. Len(Order)
    /\ live \subseteq Resources
    /\ vm \in {"off", "building", "dir", "keyed", "staged", "launched", "booted",
              "terminating", "removing", "clearing", "unaimed"}
    /\ target \subseteq Fields
    /\ cancelled \in BOOLEAN
    /\ expired \in BOOLEAN
    /\ wedged \in BOOLEAN

Init ==
    /\ phase = "starting"
    /\ at = 1
    /\ live = {}
    /\ vm = "off"
    /\ target = {}
    /\ cancelled = FALSE
    /\ expired = FALSE
    /\ wedged = FALSE

Now(p, m) == phase = p /\ at > 0 /\ Order[at] = m

-----------------------------------------------------------------------------
(* startManagers and run.                                                  *)

\* Variant of Started for mutation: the last manager is not told from the others.
StartedNext == phase' = phase /\ at' = at + 1

\* Start of the current manager has returned nil; after the last one run waits.
Started ==
    IF at = Len(Order) THEN phase' = "ready" /\ at' = at
                       ELSE phase' = phase /\ at' = at + 1

\* Start has returned an error: teardown begins with the manager before.
StartFailed == phase' = "tearing" /\ at' = at - 1

StartRegistry ==
    /\ Now("starting", "registry")
    /\ Started
    /\ UNCHANGED <<live, vm, target, cancelled, expired, wedged>>

\* SharePath, the first write and the loop; the write may fail.
StartWriter ==
    /\ Now("starting", "coauthor")
    /\ \/ Started /\ vm # "off" /\ live' = live \cup {"writer"}
       \/ StartFailed /\ live' = live
    /\ UNCHANGED <<vm, target, cancelled, expired, wedged>>

ConnectAgent ==
    /\ Now("starting", "tunnel")
    /\ "agent" \notin live
    /\ \/ ~cancelled /\ live' = live \cup {"agent"} /\ UNCHANGED <<phase, at>>
       \/ StartFailed /\ live' = live
    /\ UNCHANGED <<vm, target, cancelled, expired, wedged>>

\* Variant of OpenEndpoint for mutation: a failure leaves the agent connected.
OpenEndpointOrGiveUp ==
    /\ Now("starting", "tunnel")
    /\ "agent" \in live
    /\ \/ ~cancelled /\ Started /\ live' = live \cup {"endpoint"}
       \/ StartFailed /\ live' = live
    /\ UNCHANGED <<vm, target, cancelled, expired, wedged>>

OpenEndpoint ==
    /\ Now("starting", "tunnel")
    /\ "agent" \in live
    /\ \/ ~cancelled /\ Started /\ live' = live \cup {"endpoint"}
       \/ StartFailed /\ live' = live \ {"agent"}
    /\ UNCHANGED <<vm, target, cancelled, expired, wedged>>

\* Variant of StartFrontDoor for mutation: a bind failure leaves the server.
StartFrontDoorHalfway ==
    /\ Now("starting", "frontdoor")
    /\ Started \/ StartFailed
    /\ live' = live \cup {"server"}
    /\ UNCHANGED <<vm, target, cancelled, expired, wedged>>

\* A bind failure tears the server down again.
StartFrontDoor ==
    /\ Now("starting", "frontdoor")
    /\ \/ Started /\ live' = live \cup {"server"}
       \/ StartFailed /\ live' = live
    /\ UNCHANGED <<vm, target, cancelled, expired, wedged>>

StartControl ==
    /\ Now("starting", "control")
    /\ \/ Started /\ live' = live \cup {"ui"}
       \/ StartFailed /\ live' = live
    /\ UNCHANGED <<vm, target, cancelled, expired, wedged>>

BeginTeardown ==
    /\ phase = "ready"
    /\ cancelled
    /\ phase' = "tearing"
    /\ UNCHANGED <<at, live, vm, target, cancelled, expired, wedged>>

-----------------------------------------------------------------------------
(* The VM: Start and its deferred teardown.                                *)

\* extractSandboxFlake, unless a flake on the disk is named instead.
ExtractFlake ==
    /\ Now("starting", "vm")
    /\ vm = "off"
    /\ \/ vm' = "building" /\ live' \in {live, live \cup {"flakeDir"}} /\ UNCHANGED <<phase, at>>
       \/ StartFailed /\ UNCHANGED <<vm, live>>
    /\ UNCHANGED <<target, cancelled, expired, wedged>>

\* nix build, which the context ends, and MkdirTemp: the flake's copy is removed either
\* way.  Nobody else uses it, so its removal is taken to succeed.
BuildVM ==
    /\ vm = "building"
    /\ \/ /\ vm' = "dir"
          /\ live' = (live \ {"flakeDir"}) \cup {"runtimeDir"}
          /\ UNCHANGED <<phase, at>>
       \/ vm' = "off" /\ live' = live \ {"flakeDir"} /\ StartFailed
    /\ UNCHANGED <<target, cancelled, expired, wedged>>

\* The signer is set before the keys are written, which may fail.
GenerateKey ==
    /\ vm = "dir"
    /\ \/ vm' = "keyed" /\ target' = {"signer"}
       \/ vm' = "terminating" /\ target' \in {{}, {"signer"}}
    /\ UNCHANGED <<phase, at, live, cancelled, expired, wedged>>

\* stageGitIdentity, stageHelper, freeLoopbackPort.
StageShare ==
    /\ vm = "keyed"
    /\ \/ vm' = "staged" /\ target' = Fields
       \/ vm' = "terminating" /\ target' = target
    /\ UNCHANGED <<phase, at, live, cancelled, expired, wedged>>

\* QEMU starts with the port that was free a moment ago; it exits if it no longer is.
LaunchQemu ==
    /\ vm = "staged"
    /\ \/ vm' = "launched" /\ live' = live \cup {"qemu"}
       \/ vm' = "terminating" /\ live' = live
    /\ UNCHANGED <<phase, at, target, cancelled, expired, wedged>>

\* Variant of WaitForSSH for mutation: only the guest's sshd ends the wait.
WaitForSSHAlone ==
    /\ vm = "launched"
    /\ "qemu" \in live
    /\ vm' = "booted"
    /\ Started
    /\ UNCHANGED <<live, target, cancelled, expired, wedged>>

\* waitForSSH: the guest's sshd greets, or the context, bootTimeout or QEMU's exit
\* ends the wait.
WaitForSSH ==
    /\ vm = "launched"
    /\ \/ "qemu" \in live /\ vm' = "booted" /\ Started
       \/ vm' = "terminating" /\ UNCHANGED <<phase, at>>
    /\ UNCHANGED <<live, target, cancelled, expired, wedged>>

\* Variant of StopVM for mutation: the key is dropped before QEMU is stopped.
StopVMForgettingKey ==
    /\ Now("tearing", "vm")
    /\ vm = "booted"
    /\ vm' = "terminating"
    /\ target' = target \ {"signer"}
    /\ UNCHANGED <<phase, at, live, cancelled, expired, wedged>>

StopVM ==
    /\ Now("tearing", "vm")
    /\ vm = "booted"
    /\ vm' = "terminating"
    /\ UNCHANGED <<phase, at, live, target, cancelled, expired, wedged>>

\* SIGTERM and its outcome: QEMU exits, or killTimeout passes and it is sent
\* SIGKILL, which teardown does not wait for.
TerminateQemu ==
    /\ vm = "terminating"
    /\ vm' = "removing"
    /\ \/ live' = live \ {"qemu"}
       \/ "qemu" \in live /\ live' = (live \ {"qemu"}) \cup {"dyingQemu"}
    /\ UNCHANGED <<phase, at, target, cancelled, expired, wedged>>

\* os.RemoveAll may leave some of the directory, as when a QEMU still dying writes into
\* it.  Its error is dropped and the manager forgets the directory: nobody holds what is
\* left.
RemoveRuntimeDir ==
    /\ vm = "removing"
    /\ vm' = "clearing"
    /\ \/ live' = live \ {"runtimeDir"}
       \/ live' = (live \ {"runtimeDir"}) \cup {"leftovers"}
    /\ UNCHANGED <<phase, at, target, cancelled, expired, wedged>>

\* The target is invalidated, field by field.
ClearPort ==
    /\ vm = "clearing"
    /\ vm' = "unaimed"
    /\ target' = target \ {"port"}
    /\ UNCHANGED <<phase, at, live, cancelled, expired, wedged>>

ClearSigner ==
    /\ vm = "unaimed"
    /\ vm' = "off"
    /\ target' = target \ {"signer"}
    /\ phase' = "tearing"
    /\ at' = at - 1
    /\ UNCHANGED <<live, cancelled, expired, wedged>>

-----------------------------------------------------------------------------
(* teardown: each Stop in turn, errors ignored.                            *)

Stopped(m, held) ==
    /\ Now("tearing", m)
    /\ ~wedged
    /\ live' = live \ held
    /\ at' = at - 1
    /\ UNCHANGED <<phase, vm, target, cancelled, expired, wedged>>

StopControl == Stopped("control", {"ui"})
StopFrontDoor == Stopped("frontdoor", {"server"})
StopTunnel == Stopped("tunnel", {"endpoint", "agent"})
StopWriter == Stopped("coauthor", {"writer"})
StopRegistry == Stopped("registry", {})

\* A Stop waits for something that does not come: the program of the control plane,
\* the network, a write in progress.  None of them looks at the context it is given.
Wedge ==
    /\ phase = "tearing"
    /\ at > 0
    /\ Order[at] \in MayWedge
    /\ ~wedged
    /\ wedged' = TRUE
    /\ UNCHANGED <<phase, at, live, vm, target, cancelled, expired>>

\* shutdownTimeout passes, which is of interest when a Stop has wedged: the context
\* that every Stop was given is done.
Expire ==
    /\ wedged
    /\ ~expired
    /\ expired' = TRUE
    /\ UNCHANGED <<phase, at, live, vm, target, cancelled, wedged>>

Exit ==
    /\ phase = "tearing"
    /\ at = 0
    /\ phase' = "exited"
    /\ UNCHANGED <<at, live, vm, target, cancelled, expired, wedged>>

-----------------------------------------------------------------------------
(* The outside: a signal, the owner quitting or leaving; QEMU dying.       *)

Cancel ==
    /\ phase # "exited"
    /\ ~cancelled
    /\ cancelled' = TRUE
    /\ UNCHANGED <<phase, at, live, vm, target, expired, wedged>>

QemuDies ==
    /\ phase # "exited"
    /\ live \cap {"qemu", "dyingQemu"} # {}
    /\ live' = live \ {"qemu", "dyingQemu"}
    /\ UNCHANGED <<phase, at, vm, target, cancelled, expired, wedged>>

-----------------------------------------------------------------------------
StartVM ==
    \/ ExtractFlake \/ BuildVM \/ GenerateKey \/ StageShare \/ LaunchQemu \/ WaitForSSH
StartNext ==
    \/ StartRegistry \/ StartVM \/ StartWriter \/ ConnectAgent \/ OpenEndpoint
    \/ StartFrontDoor \/ StartControl
StopNext ==
    \/ StopControl \/ StopFrontDoor \/ StopTunnel \/ StopWriter
    \/ StopVM \/ TerminateQemu \/ RemoveRuntimeDir \/ ClearPort \/ ClearSigner
    \/ StopRegistry

Next ==
    \/ StartNext \/ BeginTeardown \/ StopNext \/ Exit
    \/ Wedge \/ Expire
    \/ Cancel \/ QemuDies

Spec == Init /\ [][Next]_vars

\* main's goroutine goes on whenever it can: every Start is bounded by a timeout or
\* the context, and every Stop that is not wedged returns.
FairSpec ==
    Spec /\ WF_vars(StartNext \/ BeginTeardown \/ StopNext \/ Exit) /\ WF_vars(Expire)

-----------------------------------------------------------------------------
(* Properties.                                                             *)

\* "A failed boot must leave nothing running or exposed", and neither does a
\* session that ends: whichever step of whichever Start fails and whenever the
\* signal comes, what the process held is released when it exits.  The code makes sure of
\* no more than that: a QEMU sent SIGKILL, which nothing waits for, may still be dying,
\* and what os.RemoveAll could not remove of a directory stays.
NothingLeftBehind ==
    phase = "exited" => live \subseteq {"dyingQemu", "leftovers"} /\ target = {}

\* A manager runs only over what it was started on top of, on the way up, on the way
\* down and when a boot fails half-way: the public endpoint and the LAN listener are
\* open only between the VM's boot and its teardown, the writer writes only while the
\* share is there, the owner's screen shows only a front door that listens.
RunsOverItsDependencies ==
    /\ "ui" \in live => "server" \in live
    /\ "server" \in live => "endpoint" \in live
    /\ "endpoint" \in live => "agent" \in live
    /\ live \cap {"writer", "agent", "server"} # {} =>
          vm = "booted" /\ target = Fields /\ "runtimeDir" \in live

\* A signal, or a failed start, at any moment leads to the end of the process, unless
\* a Stop wedges.
CancelLeadsToExit ==
    (cancelled \/ phase = "tearing") ~> (phase = "exited" \/ wedged)

\* Lines 25-28 and 141-143 of main.go: the deadline bounds teardown, so that a wedged
\* subsystem cannot hang the process for ever.
TeardownIsBounded == (phase = "tearing") ~> (phase = "exited")
=============================================================================
