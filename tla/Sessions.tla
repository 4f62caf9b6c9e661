------------------------------ MODULE Sessions ------------------------------
(***************************************************************************)
(* Bridged connections over the life of the process: Lifecycle composed    *)
(* with the last part of every handler, from Target to its return          *)
(* (internal/frontdoor/frontdoor.go), and with bridge.Run and its helper   *)
(* goroutines (internal/bridge/bridge.go).  A handler runs on while main   *)
(* stops the managers: nothing waits for it.                               *)
(*                                                                         *)
(* External, as the code uses them: the client, which hangs up when it     *)
(* likes and may stop reading; the sandbox, which answers until it hangs   *)
(* or QEMU is gone; and the ssh library's own goroutine that feeds the     *)
(* sandbox's standard input.  Output and input are chunks that a copier    *)
(* holds or does not.                                                      *)
(***************************************************************************)
EXTENDS Lifecycle

CONSTANTS Conns, Nobody

ASSUME SessionsAssumption == Nobody \notin Conns

VARIABLES
    owner,      \* the connection that holds the owner slot, or Nobody
    run,        \* where each handler is
    aim,        \* the fields that Target has copied
    link,       \* the client's session as the server sees it
    channel,    \* the sandbox's side of the bridge
    helpers,    \* goroutines of Run: resizes, and the end of the connection
    output,     \* the copier from the sandbox to the client
    feeder,     \* the library's copier from the bridge's stdin
    pump,       \* a guest's pumpInput
    hung        \* the sandbox has stopped answering

sessionVars == <<owner, run, aim, link, channel, helpers, output, feeder, pump, hung>>
allVars == <<vars, sessionVars>>

SessionsTypeOK ==
    /\ owner \in Conns \cup {Nobody}
    /\ run \in [Conns -> {"absent", "called", "checked", "aimed", "dialing", "handshaking",
                          "opening", "starting", "waiting", "draining", "returned", "over"}]
    /\ aim \in [Conns -> SUBSET Fields]
    /\ link \in [Conns -> {"up", "shut", "gone"}]
    /\ channel \in [Conns -> {"none", "open", "closing", "closed"}]
    /\ helpers \in [Conns -> SUBSET {"resizer", "closer"}]
    /\ output \in [Conns -> {"none", "copying", "stuck", "ended"}]
    /\ feeder \in [Conns -> {"none", "reading", "writing", "done"}]
    /\ pump \in [Conns -> {"none", "reading", "writing", "done"}]
    /\ hung \in BOOLEAN

SessionsInit ==
    /\ Init
    /\ owner \in Conns \cup {Nobody}
    /\ run = [c \in Conns |-> "absent"]
    /\ aim = [c \in Conns |-> {}]
    /\ link = [c \in Conns |-> "up"]
    /\ channel = [c \in Conns |-> "none"]
    /\ helpers = [c \in Conns |-> {}]
    /\ output = [c \in Conns |-> "none"]
    /\ feeder = [c \in Conns |-> "none"]
    /\ pump = [c \in Conns |-> "none"]
    /\ hung = FALSE

\* A QEMU sent SIGKILL runs no more, but its sockets stay until it is dead.
Answers == "qemu" \in live /\ ~hung
Gone == live \cap {"qemu", "dyingQemu"} = {}

-----------------------------------------------------------------------------
(* From the handler to the dial.                                           *)

To(c, place) == run' = [run EXCEPT ![c] = place]

\* Variant of ComesToBridge for mutation: the pump still discards what the guest types.
ComesToBridgeDiscarding(c) ==
    /\ run[c] = "absent"
    /\ "server" \in live
    /\ To(c, "called")
    /\ pump' = IF c = owner THEN pump ELSE [pump EXCEPT ![c] = "discarding"]
    /\ UNCHANGED <<vars, owner, aim, link, channel, helpers, output, feeder, hung>>

\* The handler, the owner's or that of a guest who has just been accepted, comes to
\* resolveTarget.
ComesToBridge(c) ==
    /\ run[c] = "absent"
    /\ "server" \in live
    /\ To(c, "called")
    /\ pump' = IF c = owner THEN pump ELSE [pump EXCEPT ![c] = "reading"]
    /\ UNCHANGED <<vars, owner, aim, link, channel, helpers, output, feeder, hung>>

\* Target reads the two fields while teardown may be clearing them.
CheckTarget(c) ==
    /\ run[c] = "called"
    /\ To(c, IF target = Fields THEN "checked" ELSE "returned")
    /\ UNCHANGED <<vars, owner, aim, link, channel, helpers, output, feeder, pump, hung>>

Copies(c, field) == aim' = [aim EXCEPT ![c] = @ \cup ({field} \cap target)]

CopyPort(c) ==
    /\ run[c] = "checked"
    /\ To(c, "aimed")
    /\ Copies(c, "port")
    /\ UNCHANGED <<vars, owner, link, channel, helpers, output, feeder, pump, hung>>

CopySigner(c) ==
    /\ run[c] = "aimed"
    /\ To(c, "dialing")
    /\ Copies(c, "signer")
    /\ UNCHANGED <<vars, owner, link, channel, helpers, output, feeder, pump, hung>>

-----------------------------------------------------------------------------
(* Run, up to Wait.  Neither the dial nor the requests look at ctx.        *)

\* Variant of Dial for mutation: a dial that fails is tried again.
DialAgain(c) ==
    /\ run[c] = "dialing"
    /\ To(c, "handshaking")
    /\ "port" \in aim[c] /\ ~Gone
    /\ UNCHANGED <<vars, owner, aim, link, channel, helpers, output, feeder, pump, hung>>

\* QEMU's forward takes a connection whether the guest's sshd is up or not, and even
\* when QEMU is dying: its socket does.  Or a connection is refused or times out.
Dial(c) ==
    /\ run[c] = "dialing"
    /\ \/ To(c, "handshaking") /\ "port" \in aim[c] /\ ~Gone
       \/ To(c, "returned")
    /\ UNCHANGED <<vars, owner, aim, link, channel, helpers, output, feeder, pump, hung>>

\* A request to the sandbox fails when it is refused and when QEMU is gone.
Fails(c) ==
    /\ run[c] \in {"handshaking", "opening", "starting"}
    /\ Answers \/ Gone
    /\ To(c, "returned")
    /\ UNCHANGED <<vars, owner, aim, link, channel, helpers, output, feeder, pump, hung>>

Handshake(c) ==
    /\ run[c] = "handshaking"
    /\ Answers
    /\ To(c, "opening")
    /\ UNCHANGED <<vars, owner, aim, link, channel, helpers, output, feeder, pump, hung>>

\* NewSession and RequestPty; every connection has a PTY.
OpenSession(c) ==
    /\ run[c] = "opening"
    /\ Answers
    /\ To(c, "starting")
    /\ helpers' = [helpers EXCEPT ![c] = @ \cup {"resizer"}]
    /\ UNCHANGED <<vars, owner, aim, link, channel, output, feeder, pump, hung>>

\* Variant of StartAttach for mutation: stdin is not handed over.
StartAttachWithoutStdin(c) ==
    /\ run[c] = "starting"
    /\ Answers
    /\ To(c, "waiting")
    /\ channel' = [channel EXCEPT ![c] = "open"]
    /\ helpers' = [helpers EXCEPT ![c] = @ \cup {"closer"}]
    /\ output' = [output EXCEPT ![c] = "copying"]
    /\ UNCHANGED <<vars, owner, aim, link, feeder, pump, hung>>

StartAttach(c) ==
    /\ run[c] = "starting"
    /\ Answers
    /\ To(c, "waiting")
    /\ channel' = [channel EXCEPT ![c] = "open"]
    /\ helpers' = [helpers EXCEPT ![c] = @ \cup {"closer"}]
    /\ output' = [output EXCEPT ![c] = "copying"]
    /\ feeder' = [feeder EXCEPT ![c] = "reading"]
    /\ UNCHANGED <<vars, owner, aim, link, pump, hung>>

-----------------------------------------------------------------------------
(* Run from Wait on, with its helpers.                                     *)

\* Variant of CloserEnds for mutation: the end of the connection ends the helper and
\* does not close the session.
CloserJustEnds(c) ==
    /\ "closer" \in helpers[c]
    /\ link[c] = "gone" \/ run[c] \in {"returned", "over"}
    /\ channel' = channel
    /\ helpers' = [helpers EXCEPT ![c] = @ \ {"closer"}]
    /\ UNCHANGED <<vars, owner, run, aim, link, output, feeder, pump, hung>>

\* Variant of CloserEnds for mutation: done is not closed.
CloserEndsOnHangUp(c) ==
    /\ "closer" \in helpers[c]
    /\ link[c] = "gone" /\ run[c] \in {"waiting", "draining"}
    /\ channel' = [channel EXCEPT ![c] = IF @ = "open" THEN "closing" ELSE @]
    /\ helpers' = [helpers EXCEPT ![c] = @ \ {"closer"}]
    /\ UNCHANGED <<vars, owner, run, aim, link, output, feeder, pump, hung>>

\* The connection's context is done, or done is closed.
CloserEnds(c) ==
    /\ "closer" \in helpers[c]
    /\ link[c] = "gone" \/ run[c] \in {"returned", "over"}
    /\ channel' = [channel EXCEPT ![c] = IF @ = "open" THEN "closing" ELSE @]
    /\ helpers' = [helpers EXCEPT ![c] = @ \ {"closer"}]
    /\ UNCHANGED <<vars, owner, run, aim, link, output, feeder, pump, hung>>

\* done is closed, or the channel of window sizes.
ResizerEnds(c) ==
    /\ "resizer" \in helpers[c]
    /\ link[c] # "up" \/ run[c] \in {"returned", "over"}
    /\ helpers' = [helpers EXCEPT ![c] = @ \ {"resizer"}]
    /\ UNCHANGED <<vars, owner, run, aim, link, channel, output, feeder, pump, hung>>

\* The tmux client ends by itself or answers a close, or the transport breaks.
ChannelCloses(c) ==
    /\ channel[c] \in {"open", "closing"}
    /\ Answers \/ Gone
    /\ channel' = [channel EXCEPT ![c] = "closed"]
    /\ UNCHANGED <<vars, owner, run, aim, link, helpers, output, feeder, pump, hung>>

\* Wait has the exit status, or its absence, and closes the feeder's pipe.
WaitEnds(c) ==
    /\ run[c] = "waiting"
    /\ channel[c] = "closed"
    /\ To(c, "draining")
    /\ UNCHANGED <<vars, owner, aim, link, channel, helpers, output, feeder, pump, hung>>

\* The copier has written the last of the output, or a write has failed.
OutputEnds(c) ==
    /\ \/ output[c] = "copying" /\ (channel[c] = "closed" \/ link[c] # "up")
       \/ output[c] = "stuck" /\ link[c] # "up"
    /\ output' = [output EXCEPT ![c] = "ended"]
    /\ UNCHANGED <<vars, owner, run, aim, link, channel, helpers, feeder, pump, hung>>

\* Run has waited for its copiers: its deferred calls close done and the client.
RunReturns(c) ==
    /\ run[c] = "draining"
    /\ output[c] = "ended"
    /\ To(c, "returned")
    /\ UNCHANGED <<vars, owner, aim, link, channel, helpers, output, feeder, pump, hung>>

\* Variant of HandlerReturns for mutation: endSession is not called.
HandlerJustReturns(c) ==
    /\ run[c] = "returned"
    /\ To(c, "over")
    /\ link' = [link EXCEPT ![c] = IF @ = "up" THEN "shut" ELSE @]
    /\ cancelled' = cancelled
    /\ UNCHANGED <<phase, at, live, vm, target, expired, wedged, owner, aim,
                   channel, helpers, output, feeder, pump, hung>>

\* The owner's deferred endSession is the root context's cancel.  The server closes the
\* session behind every handler.
HandlerReturns(c) ==
    /\ run[c] = "returned"
    /\ To(c, "over")
    /\ link' = [link EXCEPT ![c] = IF @ = "up" THEN "shut" ELSE @]
    /\ cancelled' = (cancelled \/ c = owner)
    /\ UNCHANGED <<phase, at, live, vm, target, expired, wedged, owner, aim,
                   channel, helpers, output, feeder, pump, hung>>

-----------------------------------------------------------------------------
(* Input: a guest's pump hands its chunks to the feeder, which the library *)
(* starts with Run's Start; the owner's feeder reads the session.          *)

PumpReads(c) ==
    /\ pump[c] = "reading"
    /\ link[c] = "up"
    /\ pump' = [pump EXCEPT ![c] = "writing"]
    /\ UNCHANGED <<vars, owner, run, aim, link, channel, helpers, output, feeder, hung>>

PumpHandsOver(c) ==
    /\ pump[c] = "writing"
    /\ feeder[c] = "reading"
    /\ pump' = [pump EXCEPT ![c] = "reading"]
    /\ feeder' = [feeder EXCEPT ![c] = "writing"]
    /\ UNCHANGED <<vars, owner, run, aim, link, channel, helpers, output, hung>>

PumpEnds(c) ==
    /\ pump[c] = "reading"
    /\ link[c] # "up"
    /\ pump' = [pump EXCEPT ![c] = "done"]
    /\ UNCHANGED <<vars, owner, run, aim, link, channel, helpers, output, feeder, hung>>

FeederReads(c) ==
    /\ c = owner
    /\ feeder[c] = "reading"
    /\ link[c] = "up"
    /\ feeder' = [feeder EXCEPT ![c] = "writing"]
    /\ UNCHANGED <<vars, owner, run, aim, link, channel, helpers, output, pump, hung>>

FeederWrites(c) ==
    /\ feeder[c] = "writing"
    /\ channel[c] \in {"open", "closing"}
    /\ Answers
    /\ feeder' = [feeder EXCEPT ![c] = "reading"]
    /\ UNCHANGED <<vars, owner, run, aim, link, channel, helpers, output, pump, hung>>

\* Its pipe is closed under it, or its input ends.
FeederEnds(c) ==
    /\ \/ feeder[c] = "writing" /\ run[c] \in {"draining", "returned", "over"}
       \/ feeder[c] = "reading" /\ IF c = owner THEN link[c] # "up" ELSE pump[c] = "done"
    /\ feeder' = [feeder EXCEPT ![c] = "done"]
    /\ UNCHANGED <<vars, owner, run, aim, link, channel, helpers, output, pump, hung>>

-----------------------------------------------------------------------------
(* The client and the sandbox.                                             *)

\* A kick closes a guest's session and leaves its connection.
Kicked(c) ==
    /\ c # owner
    /\ run[c] \notin {"absent", "over"}
    /\ link[c] = "up"
    /\ link' = [link EXCEPT ![c] = "shut"]
    /\ UNCHANGED <<vars, owner, run, aim, channel, helpers, output, feeder, pump, hung>>

HangsUp(c) ==
    /\ run[c] # "absent"
    /\ link[c] # "gone"
    /\ link' = [link EXCEPT ![c] = "gone"]
    /\ UNCHANGED <<vars, owner, run, aim, channel, helpers, output, feeder, pump, hung>>

ClientStalls(c) ==
    /\ output[c] = "copying"
    /\ link[c] = "up"
    /\ output' = [output EXCEPT ![c] = "stuck"]
    /\ UNCHANGED <<vars, owner, run, aim, link, channel, helpers, feeder, pump, hung>>

ClientReadsOn(c) ==
    /\ output[c] = "stuck"
    /\ output' = [output EXCEPT ![c] = "copying"]
    /\ UNCHANGED <<vars, owner, run, aim, link, channel, helpers, feeder, pump, hung>>

SandboxHangs ==
    /\ "qemu" \in live
    /\ vm = "booted"
    /\ ~hung
    /\ hung' = TRUE
    /\ UNCHANGED <<vars, owner, run, aim, link, channel, helpers, output, feeder, pump>>

\* A step of main or of its surroundings: the front door's Stop closes every
\* connection.
HostNext ==
    /\ Next
    /\ link' = [c \in Conns |-> IF "server" \in live \ live' /\ run[c] # "absent"
                                THEN "gone" ELSE link[c]]
    /\ UNCHANGED <<owner, run, aim, channel, helpers, output, feeder, pump, hung>>

-----------------------------------------------------------------------------
Targets(c) == ComesToBridge(c) \/ CheckTarget(c) \/ CopyPort(c) \/ CopySigner(c)

Attaches(c) ==
    Dial(c) \/ Fails(c) \/ Handshake(c) \/ OpenSession(c) \/ StartAttach(c)

Waits(c) == WaitEnds(c) \/ RunReturns(c) \/ HandlerReturns(c)

Inputs(c) ==
    \/ PumpReads(c) \/ PumpHandsOver(c) \/ PumpEnds(c)
    \/ FeederReads(c) \/ FeederWrites(c) \/ FeederEnds(c)

Client(c) == Kicked(c) \/ HangsUp(c) \/ ClientStalls(c) \/ ClientReadsOn(c)

SessionNext(c) ==
    \/ Targets(c) \/ Attaches(c) \/ Waits(c)
    \/ CloserEnds(c) \/ ResizerEnds(c) \/ ChannelCloses(c) \/ OutputEnds(c)
    \/ Inputs(c) \/ Client(c)

SessionsNext ==
    \/ HostNext
    \/ phase # "exited" /\ ((\E c \in Conns : SessionNext(c)) \/ SandboxHangs)

SessionsSpec == SessionsInit /\ [][SessionsNext]_allVars

MainGoesOn == (StartNext \/ BeginTeardown \/ StopNext \/ Exit) /\ HostNext

\* What a connection's goroutines do a bounded number of times, and the sandbox's
\* answer to a close.
GoesOn(c) ==
    \/ CheckTarget(c) \/ CopyPort(c) \/ CopySigner(c) \/ Attaches(c) \/ Waits(c)
    \/ CloserEnds(c) \/ ResizerEnds(c)
    \/ ChannelCloses(c) /\ (channel[c] = "closing" \/ Gone)
    \/ OutputEnds(c) /\ (channel[c] = "closed" \/ output[c] = "stuck")

PumpGoesOn(c) == PumpHandsOver(c) \/ PumpEnds(c)
FeederGoesOn(c) == FeederWrites(c) \/ FeederEnds(c)

\* Every goroutine that can go on does, and a sandbox that has not hung answers.  What
\* the client does, or when tmux ends of itself, is nobody's obligation.
SessionFairness(c) ==
    /\ WF_allVars(phase # "exited" /\ GoesOn(c))
    /\ WF_allVars(phase # "exited" /\ PumpGoesOn(c))
    /\ WF_allVars(phase # "exited" /\ FeederGoesOn(c))

FairSessionsSpec ==
    /\ SessionsSpec
    /\ WF_allVars(MainGoesOn)
    /\ WF_allVars(Expire /\ HostNext)
    /\ \A c \in Conns : SessionFairness(c)

-----------------------------------------------------------------------------
(* Properties.                                                             *)

\* The handshake makes use of the key when a QEMU that is running answers.
Bridged(c) ==
    \/ run[c] = "handshaking" /\ "qemu" \in live
    \/ run[c] \in {"opening", "starting", "waiting"}

\* "Invalidate the target so a post-Stop bridge attempt fails cleanly": although
\* Target reads the fields as teardown clears them, a handler that gets through to the
\* sandbox has the whole of the target, because QEMU runs no more when the first of them
\* is cleared.  A dial with a key that is nil would panic in the handshake.
BridgedWithWholeTarget == \A c \in Conns : Bridged(c) => aim[c] = Fields

\* Run ends when the connection does, at whatever point of Run the client hangs up or
\* the front door closes the connection, unless the sandbox hangs.
BridgeEndsWithConnection ==
    \A c \in Conns :
        (run[c] # "absent" /\ link[c] = "gone") ~> (run[c] = "over" \/ hung \/ phase = "exited")

\* Run ends when QEMU does, also if the sandbox hung before and whatever it was waiting
\* for, unless the client does not read what is left of the output.
BridgeEndsWithSandbox ==
    \A c \in Conns :
        (run[c] # "absent" /\ Gone)
            ~> (run[c] = "over" \/ output[c] = "stuck" \/ phase = "exited")

\* Whatever Run returns from, an error half-way or the end of the session, no goroutine
\* of it stays: "done bounds the helper goroutines to Run's lifetime".
HelpersEndWithRun ==
    \A c \in Conns : (run[c] = "over") ~> (helpers[c] = {} \/ phase = "exited")

\* What a guest types reaches the sandbox, or the bridge comes to its end.  The pump itself
\* may stay for ever: a chunk that it reads when no bridge takes its input, before the
\* attach or after a dial that failed, is written to a pipe that nobody closes, although
\* line 358 of frontdoor.go has the pump return when the guest's input closes.
InputIsTaken ==
    \A c \in Conns :
        (run[c] = "waiting" /\ pump[c] = "writing")
            ~> (pump[c] # "writing" \/ run[c] # "waiting" \/ hung \/ phase = "exited")

\* The owner's hang-up ends the process, through the bridge, the root context and the
\* teardown, unless the sandbox hangs or a Stop wedges.
OwnerLeavingEndsProcess ==
    \A c \in Conns :
        (c = owner /\ run[c] # "absent" /\ link[c] = "gone")
            ~> (phase = "exited" \/ hung \/ wedged)
=============================================================================
