------------------------------ MODULE HidSession ------------------------------
(***************************************************************************)
(* The capture session of a browser tab with the HID reader                *)
(* (apps/web/lib/hid/session.ts) and the lock that gives the reader to one *)
(* tab at a time (locks.ts).  JavaScript runs one callback at a time: a    *)
(* step is what happens between two awaits, timers or events.  start, stop *)
(* and pause go on after an await whatever has been called meanwhile: the  *)
(* pages call stop and start without waiting for one another.              *)
(*                                                                         *)
(* armGeneration is seen through what it decides: whether the arming, the  *)
(* deliveries and the hold timer in flight are still current.  The result  *)
(* shown, granted or denied, is one state; FINGER_DETECTED is a hint over  *)
(* ACQUIRING and is left out, as is the silence watchdog, which only warns.*)
(* Which reader answers, and whether there is one, is left open.           *)
(***************************************************************************)
EXTENDS Naturals

CONSTANTS
    MaxConsecutiveErrors,   \* maxConsecutiveErrors
    MaxCalls,               \* bound on the start() calls that await the lock, and
                            \* on the stop() calls not ended
    MaxSamples              \* bound on the samples that await onSample

ASSUME HidSessionAssumption ==
    /\ MaxConsecutiveErrors \in Nat \ {0}
    /\ MaxCalls \in Nat \ {0}
    /\ MaxSamples \in Nat \ {0}

VARIABLES
    active,         \* start() has been called, and stop() not since
    mode,           \* options: none, continuous or manual
    state,          \* snapshot.state
    ownership,      \* snapshot.ownership
    lock,           \* the Web Lock: free, ours, or of another tab
    release,        \* this.release is set
    trying,         \* start() calls awaiting tryAcquire
    waiting,        \* lock.acquire() calls not granted yet
    stopping,       \* stop() calls awaiting stopAcquisition
    pausing,        \* pause() awaits it (one at a time)
    probing,        \* probeSampleFormats is under way
    arming,         \* the arming in flight: where it is, or none
    current,        \* its generation is the session's
    retry,          \* the retry timer is set
    unplugged,      \* recoveryReason is device-disconnected
    errors,         \* consecutiveErrors
    attached,       \* handlersAttached
    busy,           \* this.busy
    fresh,          \* deliveries awaiting onSample, of this generation
    stale,          \* ... of an earlier one
    hold,           \* the hold timer: none, fresh or stale
    waiter,         \* manualWaiter is set
    overtaken       \* history: what was overtaken by a later call

ownerVars == <<ownership, lock, release, trying, waiting>>
armVars == <<arming, current, retry, unplugged, errors, attached>>
sampleVars == <<busy, fresh, stale, hold, waiter>>
callVars == <<stopping, pausing, probing>>
hidVars == <<active, mode, state, ownerVars, armVars, sampleVars, callVars, overtaken>>

States ==
    {"DISCONNECTED", "CONNECTING", "READY", "ACQUIRING", "SAMPLE_RECEIVED", "IDENTIFYING",
     "RESULT", "RECOVERING", "PAUSED", "ERROR"}

HidInit ==
    /\ active = FALSE
    /\ mode = "none"
    /\ state = "DISCONNECTED"
    /\ ownership = "none"
    /\ lock \in {"free", "other"}
    /\ release = FALSE
    /\ trying = 0 /\ waiting = 0
    /\ stopping = 0 /\ pausing = FALSE /\ probing = FALSE
    /\ arming = "none" /\ current = FALSE
    /\ retry = FALSE /\ unplugged = FALSE /\ errors = 0
    /\ attached = FALSE
    /\ busy = FALSE /\ fresh = 0 /\ stale = 0 /\ hold = "none" /\ waiter = FALSE
    /\ overtaken = {}

-----------------------------------------------------------------------------
(* Pieces the handlers share.                                              *)

\* this.armGeneration += 1: what is in flight becomes outdated.  keepHold says
\* that the hold timer is not cleared with it.
Outdate(keepHold) ==
    /\ fresh' = 0
    /\ stale' = stale + fresh
    /\ hold' = IF keepHold /\ hold # "none" THEN "stale" ELSE "none"

\* One error more; errors above the maximum are not told apart.
OneMore(n) == IF n < MaxConsecutiveErrors THEN n + 1 ELSE n

\* Mutant: no timer for a reader that was unplugged.
RecoverWhenPlugged(n, usb) ==
    /\ errors' = OneMore(n)
    /\ unplugged' = usb
    /\ IF n + 1 >= MaxConsecutiveErrors
          THEN state' = "ERROR" /\ UNCHANGED retry
          ELSE state' = "RECOVERING" /\ retry' = ~usb

\* scheduleRecovery, with n errors so far: a timer, until there are too many.
Recover(n, usb) ==
    /\ errors' = OneMore(n)
    /\ unplugged' = usb
    /\ IF n + 1 >= MaxConsecutiveErrors
          THEN state' = "ERROR" /\ UNCHANGED retry
          ELSE state' = "RECOVERING" /\ retry' = TRUE

Overtake(what, when) == overtaken' = IF when THEN overtaken \cup {what} ELSE overtaken

\* arm(): joins the arming in flight, even an outdated one; otherwise, if the
\* session is active and owns the reader, a new generation begins.
JoinArming ==
    /\ arming # "none"
    /\ Overtake("arm", ~current)
    /\ UNCHANGED <<state, arming, current, unplugged, attached, fresh, stale, hold>>

ArmNothing ==
    /\ arming = "none"
    /\ UNCHANGED <<state, arming, current, unplugged, attached, fresh, stale, hold, overtaken>>

BeginArming ==
    /\ arming = "none"
    /\ Outdate(TRUE)
    /\ arming' = "enumerating"
    /\ current' = TRUE
    /\ state' = "CONNECTING"
    /\ attached' = TRUE
    /\ UNCHANGED <<unplugged, overtaken>>

\* Arm(own, n, timer): with this ownership, n errors so far, and the retry timer
\* set or not.
Arm(own, n, timer) ==
    \/ /\ JoinArming \/ (~(active /\ own = "owner") /\ ArmNothing)
       /\ errors' = n
       /\ retry' = timer
    \/ /\ active /\ own = "owner"
       /\ BeginArming
       /\ errors' = n
       /\ retry' = FALSE

\* The SDK is not there: the arming ends at once with a retry.
ArmWithoutSdk(own, n) ==
    /\ active /\ own = "owner"
    /\ arming = "none"
    /\ Outdate(TRUE)
    /\ errors' = OneMore(n)
    /\ unplugged' = FALSE
    /\ IF n + 1 >= MaxConsecutiveErrors
          THEN state' = "ERROR" /\ retry' = FALSE
          ELSE state' = "RECOVERING" /\ retry' = TRUE
    /\ UNCHANGED <<arming, current, attached, overtaken>>

TryToArm(own, n, timer) == Arm(own, n, timer) \/ ArmWithoutSdk(own, n)

-----------------------------------------------------------------------------
(* The lock of the reader.                                                 *)

\* start(): the session is active from here; then it awaits the lock.
Start(m) ==
    /\ ~active
    /\ trying + waiting < MaxCalls
    /\ active' = TRUE
    /\ mode' = m
    /\ errors' = 0
    /\ unplugged' = FALSE
    /\ trying' = trying + 1
    /\ overtaken' = overtaken \cup {e \in {"sample", "lock"} :
                                        \/ e = "sample" /\ fresh > 0
                                        \/ e = "lock" /\ trying + waiting > 0}
    /\ UNCHANGED <<state, ownership, lock, release, waiting, arming, current, retry, attached,
                   sampleVars, callVars>>

\* tryAcquire got the lock.  A session stopped meanwhile returns, and keeps it.
LockTaken ==
    /\ trying > 0
    /\ trying' = trying - 1
    /\ lock = "free" /\ lock' = "ours"
    /\ IF active
          THEN /\ release' = TRUE
               /\ ownership' = "owner"
               /\ TryToArm("owner", errors, retry)
          ELSE /\ Overtake("lock", TRUE)
               /\ UNCHANGED <<state, release, ownership, armVars, fresh, stale, hold>>
    /\ UNCHANGED <<active, mode, waiting, busy, waiter, callVars>>

\* Another tab, or an earlier call of this one, has it.
LockRefused ==
    /\ trying > 0
    /\ trying' = trying - 1
    /\ lock # "free"
    /\ IF active
          THEN /\ ownership' = "waiting"
               /\ state' = "PAUSED"
               /\ waiting' = waiting + 1
          ELSE UNCHANGED <<ownership, state, waiting>>
    /\ UNCHANGED <<active, mode, lock, release, armVars, sampleVars, callVars, overtaken>>

\* lock.acquire() is granted: a stopped session gives the lock back.
LockGranted ==
    /\ waiting > 0
    /\ waiting' = waiting - 1
    /\ lock = "free"
    /\ IF active
          THEN /\ lock' = "ours"
               /\ release' = TRUE
               /\ ownership' = "owner"
               /\ TryToArm("owner", errors, retry)
          ELSE UNCHANGED <<state, lock, release, ownership, armVars, fresh, stale, hold, overtaken>>
    /\ UNCHANGED <<active, mode, trying, busy, waiter, callVars>>

OtherTab ==
    /\ \/ lock = "free" /\ lock' = "other"
       \/ lock = "other" /\ lock' = "free"
    /\ UNCHANGED <<active, mode, state, ownership, release, trying, waiting, armVars, sampleVars,
                   callVars, overtaken>>

-----------------------------------------------------------------------------
(* Arming the reader: enumerate, device info, start.                       *)

ArmStages == {"enumerating", "identifying", "starting"}

\* An outdated arming returns at the first await that ends.
EndOutdated ==
    /\ ~current
    /\ arming' = "none"
    /\ UNCHANGED <<current, state, retry, unplugged, errors, attached>>

AdvanceArming ==
    /\ \/ /\ arming = "enumerating" /\ arming' = "identifying"
          /\ UNCHANGED <<state, current, errors, unplugged>>
       \/ /\ arming = "identifying" /\ arming' = "starting"
          /\ state' = "READY"
          /\ UNCHANGED <<current, errors, unplugged>>
       \/ /\ arming = "starting" /\ arming' = "none" /\ current' = FALSE
          /\ state' = "ACQUIRING"
          /\ errors' = 0
          /\ unplugged' = FALSE
    /\ UNCHANGED <<retry, attached>>

\* No reader, or the SDK cannot enumerate or start; it may fail to describe it.
FailArming ==
    /\ arming # "identifying"
    /\ arming' = "none"
    /\ current' = FALSE
    /\ IF active THEN Recover(errors, FALSE) ELSE UNCHANGED <<errors, unplugged, state, retry>>
    /\ UNCHANGED attached

ContinueArming ==
    /\ arming # "none"
    /\ EndOutdated \/ (current /\ (AdvanceArming \/ FailArming))
    /\ UNCHANGED <<active, mode, ownerVars, sampleVars, callVars, overtaken>>

\* The timer of a recovery.
RetryFires ==
    /\ retry
    /\ TryToArm(ownership, errors, FALSE)
    /\ UNCHANGED <<active, mode, ownerVars, busy, waiter, callVars>>

-----------------------------------------------------------------------------
(* Calls of the operator and of the pages.                                 *)

\* Mutant: the arming in flight is not outdated.
InterruptTimers ==
    /\ retry' = FALSE
    /\ UNCHANGED current
    /\ Outdate(FALSE)
    /\ waiter' = FALSE

\* What pause, stop and probe do before they await stopAcquisition.
Interrupt ==
    /\ retry' = FALSE
    /\ current' = FALSE
    /\ Outdate(FALSE)
    /\ waiter' = FALSE

Pause ==
    /\ active
    /\ ~pausing
    /\ Interrupt
    /\ pausing' = TRUE
    /\ Overtake("hold", hold # "none")
    /\ UNCHANGED <<active, mode, state, ownerVars, arming, unplugged, errors, attached, busy,
                   stopping, probing>>

EndPause ==
    /\ pausing
    /\ pausing' = FALSE
    /\ state' = "PAUSED"
    /\ UNCHANGED <<active, mode, ownerVars, armVars, sampleVars, stopping, probing, overtaken>>

Resume ==
    /\ active /\ state = "PAUSED" /\ ownership = "owner"
    /\ TryToArm(ownership, errors, retry)
    /\ UNCHANGED <<active, mode, ownerVars, busy, waiter, callVars>>

Retry ==
    /\ active
    /\ TryToArm(ownership, 0, retry)
    /\ UNCHANGED <<active, mode, ownerVars, busy, waiter, callVars>>

Stop ==
    /\ active
    /\ stopping < MaxCalls
    /\ active' = FALSE
    /\ Interrupt
    /\ stopping' = stopping + 1
    /\ UNCHANGED <<mode, state, ownerVars, arming, unplugged, errors, attached, busy,
                   pausing, probing, overtaken>>

\* Mutant: the lock is forgotten, not given back.
ForgetLock == release' = FALSE /\ UNCHANGED lock

\* this.release?.(); this.release = null.
GiveBackLock ==
    /\ lock' = IF release THEN "free" ELSE lock
    /\ release' = FALSE

\* The rest of stop(), whatever has been started meanwhile.
EndStop ==
    /\ stopping > 0
    /\ stopping' = stopping - 1
    /\ attached' = FALSE
    /\ GiveBackLock
    /\ mode' = "none"
    /\ busy' = FALSE
    /\ state' = "DISCONNECTED"
    /\ ownership' = "none"
    /\ unplugged' = FALSE
    /\ Overtake("stop", active)
    /\ UNCHANGED <<active, trying, waiting, arming, current, retry, errors, fresh, stale, hold,
                   waiter, pausing, probing>>

\* probeSampleFormats, and at its end the production format again.
Probe ==
    /\ active /\ ownership = "owner" /\ ~busy /\ attached /\ ~probing
    /\ Interrupt
    /\ probing' = TRUE
    /\ UNCHANGED <<active, mode, state, ownerVars, arming, unplugged, errors, attached, busy,
                   stopping, pausing, overtaken>>

EndProbe ==
    /\ probing
    /\ probing' = FALSE
    /\ IF active THEN TryToArm(ownership, errors, retry)
                 ELSE UNCHANGED <<state, armVars, fresh, stale, hold, overtaken>>
    /\ UNCHANGED <<active, mode, ownerVars, busy, waiter, stopping, pausing>>

\* Manual mode: wait for the next sample, answered by it or by a time out.
NextSample ==
    /\ active /\ mode = "manual" /\ ~waiter
    /\ waiter' = TRUE
    /\ UNCHANGED <<active, mode, state, ownerVars, armVars, busy, fresh, stale, hold, callVars,
                   overtaken>>

WaiterTimesOut ==
    /\ waiter
    /\ waiter' = FALSE
    /\ UNCHANGED <<active, mode, state, ownerVars, armVars, busy, fresh, stale, hold, callVars,
                   overtaken>>

-----------------------------------------------------------------------------
(* Events of the reader.  During a probe samples and errors are counted    *)
(* only, except while the first acquisition is being stopped.              *)

\* Mutant: only a pause drops samples.
DroppedInPause == state = "PAUSED"

\* A sample that arrives while one is processed, or in pause, is dropped.
Dropped == busy \/ state = "PAUSED"

\* onSamplesAcquired and the first part of deliver.
SampleArrives ==
    /\ attached
    /\ ~Dropped
    /\ fresh + stale < MaxSamples
    /\ \/ /\ mode = "manual" /\ waiter
          /\ waiter' = FALSE
          /\ state' = "ACQUIRING"
          /\ UNCHANGED <<busy, fresh>>
       \/ /\ mode = "continuous"
          /\ busy' = TRUE
          /\ fresh' = fresh + 1
          /\ state' = "IDENTIFYING"
          /\ UNCHANGED waiter
       \/ /\ mode = "none"
          /\ state' = "SAMPLE_RECEIVED"
          /\ UNCHANGED <<busy, fresh, waiter>>
    /\ UNCHANGED <<active, mode, ownerVars, armVars, stale, hold, callVars, overtaken>>

\* onSample answers (or throws): the result is shown for a while, or the reader
\* goes on at once after an error.
Outcome ==
    /\ active
    /\ fresh > 0
    /\ fresh' = fresh - 1
    /\ \/ /\ busy' = FALSE
          /\ state' = "ACQUIRING"
          /\ UNCHANGED hold
       \/ /\ state' = "RESULT"
          /\ hold' = "fresh"
          /\ UNCHANGED busy
    /\ UNCHANGED <<active, mode, ownerVars, armVars, stale, waiter, callVars, overtaken>>

\* Mutant: a late answer leaves busy as it is.
LateOutcomeIgnored ==
    /\ \/ stale > 0 /\ stale' = stale - 1 /\ UNCHANGED fresh
       \/ ~active /\ fresh > 0 /\ fresh' = fresh - 1 /\ UNCHANGED stale
    /\ UNCHANGED <<active, mode, state, ownerVars, armVars, busy, hold, waiter, callVars, overtaken>>

\* The answer of an earlier generation, or for a stopped session: only busy is
\* cleared, whoever set it.
LateOutcome ==
    /\ \/ stale > 0 /\ stale' = stale - 1 /\ UNCHANGED fresh
       \/ ~active /\ fresh > 0 /\ fresh' = fresh - 1 /\ UNCHANGED stale
    /\ busy' = FALSE
    /\ Overtake("busy", fresh' > 0)
    /\ UNCHANGED <<active, mode, state, ownerVars, armVars, hold, waiter, callVars>>

HoldFires ==
    /\ hold # "none"
    /\ hold' = "none"
    /\ busy' = FALSE
    /\ state' = IF active /\ hold = "fresh" /\ state = "RESULT" THEN "ACQUIRING" ELSE state
    /\ Overtake("busy", fresh > 0)
    /\ UNCHANGED <<active, mode, ownerVars, armVars, fresh, stale, waiter, callVars>>

\* onDeviceDisconnected; the errors so far are forgotten.
Unplug ==
    /\ attached /\ active /\ state # "PAUSED"
    /\ waiter' = FALSE
    /\ Outdate(FALSE)
    /\ current' = FALSE
    /\ busy' = FALSE
    /\ Recover(0, TRUE)
    /\ UNCHANGED <<active, mode, ownerVars, arming, attached, callVars, overtaken>>

\* onErrorOccurred and onCommunicationFailed.
Trouble ==
    /\ attached /\ active /\ state # "PAUSED"
    /\ waiter' = FALSE
    /\ Outdate(FALSE)
    /\ current' = FALSE
    /\ busy' = FALSE
    /\ Recover(errors, FALSE)
    /\ UNCHANGED <<active, mode, ownerVars, arming, attached, callVars, overtaken>>

\* onDeviceConnected: no need to wait for the timer.
Plug ==
    /\ attached /\ state = "RECOVERING" /\ unplugged
    /\ TryToArm(ownership, 0, FALSE)
    /\ UNCHANGED <<active, mode, ownerVars, busy, waiter, callVars>>

-----------------------------------------------------------------------------
HidNext ==
    \/ \E m \in {"continuous", "manual"} : Start(m)
    \/ LockTaken \/ LockRefused \/ LockGranted \/ OtherTab
    \/ ContinueArming \/ RetryFires
    \/ Pause \/ EndPause \/ Resume \/ Retry \/ Stop \/ EndStop \/ Probe \/ EndProbe
    \/ NextSample \/ WaiterTimesOut
    \/ SampleArrives \/ Outcome \/ LateOutcome \/ HoldFires
    \/ Unplug \/ Trouble \/ Plug

HidSpec == HidInit /\ [][HidNext]_hidVars

-----------------------------------------------------------------------------
(* Properties.                                                             *)

HidTypeOK ==
    /\ active \in BOOLEAN
    /\ mode \in {"none", "continuous", "manual"}
    /\ state \in States
    /\ ownership \in {"none", "waiting", "owner"}
    /\ lock \in {"free", "ours", "other"}
    /\ release \in BOOLEAN
    /\ trying \in Nat /\ waiting \in Nat
    /\ stopping \in Nat /\ pausing \in BOOLEAN /\ probing \in BOOLEAN
    /\ arming \in ArmStages \cup {"none"} /\ current \in BOOLEAN
    /\ retry \in BOOLEAN /\ unplugged \in BOOLEAN /\ errors \in 0..MaxConsecutiveErrors
    /\ attached \in BOOLEAN
    /\ busy \in BOOLEAN /\ fresh \in Nat /\ stale \in Nat
    /\ hold \in {"none", "fresh", "stale"}
    /\ waiter \in BOOLEAN
    /\ overtaken \subseteq {"lock", "arm", "stop", "sample", "hold", "busy"}

\* The tab uses the reader only while it has the lock, so that two tabs never
\* take each other's samples; unless the rest of a stop() ran over a session
\* started after it (release in stop).
CapturingHoldsReader ==
    overtaken \cap {"stop", "sample"} = {} =>
        (state \in {"CONNECTING", "READY", "ACQUIRING", "IDENTIFYING", "RESULT", "RECOVERING"}
            => lock = "ours" /\ release)

\* A session that has been stopped leaves the reader to the other tabs, once
\* its calls have ended; unless it was stopped while it awaited the lock.
StoppedFreesReader ==
    ~active /\ stopping = 0 /\ trying = 0 /\ "lock" \notin overtaken => lock # "ours"

\* The lock of the reader follows its use, one tab at a time and no longer.
LockFollowsUse == CapturingHoldsReader /\ StoppedFreesReader

\* No transient state lasts for ever: what will replace it is under way, an
\* arming, the retry timer, the answer to a sample, the hold timer, or the rest
\* of a stop, a pause or a probe; unless an arm() joined an arming that was
\* outdated (arming in arm), or the rest of a stop() ran over a new session.
TransientStatesEnd ==
    overtaken \cap {"arm", "stop", "lock"} = {} /\ stopping = 0 /\ ~pausing /\ ~probing =>
        /\ state \in {"CONNECTING", "READY"} => arming # "none"
        /\ state = "RECOVERING" => retry \/ arming # "none"
        /\ state = "IDENTIFYING" => fresh > 0 \/ arming # "none"
        /\ state = "RESULT" => hold # "none" \/ arming # "none"

\* busy says what it should: it is set while a sample is processed or its
\* result shown, one sample at a time, and samples are dropped for no other
\* reason, as the log of onSamplesAcquired has it; unless pause() cleared the hold
\* timer that would clear busy, or what was left of an earlier generation
\* cleared the busy of a later sample (deliver).
BusyMeansProcessing ==
    /\ busy /\ "hold" \notin overtaken => fresh + stale > 0 \/ hold # "none" \/ stopping > 0
    /\ fresh > 1 => overtaken \cap {"busy", "stop", "sample"} # {}

\* Whatever is awaited when, the session moves on and takes the next sample.
NothingIsStuck == TransientStatesEnd /\ BusyMeansProcessing
=============================================================================
