-------------------------------- MODULE TOTP --------------------------------
(***************************************************************************)
(* totp.Protocol (src/lib/totp/totp.go): New fixes the time step;         *)
(* Generate and GenerateN derive one-time passwords from the clock;       *)
(* Verify accepts a token if it equals the password of one of the last    *)
(* stepsBack time steps.                                                   *)
(*                                                                         *)
(* The clock "now" (Unix seconds) is the state.  The HMAC and its dynamic *)
(* truncation are abstracted to an injective function of the time step:   *)
(* the token of time t is its step number.  Digit count and hash choice   *)
(* only change the token's text and are left out.                         *)
(***************************************************************************)
EXTENDS Integers

CONSTANTS
    TimeStepArgs,  \* timeStep arguments given to New
    StepsBackArgs, \* stepsBack arguments given to Verify
    NArgs,         \* n arguments given to GenerateN
    Epoch,         \* the clock when the model starts
    MaxTime        \* bound: seconds the clock advances

DefTimeStep == 30
DefStepsBack == 20

VARIABLES
    now,       \* time.Now().Unix()
    timeStep,  \* p.timeStep
    lastGen,   \* the last GenerateN call: [n, at, otps]
    lastVer    \* the last Verify call: [token, stepsBack, at, ok]

vars == <<now, timeStep, lastGen, lastVer>>

NoGen == [n |-> 0, at |-> Epoch, otps |-> {}]
NoVer == [token |-> -1, stepsBack |-> 0, at |-> Epoch, ok |-> FALSE]

\* New without the default for a non-positive timeStep.
NewTimeStepNoDefault(ts) == ts

(* New's normalisation of its timeStep argument.                           *)
NewTimeStep(ts) == IF ts <= 0 THEN DefTimeStep ELSE ts

(* generateWithTimestamp: int64(float64(time) / float64(timeStep)) rounds  *)
(* toward zero; every time reachable here is non-negative.                 *)
generateWithTimestamp(t) == t \div timeStep

ASSUME
    /\ TimeStepArgs \subseteq Int /\ StepsBackArgs \subseteq Int
    /\ NArgs \subseteq Nat
    /\ Epoch \in Nat /\ MaxTime \in Nat
    \* the clock is far from zero: every t the loops compute is positive
    /\ \A ts \in TimeStepArgs : Epoch >= (DefStepsBack + 2) * NewTimeStep(ts)

-----------------------------------------------------------------------------
(* Mutants: plausible bugs of the definitions below.                       *)

\* GenerateN with "x <= n": one password too many.
GenerateNInclusive(n) ==
    {generateWithTimestamp(now - x * timeStep) : x \in 0..n}

-----------------------------------------------------------------------------
(* Verify: stepsBack outside 1..DefStepsBack is replaced by DefStepsBack.  *)
ClampStepsBack(sb) ==
    IF sb <= 0 \/ sb > DefStepsBack THEN DefStepsBack ELSE sb

RECURSIVE VerifyLoop(_, _, _, _)
(* verifyWithTimestamp's loop from x on: t = ts - x*timeStep for          *)
(* x = 0 .. steps-1, true on the first password equal to the token.        *)
VerifyLoop(token, steps, ts, x) ==
    IF x >= steps THEN FALSE
    ELSE IF generateWithTimestamp(ts - x * timeStep) = token THEN TRUE
    ELSE VerifyLoop(token, steps, ts, x + 1)

verifyWithTimestamp(token, steps, ts) == VerifyLoop(token, steps, ts, 0)

(* GenerateN's loop: the passwords of t = now - x*timeStep, x = 0 .. n-1. *)
GenerateNOtps(n) ==
    {generateWithTimestamp(now - x * timeStep) : x \in 0..(n - 1)}

Init ==
    /\ now = Epoch
    /\ timeStep \in {NewTimeStep(ts) : ts \in TimeStepArgs}
    /\ lastGen = NoGen
    /\ lastVer = NoVer

(* The clock advances one second.                                          *)
Tick ==
    /\ now < Epoch + MaxTime
    /\ now' = now + 1
    /\ UNCHANGED <<timeStep, lastGen, lastVer>>

(* Generate: the password of the current time, recorded as a one-element *)
(* GenerateN result.                                                       *)
Generate ==
    /\ lastGen' = [n |-> 1, at |-> now, otps |-> {generateWithTimestamp(now)}]
    /\ UNCHANGED <<now, timeStep, lastVer>>

GenerateN(n) ==
    /\ lastGen' = [n |-> n, at |-> now, otps |-> GenerateNOtps(n)]
    /\ UNCHANGED <<now, timeStep, lastVer>>

(* Verify a password a prover generated up to DefStepsBack + 1 steps ago, *)
(* or one step ahead (a prover with a fast clock).                         *)
Verify(sb) ==
    /\ \E token \in (generateWithTimestamp(now) - DefStepsBack - 1)..(generateWithTimestamp(now) + 1) :
        lastVer' = [token |-> token, stepsBack |-> sb, at |-> now,
                    ok |-> verifyWithTimestamp(token, ClampStepsBack(sb), now)]
    /\ UNCHANGED <<now, timeStep, lastGen>>

Next ==
    \/ Tick
    \/ Generate
    \/ \E n \in NArgs : GenerateN(n)
    \/ \E sb \in StepsBackArgs : Verify(sb)

Spec == Init /\ [][Next]_vars

-----------------------------------------------------------------------------
TypeOK ==
    /\ now \in Epoch..(Epoch + MaxTime)
    /\ timeStep \in Nat \ {0}
    /\ lastGen.n \in NArgs \cup {0} /\ lastGen.otps \subseteq Nat
    /\ lastVer.ok \in BOOLEAN

(* Verify's comment (totp.go:116-121): with stepsBack = 2 and a 30 s step *)
(* the time range checked is now - 2*30 .. now, that is the current step   *)
(* and the stepsBack steps before it; stepsBack outside 1..DefStepsBack is *)
(* normalised as Verify does.  Every token in that range is accepted.      *)
VerifyAcceptsDocumentedWindow ==
    lastVer # NoVer =>
        LET age == generateWithTimestamp(lastVer.at) - lastVer.token
            sb  == IF lastVer.stepsBack \in 1..DefStepsBack
                   THEN lastVer.stepsBack ELSE DefStepsBack
        IN  0 <= age /\ age <= sb => lastVer.ok

(* Every password GenerateN(n) returns is accepted by Verify with          *)
(* stepsBack = n at the same instant, for n up to DefStepsBack.            *)
GeneratedAreVerified ==
    lastGen.n \in 1..DefStepsBack =>
        \A otp \in lastGen.otps :
            verifyWithTimestamp(otp, ClampStepsBack(lastGen.n), lastGen.at)

=============================================================================
