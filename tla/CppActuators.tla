---------------------------- MODULE CppActuators ----------------------------
(***************************************************************************)
(* The processes of the C++ server that control blocks instead of moving   *)
(* items: the reactor controllers, the plastic mixer, the redstone emitter *)
(* and conditional, the flux network.  Each cycle reads a value, computes  *)
(* outputs, and sends those that differ from what it remembers to have     *)
(* set; it remembers an output when the answer arrives.  One process is    *)
(* modelled, of any kind; values are whole numbers, fractions are percent. *)
(***************************************************************************)
EXTENDS Integers, Sequences, SequencesExt, FiniteSetsExt

CONSTANTS
    Kinds,              \* the kinds of process to check
    Values,             \* Values[k]: what there may be to read, as a sequence
    Lower, Upper,       \* ProcessReactorHysteresis
    KP, KI, KD,         \* ProcessReactorPID
    NeededLevel,        \* ProcessPlasticMixer, makeNeeded, ProcessReactor.cyaniteNeeded
    ValueFn,            \* FluxNetworkOutput.valueFn of each output, as a set of low levels
    Limit,              \* the predicate of the conditional process: level < Limit
    MaxChanges,         \* bound: how often the environment changes the value
    MaxLost             \* bound: how many answers are lost after the execution

VARIABLES
    kind,       \* the process
    value,      \* what there is to read: <<pv, cyanite>>, <<energy>>, <<level>> or what is stored
    seen,       \* the value the cycle uses
    phase,      \* of the cycle: idle, asked, seen, setting
    prev,       \* wasOn, prev, prevOut, prevValue: -1 at first
    out,        \* the outputs of this cycle
    sending,    \* the call of each output: no, sent, executed
    actual,     \* what each output is in the game
    pid,        \* isInit, prevE and accum
    changes, lost

controlVars == <<kind, value, seen, phase, prev, out, sending, actual, pid, changes, lost>>

Reactors == {"hysteresis", "proportional", "pid"}
FromStock == {"mixer", "emitter"}

\* What there is to read: how full a reactor is, in percent, and the cyanite that
\* is stored; what is stored of each plastic; or one number.
Readings(k) ==
    IF k \in Reactors THEN (0 .. 100) \X Nat
    ELSE IF k = "mixer" THEN {v \in Seq(Nat) : v # <<>> /\ Len(v) <= 100}
    ELSE {v \in Seq(Int) : Len(v) = 1}

\* Items on the ground are no more at first than the conditional process allows.
ASSUME ParametersAssumption ==
    /\ Kinds \subseteq Reactors \cup FromStock \cup {"flux", "conditional"}
    /\ \A k \in Kinds : Values[k] \subseteq Readings(k)
    /\ {KP, KI, KD, NeededLevel, Limit} \subseteq Int /\ {MaxChanges, MaxLost} \subseteq Nat
    /\ "conditional" \in Kinds => \A v \in Values["conditional"] : v[1] <= Limit

Outputs == IF kind = "flux" THEN DOMAIN ValueFn ELSE {1}

ControlTypeOK ==
    /\ phase \in {"idle", "asked", "seen", "setting"}
    /\ pid.accum \in -100 .. 100
    /\ \A o \in Outputs :
        /\ sending[o] \in {"no", "sent", "executed"}
        /\ {prev[o], out[o], actual[o]} \subseteq -1 .. 100
    /\ changes \in 0 .. MaxChanges /\ lost \in 0 .. MaxLost

ControlInit ==
    /\ kind \in Kinds /\ value \in Values[kind] /\ seen = value /\ phase = "idle"
    /\ prev = [o \in Outputs |-> -1] /\ out = prev /\ actual = prev
    /\ sending = [o \in Outputs |-> "no"]
    /\ pid = [isInit |-> 1, prevE |-> 0, accum |-> 0]
    /\ changes = 0 /\ lost = 0
-----------------------------------------------------------------------------
(***************************************************************************)
(* The outputs computed from what was read.                                *)
(***************************************************************************)
Clamp(x, low, high) == Min({high, Max({low, x})})

\* With little cyanite stored a reactor reads 0 and asks nobody.
Asks == kind \notin Reactors \/ value[2] >= NeededLevel

\* Between the bounds, and when it is right already, nothing is sent.
Hysteresis(pv) == IF pv > Upper THEN 0 ELSE IF pv < Lower THEN 1 ELSE prev[1]

\* The least plastic is made, the first of the least; 0 is off.
Mixer(avails) ==
    LET least == CHOOSE n \in DOMAIN avails : \A m \in DOMAIN avails :
                    avails[n] < avails[m] \/ (avails[n] = avails[m] /\ n <= m)
    IN IF avails[least] >= NeededLevel THEN 0 ELSE least

NowE(pv) == (50 - pv) * 2

Accumulated(x, ts, e) == Clamp(x.accum + ts * e * KI, -100, 100)

\* The state of the PID controller ts seconds after the cycle before.
PID(x, ts, e) ==
    IF x.isInit = 1 THEN [isInit |-> 0, prevE |-> e, accum |-> x.accum]
    ELSE [isInit |-> 0, prevE |-> e, accum |-> Accumulated(x, ts, e)]
PIDOut(x, ts, e) ==
    LET diff == IF x.isInit = 1 THEN 0 ELSE (e - x.prevE) \div ts
    IN Clamp(50 - (e * KP + PID(x, ts, e).accum + diff * KD), 0, 100)

Wanted(o, v, ts) ==
    CASE kind = "hysteresis" -> Hysteresis(v[1])
      [] kind = "proportional" -> v[1]
      [] kind = "pid" -> PIDOut(pid, ts, NowE(v[1]))
      [] kind = "mixer" -> Mixer(v)
      [] kind = "emitter" -> IF v[1] < NeededLevel THEN 15 ELSE 0
      [] kind = "flux" -> IF v[1] \in ValueFn[o] THEN 15 ELSE 0
      [] kind = "conditional" -> IF v[1] < Limit THEN 1 ELSE prev[1]
-----------------------------------------------------------------------------
\* A value from the storages is known at once, others are asked for.
Cycle ==
    /\ phase = "idle"
    /\ phase' = IF kind \in FromStock \/ ~Asks THEN "seen" ELSE "asked"
    /\ seen' = IF Asks THEN value ELSE <<0, value[2]>>
    /\ UNCHANGED <<kind, value, prev, out, sending, actual, pid, changes, lost>>

\* The computer reads the value.
Sense ==
    /\ phase = "asked"
    /\ phase' = "seen" /\ seen' = value
    /\ UNCHANGED <<kind, value, prev, out, sending, actual, pid, changes, lost>>

\* The request fails, or the answer is not a number: so does the cycle.
SenseFails ==
    /\ phase = "asked"
    /\ phase' = "idle"
    /\ UNCHANGED <<kind, value, seen, prev, out, sending, actual, pid, changes, lost>>

ToBeSent(o, x) == x # prev[o]

\* The continuation of the answer.
Decide(ts) ==
    /\ phase = "seen"
    /\ phase' = "setting"
    /\ out' = [o \in Outputs |-> Wanted(o, seen, ts)]
    /\ sending' = [o \in Outputs |-> IF ToBeSent(o, out'[o]) THEN "sent" ELSE "no"]
    /\ pid' = IF kind = "pid" THEN PID(pid, ts, NowE(seen[1])) ELSE pid
    /\ UNCHANGED <<kind, value, seen, prev, actual, changes, lost>>

\* A computer sets an output.  The child of the conditional process drops an
\* item, which the next cycle finds on the ground.
SetOutput(o) ==
    /\ sending[o] = "sent"
    /\ sending' = [sending EXCEPT ![o] = "executed"]
    /\ actual' = [actual EXCEPT ![o] = out[o]]
    /\ value' = IF kind = "conditional" THEN <<value[1] + 1>> ELSE value
    /\ UNCHANGED <<kind, seen, phase, prev, out, pid, changes, lost>>

\* Mutant of Remembered: what was sent is remembered, executed or not.
RememberedSent(o, done) == IF kind = "conditional" THEN -1 ELSE out[o]

\* A process remembers what was answered; a conditional one nothing.
Remembered(o, done) == IF done /\ kind # "conditional" THEN out[o] ELSE prev[o]

SettingEnds(o, done) ==
    /\ sending' = [sending EXCEPT ![o] = "no"]
    /\ prev' = [prev EXCEPT ![o] = Remembered(o, done)]
    /\ UNCHANGED <<kind, value, seen, phase, out, actual, pid, changes>>

Answered(o) == sending[o] = "executed" /\ SettingEnds(o, TRUE) /\ UNCHANGED lost
SetFails(o) == sending[o] = "sent" /\ SettingEnds(o, FALSE) /\ UNCHANGED lost

\* The computer has set the output, but its answer never arrives.
AnswerLost(o) ==
    /\ sending[o] = "executed" /\ lost < MaxLost
    /\ lost' = lost + 1
    /\ SettingEnds(o, FALSE)

Finished == \A o \in Outputs : sending[o] = "no"

CycleEnds ==
    /\ phase = "setting" /\ Finished
    /\ phase' = "idle" /\ seen' = value
    /\ UNCHANGED <<kind, value, prev, out, sending, actual, pid, changes, lost>>

\* The environment: reactors, energy and stocks change, the mixer makes what
\* it is set to, items on the ground are used up.
Change ==
    /\ changes < MaxChanges
    /\ changes' = changes + 1
    /\ value' \in Values[kind] \ {value}
    /\ kind = "conditional" => value'[1] < value[1]
    /\ UNCHANGED <<kind, seen, phase, prev, out, sending, actual, pid, lost>>

Mix ==
    /\ kind = "mixer" /\ actual[1] > 0 /\ value[actual[1]] < NeededLevel + 1
    /\ value' = [value EXCEPT ![actual[1]] = @ + 1]
    /\ UNCHANGED <<kind, seen, phase, prev, out, sending, actual, pid, changes, lost>>

ControlNext ==
    \/ Cycle \/ Sense \/ SenseFails \/ CycleEnds \/ Change \/ Mix
    \/ \E ts \in {1, 2} : Decide(ts)
    \/ \E o \in Outputs : SetOutput(o) \/ Answered(o) \/ SetFails(o) \/ AnswerLost(o)

ControlSpec == ControlInit /\ [][ControlNext]_controlVars

\* Cycles follow each other; requests are answered or time out, and not every
\* request fails.
ControlFairSpec ==
    /\ ControlSpec
    /\ WF_controlVars(Cycle) /\ SF_controlVars(Sense) /\ WF_controlVars(\E ts \in {1, 2} : Decide(ts)) /\ WF_controlVars(CycleEnds)
    /\ WF_controlVars(Mix)
    /\ \A o \in 1 .. Len(ValueFn) : SF_controlVars(o \in Outputs /\ SetOutput(o)) /\ WF_controlVars(o \in Outputs /\ Answered(o))
-----------------------------------------------------------------------------
\* As long as no answer was lost, what a process remembers to have set is what
\* the game has: otherwise it would not send the value that is missing.
OutputsRemembered ==
    lost = 0 => \A o \in Outputs : sending[o] = "no" /\ prev[o] # -1 => prev[o] = actual[o]

\* A reactor is switched only after its value has crossed the whole band: from
\* what it was switched at below Lower to above Upper or back.
CrossesBand ==
    kind = "hysteresis" /\ actual'[1] # actual[1] =>
        /\ actual'[1] = 0 => seen[1] > Upper
        /\ actual'[1] = 1 => seen[1] < Lower
NoChatter == [][CrossesBand]_controlVars

\* "to prevent dropping excessive inputs": no more is on the ground than the
\* predicate allows, although level and drop are different calls.
NoExcess == kind = "conditional" => value[1] <= Limit

\* Both, and all outputs stay within their ranges.
RemembersWhatIs == ControlTypeOK /\ OutputsRemembered /\ NoExcess

\* Nothing is sent that the game has already, while no answers are lost.
SendsNews ==
    lost = 0 =>
        \A o \in Outputs : kind # "conditional" /\ sending[o] = "no" /\ sending'[o] = "sent" =>
            out'[o] # actual[o]
NoRepetition == [][SendsNews]_controlVars

\* Where the outputs should end when the value stays as it is.
Reached(o) ==
    LET pv == IF Asks THEN value[1] ELSE 0 IN
    CASE kind = "hysteresis" -> (pv > Upper => actual[o] = 0) /\ (pv < Lower => actual[o] = 1)
      [] kind = "pid" -> (pv > 50 => actual[o] = 100) /\ (pv < 50 => actual[o] = 0)
      [] kind = "proportional" -> actual[o] = pv
      [] kind = "mixer" -> actual[o] = 0 /\ \A n \in DOMAIN value : value[n] >= NeededLevel
      [] kind = "emitter" -> (actual[o] = 15) = (value[1] < NeededLevel)
      [] kind = "flux" -> (actual[o] = 15) = (value[1] \in ValueFn[o])
      [] kind = "conditional" -> value[1] >= Limit

\* The controlled block ends where its input says: a reactor without cyanite at
\* the maximum, the mixer with enough of every plastic, a signal on while items
\* lack.
Follows == \A o \in Outputs : Reached(o)
\* The code does not keep this when an answer is lost and the input goes back.
FollowsInput == <>[]Follows
=============================================================================
