---------------------------- MODULE LoraLink_proofs ----------------------------
(***************************************************************************)
(* What the AT dialogue of LoraLink guarantees, for any number of steps and *)
(* any networks.  Replies are anonymous, so the argument is about what can  *)
(* still be on the wire: an undisturbed configuration has at most the       *)
(* command of its current step there, and every earlier one was executed.   *)
(***************************************************************************)
EXTENDS LoraLink, TLAPS

\* No configuration command is left among q.
NoConfig(q) == \A i \in 1..Len(q) : q[i].op # "cfg"

\* Only the command of the step can be answered, and the earlier ones were executed.
OwnCommand ==
  /\ pending /\ ~sending
  /\ asked \in {<<>>, <<Config(step, selected)>>}
  /\ \A p \in Params : p < step => held[p] = selected

Configuring == undisturbed /\ step # 0 => OwnCommand

Ready ==
  undisturbed /\ configured =>
    /\ \A p \in Params : held[p] = selected
    /\ NoConfig(asked)

Attempts == step # 0 => retries <= MaxRetries

LinkInv == TypeOK /\ Attempts /\ ConfiguringIsNotReady /\ Configuring /\ Ready

-----------------------------------------------------------------------------
(* The commands and the queue of them. *)

LEMMA ConfigType ==
  ASSUME NEW i \in 0..LastStep, NEW n \in Networks
  PROVE  Config(i, n) \in Command /\ Config(i, n).op = "cfg"
         /\ Config(i, n).step = i /\ Config(i, n).net = n
  BY DEF Config, Command

LEMMA OtherType ==
  ASSUME NEW op \in {"at", "psend"}
  PROVE  Other(op) \in Command /\ Other(op).op = op
<1>1. (CHOOSE n \in Networks : TRUE) \in Networks
  BY LinkAssumption
<1> QED BY <1>1, LinkAssumption DEF Other, Command

LEMMA QueueType ==
  ASSUME NEW q \in Seq(Command), NEW c \in Command
  PROVE  /\ Append(q, c) \in Seq(Command)
         /\ q # <<>> => Head(q) \in Command /\ Tail(q) \in Seq(Command)
  OBVIOUS

\* What leaves and enters the queue keeps it free of configuration commands.
LEMMA AppendNoConfig ==
  ASSUME NEW q \in Seq(Command), NoConfig(q), NEW c \in Command, c.op # "cfg"
  PROVE  NoConfig(Append(q, c))
  BY DEF NoConfig

LEMMA TailNoConfig ==
  ASSUME NEW q \in Seq(Command), NoConfig(q), q # <<>>
  PROVE  NoConfig(Tail(q)) /\ Head(q).op # "cfg"
<1>1. \A i \in 1..Len(Tail(q)) : Tail(q)[i] = q[i + 1] /\ i + 1 \in 1..Len(q)
  OBVIOUS
<1>2. Head(q) = q[1] /\ 1 \in 1..Len(q)
  OBVIOUS
<1> QED BY <1>1, <1>2 DEF NoConfig

LEMMA EmptyNoConfig == NoConfig(<<>>)
  BY DEF NoConfig

LEMMA Singleton ==
  ASSUME NEW c
  PROVE  <<c>> # <<>> /\ Head(<<c>>) = c /\ Tail(<<c>>) = <<>> /\ Append(<<>>, c) = <<c>>
  OBVIOUS

-----------------------------------------------------------------------------
(* The pieces the actions share. *)

LEMMA SendStepType ==
  ASSUME NEW i \in 1..LastStep, NEW q \in Seq(Command), SendStep(i, q), selected' \in Networks
  PROVE  /\ step' = i /\ step' \in 0..LastStep /\ pending' = TRUE
         /\ asked' \in Seq(Command)
         /\ q = <<>> => asked' = <<Config(step', selected')>>
<1>1. Config(i, selected') \in Command
  <2>1. i \in 0..LastStep
    BY LinkAssumption
  <2> QED BY <2>1, ConfigType
<1>2. asked' \in Seq(Command)
  BY <1>1, QueueType DEF SendStep
<1>3. step' = i /\ step' \in 0..LastStep /\ pending' = TRUE
  BY LinkAssumption DEF SendStep
<1>4. q = <<>> => asked' = <<Config(step', selected')>>
  BY Singleton DEF SendStep
<1> QED BY <1>2, <1>3, <1>4

\* An accepted begin leaves the invariant whatever the rest of the state was.
LEMMA BeginInv ==
  ASSUME NEW q \in Seq(Command), Begin(q),
         selected' \in Networks, txPending' \in BOOLEAN,
         held' \in [Params -> Networks], sending' \in BOOLEAN
  PROVE  LinkInv'
<1>0. 1 \in 1..LastStep /\ SendStep(1, q)
  BY LinkAssumption DEF Begin
<1>1. TypeOK'
  <2>1. step' \in 0..LastStep /\ pending' \in BOOLEAN /\ asked' \in Seq(Command)
    BY <1>0, SendStepType
  <2>2. retries' \in 0..(MaxRetries + 1)
    BY DEF Begin, MaxRetries
  <2>3. probing' \in BOOLEAN /\ configured' \in BOOLEAN /\ undisturbed' \in BOOLEAN
    BY DEF Begin
  <2> QED BY <2>1, <2>2, <2>3 DEF TypeOK
<1>2. ConfiguringIsNotReady' /\ Ready'
  BY DEF Begin, ConfiguringIsNotReady, Ready
<1>3. Configuring'
  <2> SUFFICES ASSUME undisturbed' PROVE OwnCommand'
    BY DEF Configuring
  <2>1. q = <<>> /\ ~sending'
    BY DEF Begin
  <2>2. pending' /\ step' = 1 /\ asked' = <<Config(step', selected')>>
    BY <1>0, <2>1, SendStepType
  <2>3. \A p \in Params : ~(p < step')
    BY <2>2, LinkAssumption
  <2> QED BY <2>1, <2>2, <2>3 DEF OwnCommand
<1>4. Attempts'
  BY DEF Begin, Attempts, MaxRetries
<1> QED BY <1>1, <1>2, <1>3, <1>4 DEF LinkInv

\* A begin that is refused, or accepted behind what is on the wire.
LEMMA RequestInv ==
  ASSUME LinkInv, beginLoraP2pConfiguration, selected' \in Networks,
         UNCHANGED <<txPending, module>>
  PROVE  LinkInv'
<1> USE DEF LinkInv, module
<1>1. CASE Busy
  <2>0. UNCHANGED <<step, retries, pending, probing, configured, asked, txPending, held, sending>>
        /\ undisturbed' \in BOOLEAN /\ (undisturbed' => undisturbed /\ selected' = selected)
    BY <1>1 DEF beginLoraP2pConfiguration, firmware
  <2>1. TypeOK'
    BY <2>0 DEF TypeOK
  <2>2. ConfiguringIsNotReady' /\ Attempts'
    BY <2>0 DEF ConfiguringIsNotReady, Attempts
  <2>3. Configuring' /\ Ready'
    <3>1. CASE undisturbed'
      <4>1. Configuring'
        BY <2>0, <3>1 DEF Configuring, OwnCommand
      <4>2. Ready'
        BY <2>0, <3>1 DEF Ready, NoConfig
      <4> QED BY <4>1, <4>2
    <3>2. CASE ~undisturbed'
      BY <3>2 DEF Configuring, Ready
    <3> QED BY <3>1, <3>2
  <2> QED BY <2>1, <2>2, <2>3
<1>2. CASE ~Busy
  <2>1. Begin(asked)
    BY <1>2 DEF beginLoraP2pConfiguration
  <2> QED BY <2>1, BeginInv DEF TypeOK
<1> QED BY <1>1, <1>2

\* A command that configures nothing is sent while no configuration runs, or disturbs it.
LEMMA OtherInv ==
  ASSUME LinkInv, NEW op \in {"at", "psend"}, asked' = Append(asked, Other(op)),
         undisturbed' => undisturbed /\ step = 0,
         UNCHANGED <<step, retries, configured, selected, module>>,
         pending' \in BOOLEAN, probing' \in BOOLEAN, txPending' \in BOOLEAN,
         undisturbed' \in BOOLEAN
  PROVE  LinkInv'
<1> USE DEF LinkInv, module
<1>0. Other(op) \in Command /\ Other(op).op # "cfg"
  BY OtherType
<1>1. TypeOK'
  BY <1>0, QueueType DEF TypeOK
<1>2. ConfiguringIsNotReady' /\ Attempts'
  BY DEF ConfiguringIsNotReady, Attempts
<1>3. Configuring'
  BY DEF Configuring
<1>4. Ready'
  <2> SUFFICES ASSUME undisturbed', configured'
               PROVE  (\A p \in Params : held'[p] = selected') /\ NoConfig(asked')
    BY DEF Ready, NoConfig
  <2>1. NoConfig(asked) /\ asked \in Seq(Command) /\ \A p \in Params : held[p] = selected
    BY DEF Ready, TypeOK
  <2>2. NoConfig(asked')
    BY <2>1, <1>0, AppendNoConfig
  <2> QED BY <2>1, <2>2
<1> QED BY <1>1, <1>2, <1>3, <1>4

\* What the module makes of a command.
LEMMA ExecutesType ==
  ASSUME TypeOK, NEW c \in Command, Executes(c)
  PROVE  held' \in [Params -> Networks] /\ sending' \in BOOLEAN
<1>1. c.net \in Networks
  BY DEF Command
<1>2. held' \in [Params -> Networks]
  BY <1>1 DEF Executes, TypeOK
<1>3. sending' \in BOOLEAN
  BY DEF Executes
<1> QED BY <1>2, <1>3

\* The answer to the command of the step completes the settings up to this step.
LEMMA OwnAnswer ==
  ASSUME LinkInv, undisturbed, step # 0, asked # <<>>, Executes(Head(asked)),
         UNCHANGED selected
  PROVE  /\ Tail(asked) = <<>> /\ ~sending'
         /\ \A p \in Params : p <= step => held'[p] = selected'
<1> DEFINE c == Config(step, selected)
<1>1. OwnCommand
  BY DEF LinkInv, Configuring
<1>2. Head(asked) = c /\ Tail(asked) = <<>>
  BY <1>1, Singleton DEF OwnCommand
<1>3. c.op = "cfg" /\ c.step = step /\ c.net = selected
  BY DEF Config
<1> HIDE DEF c
<1>4. ~sending'
  BY <1>1, <1>2, <1>3 DEF Executes, OwnCommand
<1>5. held' = IF step \in Params THEN [held EXCEPT ![step] = selected] ELSE held
  BY <1>2, <1>3 DEF Executes
<1>6. ASSUME NEW p \in Params, p <= step PROVE held'[p] = selected'
  <2>1. held \in [Params -> Networks] /\ step \in Nat /\ p \in Nat
    BY LinkAssumption DEF LinkInv, TypeOK
  <2>2. CASE p = step
    BY <1>5, <2>1, <2>2
  <2>3. CASE p # step
    <3>1. held[p] = selected
      BY <1>1, <1>6, <2>1, <2>3 DEF OwnCommand
    <3>2. held'[p] = held[p]
      BY <1>5, <2>1, <2>3
    <3> QED BY <3>1, <3>2
  <2> QED BY <2>2, <2>3
<1> QED BY <1>2, <1>4, <1>6

LEMMA HandleOkInv ==
  ASSUME LinkInv, asked # <<>>, Executes(Head(asked)), HandleOk(Tail(asked)),
         UNCHANGED <<selected, txPending>>
  PROVE  LinkInv'
<1> DEFINE q == Tail(asked)
<1>0. /\ TypeOK /\ ConfiguringIsNotReady /\ q \in Seq(Command) /\ Head(asked) \in Command
      /\ selected' \in Networks /\ txPending' \in BOOLEAN
  BY QueueType DEF LinkInv, TypeOK
<1>1. held' \in [Params -> Networks] /\ sending' \in BOOLEAN
  BY <1>0, ExecutesType
<1>2. CASE step # 0 /\ step < LastStep /\ SendStep(step + 1, q) /\ probing' = FALSE
           /\ retries' = 0 /\ UNCHANGED <<configured, undisturbed>>
  <2>1. step + 1 \in 1..LastStep
    BY <1>0, <1>2, LinkAssumption DEF TypeOK
  <2> HIDE DEF q
  <2>2. /\ step' = step + 1 /\ step' \in 0..LastStep /\ pending' = TRUE
        /\ asked' \in Seq(Command) /\ (q = <<>> => asked' = <<Config(step', selected')>>)
    BY <2>1, <1>0, <1>2, SendStepType
  <2>3. TypeOK'
    <3>1. retries' \in 0..(MaxRetries + 1)
      BY <1>2 DEF MaxRetries
    <3> QED BY <1>0, <1>1, <1>2, <2>2, <3>1 DEF TypeOK
  <2>4. ~configured'
    BY <1>0, <1>2 DEF ConfiguringIsNotReady
  <2>5. ConfiguringIsNotReady' /\ Ready' /\ Attempts'
    BY <2>4, <1>2 DEF ConfiguringIsNotReady, Ready, Attempts, MaxRetries
  <2>6. ASSUME undisturbed PROVE OwnCommand'
    <3>1. q = <<>> /\ ~sending' /\ \A p \in Params : p <= step => held'[p] = selected'
      BY <1>2, <2>6, OwnAnswer DEF q
    <3>2. \A p \in Params : p < step' => held'[p] = selected'
      BY <3>1, <2>2, <1>0, LinkAssumption DEF TypeOK
    <3> QED BY <3>1, <3>2, <2>2 DEF OwnCommand
  <2>7. Configuring'
    BY <2>6, <1>2 DEF Configuring
  <2> QED BY <2>3, <2>5, <2>7 DEF LinkInv
<1>3. CASE step = LastStep /\ step' = 0 /\ configured' = TRUE /\ pending' = FALSE /\ asked' = q
           /\ probing' = FALSE /\ retries' = 0 /\ UNCHANGED undisturbed
  <2>1. TypeOK'
    <3>1. retries' \in 0..(MaxRetries + 1) /\ step' \in 0..LastStep
      BY <1>3, LinkAssumption DEF MaxRetries
    <3> HIDE DEF q
    <3> QED BY <1>0, <1>1, <1>3, <3>1 DEF TypeOK
  <2>2. ConfiguringIsNotReady' /\ Configuring' /\ Attempts'
    BY <1>3 DEF ConfiguringIsNotReady, Configuring, Attempts
  <2>3. ASSUME undisturbed
        PROVE  (\A p \in Params : held'[p] = selected') /\ NoConfig(asked')
    <3>1. step # 0 /\ \A p \in Params : p <= step
      BY <1>3, LinkAssumption
    <3>2. q = <<>> /\ \A p \in Params : held'[p] = selected'
      BY <2>3, <3>1, OwnAnswer
    <3>3. NoConfig(asked')
      BY <1>3, <3>2, EmptyNoConfig
    <3> QED BY <3>2, <3>3
  <2>4. Ready'
    BY <2>3, <1>3 DEF Ready, NoConfig
  <2> QED BY <2>1, <2>2, <2>4 DEF LinkInv
<1>4. CASE step = 0 /\ pending' = FALSE /\ asked' = q /\ probing' = FALSE /\ retries' = 0
           /\ UNCHANGED <<step, configured, undisturbed>>
  <2>1. TypeOK'
    <3>1. retries' \in 0..(MaxRetries + 1)
      BY <1>4 DEF MaxRetries
    <3> HIDE DEF q
    <3> QED BY <1>0, <1>1, <1>4, <3>1 DEF TypeOK
  <2>2. ConfiguringIsNotReady' /\ Configuring' /\ Attempts'
    BY <1>4 DEF ConfiguringIsNotReady, Configuring, Attempts
  <2>3. ASSUME undisturbed, configured
        PROVE  (\A p \in Params : held'[p] = selected') /\ NoConfig(asked')
    <3>1. NoConfig(asked) /\ \A p \in Params : held[p] = selected
      BY <2>3 DEF LinkInv, Ready
    <3>2. NoConfig(q) /\ Head(asked).op # "cfg"
      BY <3>1, <1>0, TailNoConfig DEF TypeOK
    <3>3. held' = held
      BY <3>2 DEF Executes
    <3> QED BY <1>4, <3>1, <3>2, <3>3
  <2>4. Ready'
    BY <2>3, <1>4 DEF Ready, NoConfig
  <2> QED BY <2>1, <2>2, <2>4 DEF LinkInv
<1>5. CASE step = 0 /\ ~configured /\ Begin(q)
  <2> HIDE DEF q
  <2> QED BY <1>0, <1>1, <1>5, BeginInv
<1> QED BY <1>2, <1>3, <1>4, <1>5 DEF HandleOk

LEMMA HandleErrorInv ==
  ASSUME LinkInv, asked # <<>>, Refuses(Head(asked)), HandleError(Tail(asked)),
         UNCHANGED <<selected, txPending>>
  PROVE  LinkInv'
<1> DEFINE q == Tail(asked)
<1>0. /\ TypeOK /\ ConfiguringIsNotReady /\ q \in Seq(Command)
      /\ UNCHANGED <<probing, configured, undisturbed, selected, txPending, held, sending>>
      /\ Head(asked).op # "at"
  BY QueueType DEF LinkInv, TypeOK, HandleError, Refuses, module
<1>1. ASSUME undisturbed, step # 0 PROVE q = <<>> /\ OwnCommand
  <2>1. OwnCommand
    BY <1>1 DEF LinkInv, Configuring
  <2>2. asked = <<Config(step, selected)>>
    BY <2>1 DEF OwnCommand
  <2> QED BY <2>1, <2>2, Singleton
<1>2. retries' \in 0..(MaxRetries + 1)
  <2>1. retries \in 0..(MaxRetries + 1) /\ (step # 0 => retries <= MaxRetries)
    BY <1>0 DEF TypeOK, LinkInv, Attempts
  <2>2. retries' = IF step # 0 THEN retries + 1 ELSE retries
    BY DEF HandleError
  <2> QED BY <2>1, <2>2 DEF MaxRetries
<1> HIDE DEF q
<1>3. CASE step # 0 /\ retries < MaxRetries
  <2>1. step \in 1..LastStep /\ SendStep(step, q)
    BY <1>0, <1>3, LinkAssumption DEF TypeOK, HandleError, q
  <2>2. /\ step' = step /\ step' \in 0..LastStep /\ pending' = TRUE /\ asked' \in Seq(Command)
        /\ (q = <<>> => asked' = <<Config(step', selected')>>)
    BY <2>1, <1>0, SendStepType DEF TypeOK
  <2>3. TypeOK'
    BY <1>0, <1>2, <2>2 DEF TypeOK
  <2>4. ConfiguringIsNotReady' /\ Ready'
    BY <1>0, <1>3 DEF ConfiguringIsNotReady, Ready
  <2>6. Attempts'
    <3>1. retries' = retries + 1 /\ retries \in 0..(MaxRetries + 1)
      BY <1>0, <1>3 DEF HandleError, TypeOK
    <3> QED BY <3>1, <1>3 DEF Attempts, MaxRetries
  <2>5. Configuring'
    <3> SUFFICES ASSUME undisturbed' PROVE OwnCommand'
      BY DEF Configuring
    <3>1. q = <<>> /\ OwnCommand
      BY <1>0, <1>1, <1>3
    <3> QED BY <3>1, <1>0, <2>2 DEF OwnCommand
  <2> QED BY <2>3, <2>4, <2>5, <2>6 DEF LinkInv
<1>4. CASE ~(step # 0 /\ retries < MaxRetries)
  <2>1. pending' = FALSE /\ asked' = q /\ step' = (IF configured THEN step ELSE 0)
    BY <1>4 DEF HandleError, q
  <2>2. step' = 0
    BY <1>0, <2>1 DEF ConfiguringIsNotReady
  <2>3. TypeOK'
    <3>1. step' \in 0..LastStep
      BY <2>2, LinkAssumption
    <3>2. pending' \in BOOLEAN /\ asked' \in Seq(Command)
      BY <2>1, <1>0
    <3> QED BY <1>0, <1>2, <3>1, <3>2 DEF TypeOK
  <2>4. ConfiguringIsNotReady' /\ Configuring' /\ Attempts'
    BY <2>2 DEF ConfiguringIsNotReady, Configuring, Attempts
  <2>5. Ready'
    <3>1. ASSUME undisturbed, configured
          PROVE  (\A p \in Params : held'[p] = selected') /\ NoConfig(asked')
      <4>1. NoConfig(asked) /\ \A p \in Params : held[p] = selected
        BY <3>1 DEF LinkInv, Ready
      <4>2. NoConfig(q)
        BY <4>1, <1>0, TailNoConfig DEF TypeOK, q
      <4> QED BY <4>1, <4>2, <2>1, <1>0
    <3> QED BY <3>1, <1>0 DEF Ready, NoConfig
  <2> QED BY <2>3, <2>4, <2>5 DEF LinkInv
<1> QED BY <1>3, <1>4

\* Steps that leave the wire and the module alone and change the firmware's flags.
LEMMA TimeoutInv == LinkInv /\ CommandTimeout => LinkInv'
<1> SUFFICES ASSUME LinkInv, CommandTimeout PROVE LinkInv'
  OBVIOUS
<1>0. /\ TypeOK /\ ConfiguringIsNotReady /\ Busy
      /\ UNCHANGED <<probing, configured, selected, txPending, held, sending>>
      /\ retries' = retries + 1
      /\ undisturbed' \in BOOLEAN /\ (undisturbed' => undisturbed /\ asked = <<>>)
  BY DEF LinkInv, CommandTimeout, module
<1>1. ~configured'
  BY <1>0 DEF ConfiguringIsNotReady, Busy
<1>2. ConfiguringIsNotReady' /\ Ready'
  BY <1>1 DEF ConfiguringIsNotReady, Ready
<1>3. retries \in 0..MaxRetries
  BY <1>0 DEF LinkInv, Attempts, TypeOK, Busy, MaxRetries
<1>4. retries' \in 0..(MaxRetries + 1)
  BY <1>0, <1>3 DEF MaxRetries
<1>5. CASE retries < MaxRetries
  <2>1. step \in 1..LastStep /\ SendStep(step, asked) /\ asked \in Seq(Command)
    BY <1>0, <1>5, LinkAssumption DEF TypeOK, CommandTimeout, Busy
  <2>2. /\ step' = step /\ step' \in 0..LastStep /\ pending' = TRUE /\ asked' \in Seq(Command)
        /\ (asked = <<>> => asked' = <<Config(step', selected')>>)
    BY <2>1, <1>0, SendStepType DEF TypeOK
  <2>3. TypeOK'
    BY <1>0, <1>4, <2>2 DEF TypeOK
  <2>4. Attempts'
    BY <1>0, <1>3, <1>5 DEF Attempts, MaxRetries
  <2>5. Configuring'
    <3> SUFFICES ASSUME undisturbed' PROVE OwnCommand'
      BY DEF Configuring
    <3>1. asked = <<>> /\ OwnCommand
      BY <1>0 DEF LinkInv, Configuring, Busy
    <3> QED BY <3>1, <1>0, <2>2 DEF OwnCommand
  <2> QED BY <1>2, <2>3, <2>4, <2>5 DEF LinkInv
<1>6. CASE ~(retries < MaxRetries)
  <2>1. step' = 0 /\ pending' = FALSE /\ asked' = asked
    BY <1>6 DEF CommandTimeout
  <2>2. TypeOK'
    <3>1. step' \in 0..LastStep
      BY <2>1, LinkAssumption
    <3>2. pending' \in BOOLEAN /\ asked' \in Seq(Command)
      BY <2>1, <1>0 DEF TypeOK
    <3> QED BY <1>0, <1>4, <3>1, <3>2 DEF TypeOK
  <2>3. Configuring' /\ Attempts'
    BY <2>1 DEF Configuring, Attempts
  <2> QED BY <1>2, <2>2, <2>3 DEF LinkInv
<1> QED BY <1>5, <1>6

-----------------------------------------------------------------------------
(* The invariant and its theorems. *)

LEMMA InitInv == Init => LinkInv
<1> SUFFICES ASSUME Init PROVE LinkInv
  OBVIOUS
<1>0. 1 \in 0..LastStep /\ Config(1, selected) \in Command
  BY LinkAssumption, ConfigType DEF Init
<1>1. TypeOK
  <2>1. step \in 0..LastStep /\ retries \in 0..(MaxRetries + 1)
    BY <1>0 DEF Init, MaxRetries
  <2>2. asked \in Seq(Command)
    BY <1>0 DEF Init
  <2>3. /\ pending \in BOOLEAN /\ probing \in BOOLEAN /\ configured \in BOOLEAN
        /\ txPending \in BOOLEAN /\ sending \in BOOLEAN /\ undisturbed \in BOOLEAN
    BY Zenon DEF Init
  <2>4. selected \in Networks /\ held \in [Params -> Networks]
    BY DEF Init
  <2> QED BY <2>1, <2>2, <2>3, <2>4 DEF TypeOK
<1>2. Attempts /\ ConfiguringIsNotReady /\ Ready
  BY DEF Init, Attempts, MaxRetries, ConfiguringIsNotReady, Ready
<1>3. \A p \in Params : ~(p < step)
  BY LinkAssumption DEF Init
<1>4. undisturbed => ~sending
  BY DEF Init
<1>5. pending /\ asked \in {<<>>, <<Config(step, selected)>>}
  BY DEF Init
<1>6. Configuring
  BY <1>3, <1>4, <1>5 DEF Configuring, OwnCommand
<1> QED BY <1>1, <1>2, <1>6 DEF LinkInv

\* Steps that send nothing and leave the dialogue where it is.
LEMMA IdleInv ==
  ASSUME LinkInv, UNCHANGED <<firmware, asked, module>>,
         selected' \in Networks, txPending' \in BOOLEAN, undisturbed' \in BOOLEAN,
         undisturbed' => undisturbed /\ selected' = selected
  PROVE  LinkInv'
<1> USE DEF LinkInv, firmware, module
<1>1. TypeOK' /\ Attempts' /\ ConfiguringIsNotReady'
  BY DEF TypeOK, Attempts, ConfiguringIsNotReady
<1>2. CASE undisturbed'
  <2>1. Configuring'
    BY <1>2 DEF Configuring, OwnCommand
  <2>2. Ready'
    BY <1>2 DEF Ready, NoConfig
  <2> QED BY <1>1, <2>1, <2>2
<1>3. CASE ~undisturbed'
  BY <1>1, <1>3 DEF Configuring, Ready
<1> QED BY <1>2, <1>3

LEMMA LoopInv == LinkInv /\ Loop => LinkInv'
<1> SUFFICES ASSUME LinkInv, Loop PROVE LinkInv'
  OBVIOUS
<1>0. TypeOK /\ asked \in Seq(Command) /\ selected \in Networks
  BY DEF LinkInv, TypeOK
<1>1. CASE CommandTimeout
  BY <1>1, TimeoutInv
<1>2. CASE sendLoraAtProbe
  <2>1. /\ asked' = Append(asked, Other("at")) /\ step = 0
        /\ UNCHANGED <<firmware, selected, txPending, module, undisturbed>>
    BY <1>2 DEF sendLoraAtProbe
  <2> QED BY <2>1, <1>0, OtherInv DEF TypeOK, firmware
<1>3. CASE SerialProbe
  <2>1. /\ asked' = Append(asked, Other("at")) /\ probing' = TRUE
        /\ undisturbed' \in BOOLEAN /\ (undisturbed' => undisturbed /\ step = 0)
        /\ UNCHANGED <<step, retries, pending, configured, selected, txPending, module>>
    BY <1>3 DEF SerialProbe
  <2> QED BY <2>1, <1>0, OtherInv DEF TypeOK
<1>4. CASE initLoraPortA
  <2>1. TypeOK'
    <3>1. step' \in 0..LastStep /\ retries' \in 0..(MaxRetries + 1)
      BY <1>4, LinkAssumption DEF initLoraPortA, MaxRetries
    <3> QED BY <3>1, <1>0, <1>4 DEF TypeOK, initLoraPortA, module
  <2> QED BY <2>1, <1>4
      DEF initLoraPortA, LinkInv, Attempts, ConfiguringIsNotReady, Configuring, Ready
<1>5. CASE Browse
  <2>1. /\ UNCHANGED <<firmware, txPending, asked, module>> /\ selected' \in Networks
        /\ undisturbed' \in BOOLEAN /\ (undisturbed' => undisturbed /\ selected' = selected)
    BY <1>5 DEF Browse
  <2> QED BY <2>1, <1>0, IdleInv DEF TypeOK
<1>6. CASE ApplyNetwork
  BY <1>6, RequestInv DEF ApplyNetwork
<1>7. CASE ensureLoraP2pConfigured
  BY <1>7, <1>0, BeginInv DEF ensureLoraP2pConfigured, TypeOK, module
<1>8. CASE sendLoraTextMessage
  <2>1. UNCHANGED <<selected, txPending, module>>
    BY <1>8 DEF sendLoraTextMessage
  <2>2. CASE beginLoraP2pConfiguration
    BY <2>1, <2>2, <1>0, RequestInv
  <2>3. CASE configured /\ pending' = TRUE /\ asked' = Append(asked, Other("psend"))
             /\ UNCHANGED <<step, retries, probing, configured, undisturbed>>
    <3>1. step = 0
      BY <2>3 DEF LinkInv, ConfiguringIsNotReady
    <3> QED BY <3>1, <2>1, <2>3, <1>0, OtherInv DEF TypeOK
  <2> QED BY <1>8, <2>2, <2>3 DEF sendLoraTextMessage
<1>9. CASE startSendRaw
  <2>1. /\ asked' = Append(asked, Other("psend")) /\ txPending' = TRUE /\ configured
        /\ UNCHANGED <<firmware, selected, module, undisturbed>>
    BY <1>9 DEF startSendRaw
  <2>2. step = 0
    BY <2>1 DEF LinkInv, ConfiguringIsNotReady
  <2> QED BY <2>1, <2>2, <1>0, OtherInv DEF TypeOK, firmware
<1>10. CASE onSendFinished
  <2>1. txPending' = FALSE /\ UNCHANGED <<firmware, selected, asked, module, undisturbed>>
    BY <1>10 DEF onSendFinished
  <2> QED BY <2>1, <1>0, IdleInv DEF TypeOK
<1> QED
  BY <1>1, <1>2, <1>3, <1>4, <1>5, <1>6, <1>7, <1>8, <1>9, <1>10 DEF Loop

LEMMA LineInv == LinkInv /\ Line => LinkInv'
<1> SUFFICES ASSUME LinkInv, Line PROVE LinkInv'
  OBVIOUS
<1>0. TypeOK /\ asked \in Seq(Command)
  BY DEF LinkInv, TypeOK
<1>1. CASE ReadAnswer
  BY <1>1, HandleOkInv, HandleErrorInv DEF ReadAnswer
<1>2. CASE LoseLine
  <2>0. /\ asked # <<>> /\ asked' = Tail(asked)
        /\ UNCHANGED <<firmware, selected, txPending, undisturbed>>
        /\ Executes(Head(asked)) \/ UNCHANGED module
    BY <1>2 DEF LoseLine
  <2>1. Tail(asked) \in Seq(Command) /\ Head(asked) \in Command
    BY <2>0, <1>0, QueueType
  <2>2. held' \in [Params -> Networks] /\ sending' \in BOOLEAN
    BY <2>0, <2>1, <1>0, ExecutesType DEF TypeOK, module
  <2>3. TypeOK'
    BY <2>0, <2>1, <2>2, <1>0 DEF TypeOK, firmware
  <2>4. Attempts' /\ ConfiguringIsNotReady'
    BY <2>0 DEF LinkInv, Attempts, ConfiguringIsNotReady, firmware
  <2>5. Configuring'
    <3>1. ASSUME undisturbed, step # 0 PROVE OwnCommand'
      <4>1. OwnCommand
        BY <3>1 DEF LinkInv, Configuring
      <4>2. Tail(asked) = <<>>
        BY <4>1, <2>0, Singleton DEF OwnCommand
      <4>3. ~sending' /\ \A p \in Params : p < step => held'[p] = selected
        <5>1. CASE UNCHANGED module
          BY <5>1, <4>1 DEF OwnCommand, module
        <5>2. CASE Executes(Head(asked))
          <6>1. ~sending' /\ \A p \in Params : p <= step => held'[p] = selected'
            BY <3>1, <2>0, <5>2, OwnAnswer
          <6>2. \A p \in Params : p < step => p <= step
            BY <1>0, LinkAssumption DEF TypeOK
          <6> QED BY <6>1, <6>2, <2>0
        <5> QED BY <2>0, <5>1, <5>2
      <4> QED BY <4>1, <4>2, <4>3, <2>0 DEF OwnCommand, firmware
    <3> QED BY <3>1, <2>0 DEF Configuring, firmware
  <2>6. Ready'
    <3>1. ASSUME undisturbed, configured
          PROVE  (\A p \in Params : held'[p] = selected') /\ NoConfig(asked')
      <4>1. NoConfig(asked) /\ \A p \in Params : held[p] = selected
        BY <3>1 DEF LinkInv, Ready
      <4>2. NoConfig(Tail(asked)) /\ Head(asked).op # "cfg"
        BY <4>1, <2>0, <1>0, TailNoConfig
      <4>3. held' = held
        BY <4>2, <2>0 DEF Executes, module
      <4> QED BY <4>1, <4>2, <4>3, <2>0
    <3> QED BY <3>1, <2>0 DEF Ready, NoConfig, firmware
  <2> QED BY <2>3, <2>4, <2>5, <2>6 DEF LinkInv
<1>3. CASE TransmissionEnds
  <2>0. /\ sending /\ sending' = FALSE
        /\ UNCHANGED <<step, retries, probing, configured, selected, txPending, asked, held,
                       undisturbed>>
    BY <1>3 DEF TransmissionEnds
  <2>1. pending' \in BOOLEAN
    BY <1>0, <1>3 DEF TransmissionEnds, TypeOK
  <2>2. TypeOK'
    BY <2>0, <2>1, <1>0 DEF TypeOK
  <2>3. Attempts' /\ ConfiguringIsNotReady' /\ Ready'
    BY <2>0 DEF LinkInv, Attempts, ConfiguringIsNotReady, Ready, NoConfig
  <2>4. Configuring'
    BY <2>0 DEF LinkInv, Configuring, OwnCommand
  <2> QED BY <2>2, <2>3, <2>4 DEF LinkInv
<1> QED BY <1>1, <1>2, <1>3 DEF Line

LEMMA NextInv == LinkInv /\ [Next]_vars => LinkInv'
<1> SUFFICES ASSUME LinkInv, [Next]_vars PROVE LinkInv'
  OBVIOUS
<1>1. CASE Next
  BY <1>1, LoopInv, LineInv DEF Next
<1>2. CASE UNCHANGED vars
  <2>1. UNCHANGED <<firmware, asked, module, selected, txPending, undisturbed>>
    BY <1>2 DEF vars
  <2> QED BY <2>1, IdleInv DEF LinkInv, TypeOK
<1> QED BY <1>1, <1>2

\* The inductive invariant holds in every reachable state, whatever pollLoraPortA reads,
\* loses or is refused.
THEOREM Invariance == Spec => []LinkInv
  BY InitInv, NextInv, PTL DEF Spec

\* Step and retry counters, the wire and the module only ever hold legal values; the
\* number of retries of a step is never more than one past the limit, whatever the module answers.
THEOREM TypeCorrect == Spec => []TypeOK
<1>1. LinkInv => TypeOK
  BY DEF LinkInv
<1> QED BY <1>1, Invariance, PTL

\* The mesh never uses a radio that is being configured (startSendRaw looks at
\* loraP2pConfigured only).
THEOREM NoTrafficWhileConfiguring == Spec => []ConfiguringIsNotReady
<1>1. LinkInv => ConfiguringIsNotReady
  BY DEF LinkInv
<1> QED BY <1>1, Invariance, PTL

\* The anonymous replies of an undisturbed configuration belong to its steps.
THEOREM RepliesMatch == Spec => []AnswersMatch
<1>1. LinkInv => AnswersMatch
  BY DEF LinkInv, Configuring, OwnCommand, AnswersMatch
<1> QED BY <1>1, Invariance, PTL

\* An undisturbed configuration that declares the radio ready has set it up.
THEOREM ReadyRadioHoldsNetwork == Spec => []RadioHoldsNetwork
<1>1. LinkInv => RadioHoldsNetwork
  BY DEF LinkInv, Ready, RadioHoldsNetwork
<1> QED BY <1>1, Invariance, PTL
=============================================================================
