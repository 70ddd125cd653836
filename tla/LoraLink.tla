------------------------------- MODULE LoraLink -------------------------------
(***************************************************************************)
(* The serial link of src/src/main.cpp to the RAK3172 LoRa module: the AT   *)
(* configuration dialogue (pollLoraPortA), the start of transmissions, and  *)
(* the network selection of the user interface that the dialogue reads.     *)
(*                                                                          *)
(* A reply line carries no name: "OK" and "ERROR" are taken as the answer   *)
(* to whatever the firmware thinks it has asked last.  asked is the queue   *)
(* of the commands the module has not answered; the module acts on a        *)
(* command when its answer is read, which is also when it may be lost.      *)
(* Everything of the firmware here runs in the Arduino loop, one call or    *)
(* one line at a time.  Received packets do not touch this state.           *)
(***************************************************************************)
EXTENDS Naturals, Sequences

CONSTANTS
  Networks,     \* the radio settings a selection may stand for
  LastStep,     \* the steps of sendLoraConfigStep (10 in the code)
  Params,       \* those that send a value of the preset ({3, 4, 5, 6, 9})
  MayRefuse,    \* may the module answer ERROR although it is not transmitting?
  Lossy,        \* may a line be lost on the UART?
  MayStall,     \* may the loop be kept busy past a deadline with the answer waiting?
  MaxWire       \* bound on the unanswered commands

ASSUME LinkAssumption ==
  /\ LastStep \in Nat /\ LastStep >= 1 /\ Params \subseteq 1..LastStep
  /\ Networks # {} /\ MaxWire \in Nat
  /\ MayRefuse \in BOOLEAN /\ Lossy \in BOOLEAN /\ MayStall \in BOOLEAN

VARIABLES
  step,         \* loraConfigStep: 0 when no configuration runs
  retries,      \* loraConfigRetries
  pending,      \* loraCommandPending
  probing,      \* loraProbePending
  configured,   \* loraP2pConfigured
  selected,     \* what activeMeshNetworkPreset returns
  txPending,    \* Tab5AtMeshRadio: a transmission of the mesh is out
  asked,        \* the commands on their way
  held,         \* the settings of the module
  sending,      \* the module is on the air
  undisturbed   \* history: has the last configuration met a quiet link and no other
                \* command, change of the selection or overtaken answer so far?

firmware == <<step, retries, pending, probing, configured>>
module == <<held, sending>>
vars == <<firmware, selected, txPending, asked, module, undisturbed>>

MaxRetries == 2
Command == [op : {"at", "psend", "cfg"}, step : 0..LastStep, net : Networks]

Config(i, n) == [op |-> "cfg", step |-> i, net |-> n]
Other(op) == [op |-> op, step |-> 0, net |-> CHOOSE n \in Networks : TRUE]

TypeOK ==
  /\ step \in 0..LastStep /\ retries \in 0..(MaxRetries + 1)
  /\ pending \in BOOLEAN /\ probing \in BOOLEAN /\ configured \in BOOLEAN
  /\ selected \in Networks /\ txPending \in BOOLEAN
  /\ asked \in Seq(Command)
  /\ held \in [Params -> Networks] /\ sending \in BOOLEAN
  /\ undisturbed \in BOOLEAN

Room == Len(asked) < MaxWire

-----------------------------------------------------------------------------
(* The firmware's side. *)

\* sendLoraConfigStep behind the commands q: the preset is read now.
SendStep(i, q) ==
  /\ step' = i /\ pending' = TRUE
  /\ asked' = Append(q, Config(i, selected'))

\* An accepted beginLoraP2pConfiguration.
Begin(q) ==
  /\ SendStep(1, q) /\ retries' = 0
  /\ probing' = FALSE /\ configured' = FALSE
  /\ undisturbed' = (q = <<>> /\ ~sending')

\* It is refused while the command of a step is out.
Busy == step # 0 /\ pending

beginLoraP2pConfiguration ==
  IF Busy
  THEN UNCHANGED <<firmware, asked>> /\ undisturbed' = (undisturbed /\ selected' = selected)
  ELSE Begin(asked)

\* "OK", read with the commands q still unanswered.
HandleOk(q) ==
  \/ /\ step # 0 /\ step < LastStep
     /\ SendStep(step + 1, q)
     /\ probing' = FALSE /\ retries' = 0 /\ UNCHANGED <<configured, undisturbed>>
  \/ /\ step = LastStep
     /\ step' = 0 /\ configured' = TRUE /\ pending' = FALSE /\ asked' = q
     /\ probing' = FALSE /\ retries' = 0 /\ UNCHANGED undisturbed
  \/ /\ step = 0
     /\ pending' = FALSE /\ asked' = q
     /\ probing' = FALSE /\ retries' = 0 /\ UNCHANGED <<step, configured, undisturbed>>
  \/ step = 0 /\ ~configured /\ Begin(q)       \* the LoRa app is on the screen

\* Variant: a setting the module keeps refusing is skipped.
HandleError_Skips(q) ==
  /\ UNCHANGED <<probing, configured, undisturbed>>
  /\ \/ /\ step # 0 /\ retries < MaxRetries
        /\ SendStep(step, q) /\ retries' = retries + 1
     \/ /\ step # 0 /\ step < LastStep /\ retries >= MaxRetries
        /\ SendStep(step + 1, q) /\ retries' = 0
     \/ /\ step = 0 \/ (step = LastStep /\ retries >= MaxRetries)
        /\ step' = 0 /\ pending' = FALSE /\ asked' = q /\ UNCHANGED retries

\* A line with "ERROR" in it.
HandleError(q) ==
  /\ UNCHANGED <<probing, configured, undisturbed>>
  /\ retries' = IF step # 0 THEN retries + 1 ELSE retries
  /\ IF step # 0 /\ retries < MaxRetries
     THEN SendStep(step, q)
     ELSE /\ pending' = FALSE /\ asked' = q
          /\ step' = IF configured THEN step ELSE 0

\* Variant: every attempt is the first one.
CommandTimeout_Forgets ==
  /\ Busy /\ Room /\ (asked = <<>> \/ MayStall)
  /\ UNCHANGED <<retries, probing, configured, selected, txPending, module>>
  /\ SendStep(step, asked) /\ undisturbed' = (undisturbed /\ asked = <<>>)

\* 7 s without an answer.  The deadline is checked before the lines that have arrived
\* are read: after a stall of the loop it overtakes an answer.
CommandTimeout ==
  /\ Busy /\ Room /\ (asked = <<>> \/ MayStall)
  /\ UNCHANGED <<probing, configured, selected, txPending, module>>
  /\ retries' = retries + 1
  /\ IF retries < MaxRetries
     THEN SendStep(step, asked)
     ELSE step' = 0 /\ pending' = FALSE /\ UNCHANGED asked
  /\ undisturbed' = (undisturbed /\ asked = <<>>)

\* Variant: the probe does not wait for the end of the configuration.
sendLoraAtProbe_Anytime ==
  /\ probing \/ pending
  /\ Room /\ asked' = Append(asked, Other("at"))
  /\ UNCHANGED <<firmware, selected, txPending, module, undisturbed>>

\* Every 5 s until the module answers.
sendLoraAtProbe ==
  /\ step = 0 /\ probing
  /\ Room /\ asked' = Append(asked, Other("at"))
  /\ UNCHANGED <<firmware, selected, txPending, module, undisturbed>>

\* The serial commands "lora at" and "lora reset".
SerialProbe ==
  /\ Room /\ asked' = Append(asked, Other("at")) /\ probing' = TRUE
  /\ undisturbed' = (undisturbed /\ step = 0)
  /\ UNCHANGED <<step, retries, pending, configured, selected, txPending, module>>
initLoraPortA ==
  /\ step' = 0 /\ retries' = 0 /\ pending' = FALSE /\ probing' = TRUE /\ configured' = FALSE
  /\ UNCHANGED <<selected, txPending, asked, module, undisturbed>>

-----------------------------------------------------------------------------
(* What the user and the mesh do. *)

\* The arrow keys of the network list and of the power slider.
Browse ==
  /\ \E n \in Networks : selected' = n /\ undisturbed' = (undisturbed /\ n = selected)
  /\ UNCHANGED <<firmware, txPending, asked, module>>

\* Enter, a tap on a network, a saved power or an edited custom network.
ApplyNetwork ==
  /\ Room /\ selected' \in Networks
  /\ UNCHANGED <<txPending, module>>
  /\ beginLoraP2pConfiguration

\* Opening the LoRa app, asking for an advert.
ensureLoraP2pConfigured ==
  /\ ~configured /\ step = 0 /\ Room
  /\ UNCHANGED <<selected, txPending, module>>
  /\ Begin(asked)

\* A text or a telemetry request over a radio that is not ready starts it; a text the
\* packet pool has no room for is sent raw.
sendLoraTextMessage ==
  /\ Room /\ UNCHANGED <<selected, txPending, module>>
  /\ \/ ~configured /\ beginLoraP2pConfiguration
     \/ /\ configured /\ pending' = TRUE /\ asked' = Append(asked, Other("psend"))
        /\ UNCHANGED <<step, retries, probing, configured, undisturbed>>

\* The dispatcher of the mesh has a packet due; when startSendRaw refuses it is dropped.
startSendRaw ==
  /\ configured /\ ~pending /\ ~txPending
  /\ Room /\ asked' = Append(asked, Other("psend")) /\ txPending' = TRUE
  /\ UNCHANGED <<firmware, selected, module, undisturbed>>

\* Reported done, or given up after the estimated air time: maybe too early.
onSendFinished ==
  /\ txPending /\ txPending' = FALSE
  /\ UNCHANGED <<firmware, selected, asked, module, undisturbed>>

-----------------------------------------------------------------------------
(* The module's side. *)

\* On the air it is busy for anything but "AT".
Executes(c) ==
  /\ c.op = "at" \/ ~sending
  /\ held' = IF c.op = "cfg" /\ c.step \in Params THEN [held EXCEPT ![c.step] = c.net]
                                                  ELSE held
  /\ sending' = (sending \/ c.op = "psend")

Refuses(c) == c.op # "at" /\ (sending \/ MayRefuse) /\ UNCHANGED module

ReadAnswer ==
  /\ asked # <<>> /\ UNCHANGED <<selected, txPending>>
  /\ \/ Executes(Head(asked)) /\ HandleOk(Tail(asked))
     \/ Refuses(Head(asked)) /\ HandleError(Tail(asked))

\* The command or its answer is lost.
LoseLine ==
  /\ Lossy /\ asked # <<>> /\ asked' = Tail(asked)
  /\ Executes(Head(asked)) \/ UNCHANGED module
  /\ UNCHANGED <<firmware, selected, txPending, undisturbed>>

\* "+EVT:TXP2P" clears the pending flag, whatever command that was for.
TransmissionEnds ==
  /\ sending /\ sending' = FALSE
  /\ pending' = FALSE \/ (Lossy /\ UNCHANGED pending)
  /\ UNCHANGED <<step, retries, probing, configured, selected, txPending, asked, held,
                 undisturbed>>

Init ==
  /\ selected \in Networks /\ held \in [Params -> Networks] /\ sending \in BOOLEAN
  /\ step = 1 /\ retries = 0 /\ pending = TRUE /\ probing = FALSE /\ configured = FALSE
  /\ asked = <<Config(1, selected)>> /\ undisturbed = ~sending
  /\ txPending = FALSE

Loop ==
  \/ CommandTimeout \/ sendLoraAtProbe \/ SerialProbe \/ initLoraPortA
  \/ Browse \/ ApplyNetwork \/ ensureLoraP2pConfigured
  \/ sendLoraTextMessage \/ startSendRaw \/ onSendFinished
Line == ReadAnswer \/ LoseLine \/ TransmissionEnds

Next == Loop \/ Line

Spec == Init /\ [][Next]_vars

\* The loop polls the port, time passes, and the module gets round to its commands.
\* The deadline is only ever disabled by the bound on the wire.
FairSpec ==
  /\ Spec
  /\ SF_vars(CommandTimeout) /\ WF_vars(ReadAnswer \/ LoseLine) /\ WF_vars(TransmissionEnds)

-----------------------------------------------------------------------------
(* Properties. *)

\* While a configuration runs the mesh does not use the radio, whatever the order of
\* resets, refusals and answers nobody asked for.
ConfiguringIsNotReady == step # 0 => ~configured

\* The anonymous replies are given to the right step: while an undisturbed configuration
\* runs, the only thing the module can answer to is the command of the current step.
AnswersMatch == undisturbed /\ step # 0 => asked \in {<<>>, <<Config(step, selected)>>}

\* Over any losses and refusals, an undisturbed configuration only declares the radio
\* ready with every setting of the selected network in the module.
RadioHoldsNetwork == undisturbed /\ configured => \A p \in Params : held[p] = selected

\* A configuration whose command is out ends, ready or abandoned, whatever is lost.
ConfigurationEnds == step # 0 ~> step = 0 \/ ~pending

\* "RADIO READY <frequency>" (main.cpp:16383): the module is on the network it names.
ReadyIsTrue ==
  [][~configured /\ configured' => \A p \in Params : held'[p] = selected']_vars
=============================================================================
