------------------------------ MODULE ModelPin ------------------------------
(***************************************************************************)
(* The model, effort and Fast settings of a chat whose agent speaks ACP.   *)
(* The agent advertises them as options; the task keeps a pin, a spelling  *)
(* of the settings the operator chose; a start of the agent applies the    *)
(* pin, a change in the chat sets one option and makes a new pin of what   *)
(* the agent confirmed.  Every request is answered with all options.       *)
(*                                                                         *)
(* A model id is spelled the way ids are read: "m-hi" reads as model m     *)
(* with effort hi, "m-fast" as model m with Fast.  Which effort levels and *)
(* whether Fast is advertised depends on the selected model.  No agent of  *)
(* today is pinned by an argument of its program, so that case is left     *)
(* out, and with it thinking variants and bracketed ids.                   *)
(***************************************************************************)
EXTENDS Integers, FiniteSets

CONSTANTS MaxQuirks,   \* bound: answers, deaths, changes nobody asked for
          MaxChoices,  \* bound: changes by the operator
          MaxRounds    \* MAX_ROUNDS, of the requests of one change

ASSUME PinAssumption ==
    MaxQuirks \in Nat /\ MaxChoices \in Nat /\ MaxRounds \in Nat \ {0}

VARIABLES world,  \* external: what each model offers, how options are named
          bot,    \* external: the agent: whether it runs, its settings
          chatPin,  \* the host: the pin in memory, the options as answered
          task,   \* the pin of the task, and the settings it was made of
          pinJob,   \* the application of a pin or a change that is running
          pinTold,  \* how the last one ended
          pinSpent  \* quirks and choices so far, for the bounds

pinVars == <<world, bot, chatPin, task, pinJob, pinTold, pinSpent>>

Axis == {"model", "effort", "fast"}
Id == {"m", "m-hi", "m-fast", "n"}
Level == {"hi", "lo"}
Unset == "none"
Settings(model, effort, fast) ==
    [model |-> model, effort |-> effort, fast |-> fast]
NoSettings == Settings(Unset, Unset, Unset)

(* parse_cursor_model_intent of a bare id.                                 *)
Read(id) ==
    [base |-> IF id \in {"m-hi", "m-fast"} THEN "m" ELSE id,
     effort |-> IF id = "m-hi" THEN "hi" ELSE Unset,
     fast |-> IF id = "m-fast" THEN "true" ELSE "false"]

(* A pin: a model, and the effort and Fast it names, by their own names,   *)
(* by the agent's, or by both after a change on a dead agent.              *)
Pin(model, effort, fast, names) ==
    [model |-> model, effort |-> effort, fast |-> fast,
     names |-> IF effort = Unset /\ fast = Unset THEN "own" ELSE names]
Auto == Pin("", Unset, Unset, "own")
Piped(p) == p.effort # Unset \/ p.fast # Unset

-----------------------------------------------------------------------------
(* The options: the settings, with what the selected model offers.         *)
Offered(id) == id \in Id /\ world.offer[id].on
Levels(o) == IF Offered(o.model) THEN world.offer[o.model].levels ELSE {}
HasFast(o) == Offered(o.model) /\ world.offer[o.model].fast
OnOffer(o, x) ==
    CASE x = "model" -> {id \in Id : Offered(id)}
      [] x = "effort" -> Levels(o)
      [] x = "fast" -> IF HasFast(o) THEN {"true", "false"} ELSE {}

(* The settings a model may come with.                                     *)
Comes(id) ==
    {o \in [model : {id}, effort : Level \cup {Unset},
            fast : {"true", "false", Unset}] :
        /\ IF Levels(o) = {} THEN o.effort = Unset ELSE o.effort \in Levels(o)
        /\ (o.fast = Unset) = ~HasFast(o)}

(* parse_cursor_model_intent of a pin, applied_cursor_intent.              *)
Intent(p) ==
    IF ~Piped(p) THEN Read(p.model)
    ELSE [base |-> p.model,
          effort |-> IF p.names = "agent" THEN Unset ELSE p.effort,
          fast |-> IF p.names = "agent" THEN Unset ELSE p.fast]
NowIntent(o) ==
    LET r == Read(o.model) IN
    IF r.effort # Unset THEN r
    ELSE [r EXCEPT !.effort = o.effort,
                   !.fast = IF o.fast # Unset THEN o.fast ELSE @]

(* cursor_model_intents_match, effort_tier_advertised,                     *)
(* partial_effort_apply_ok.                                                *)
Fast(i) == i.fast = "true"
Match(w, a) == w.base = a.base /\ w.effort = a.effort /\ Fast(w) = Fast(a)
TierOffered(o, w) ==
    \/ w.effort \in Levels(o)
    \/ \E id \in OnOffer(o, "model") :
          Read(id).base = w.base /\ Read(id).effort = w.effort
PartialOk(o, w) ==
    /\ w.base = NowIntent(o).base /\ w.effort # Unset /\ ~TierOffered(o, w)

(* split_axis_contract_satisfies.                                          *)
Split(o, w) ==
    /\ Offered(w.base) /\ w.effort \in Levels(o) \cup {Unset}
    /\ Fast(w) => HasFast(o)

(* map_pin_to_apply_steps and the functions it chooses from: the value to  *)
(* set on each axis, none for one that is left alone.                      *)
FastStep(o, w) ==
    IF HasFast(o) /\ (o.fast = "true") # Fast(w)
    THEN IF Fast(w) THEN "true" ELSE "false" ELSE Unset
PinSteps(o, p) ==
    LET w == Intent(p) IN
    IF p.names = "agent" THEN Settings(p.model, p.effort, p.fast)
    ELSE IF Split(o, w) THEN Settings(w.base, w.effort, FastStep(o, w))
    ELSE IF Offered(w.base) THEN Settings(w.base, Unset, Unset)
    ELSE Settings(Unset, Unset, FastStep(o, w))
Mappable(o, p) ==
    LET w == Intent(p) IN
    IF p.model = "" THEN p = Auto
    ELSE IF p.names # "own"
    THEN /\ p.names = "agent" /\ Offered(p.model)
         /\ p.effort \in Levels(o) \cup {Unset}
         /\ p.fast # Unset => HasFast(o)
    ELSE \/ Offered(w.base)
         \/ PartialOk(o, w) /\ (Fast(w) => HasFast(o))

(* apply_steps_needing_send.                                               *)
Needed(o, steps) == {x \in Axis : steps[x] \notin {Unset, o[x]}}

(* pin_satisfied.                                                          *)
Satisfied(o, p) ==
    LET w == Intent(p)
        mapped == Mappable(o, p) /\ Needed(o, PinSteps(o, p)) = {}
        reads == \/ Match(w, NowIntent(o))
                 \/ PartialOk(o, w) /\ Fast(w) = Fast(NowIntent(o))
    IN  \/ p = Auto
        \/ mapped
        \/ /\ ~(Piped(p) /\ p.names = "own" /\ Split(o, w))
           /\ p.model # "" /\ Offered(o.model) /\ reads

(* Mutant: only the model is kept.                                         *)
PersistBase(o) == Pin(Read(o.model).base, Unset, Unset, "own")

(* applied_model_id_for_persist: the pin of the confirmed options.         *)
PinOf(o) ==
    LET r == Read(o.model) IN
    IF r.effort # Unset THEN Pin(r.base, r.effort, r.fast, "own")
    ELSE Pin(r.base, o.effort, o.fast, world.names)

-----------------------------------------------------------------------------
PlainModel == [on |-> TRUE, levels |-> {}, fast |-> FALSE]
Missing == [PlainModel EXCEPT !.on = FALSE]
Models == {Missing, PlainModel, [PlainModel EXCEPT !.levels = {"lo"}],
           [on |-> TRUE, levels |-> Level, fast |-> TRUE]}
NoPinJob == [kind |-> "none", at |-> "off", pin |-> Auto, kept |-> NoSettings,
          opts |-> NoSettings, steps |-> NoSettings, todo |-> {}, round |-> 0,
          resumed |-> FALSE, again |-> FALSE, wronged |-> FALSE]
NotTold == [how |-> "none", of |-> "none", pin |-> Auto, wronged |-> FALSE]

(* A task whose chat was never opened; its pin may name any model offered. *)
PinInit ==
    /\ \E m \in Models, n, spelled \in {Missing, PlainModel},
          names \in {"own", "agent"} :
          world = [offer |-> [id \in Id |-> CASE id = "m" -> m
                                              [] id = "n" -> n
                                              [] OTHER -> spelled],
                   names |-> names]
    /\ \E id \in Id : \E o \in Comes(id) :
          /\ Offered(id)
          /\ bot = [up |-> FALSE, session |-> FALSE, now |-> o, start |-> o]
    /\ chatPin = [on |-> FALSE, mem |-> Auto, opts |-> NoSettings]
    /\ \E p \in {Auto} \cup {Pin(id, Unset, Unset, "own") :
                                   id \in OnOffer(bot.now, "model")} :
          task = [pin |-> p, of |-> NoSettings]
    /\ pinJob = NoPinJob /\ pinTold = NotTold
    /\ pinSpent = [quirks |-> 0, choices |-> 0]

Quirk ==
    /\ pinSpent.quirks < MaxQuirks
    /\ pinSpent' = [pinSpent EXCEPT !.quirks = @ + 1]
NoQuirk == UNCHANGED pinSpent

-----------------------------------------------------------------------------
(* The end of an application: the options kept, and whether it is refused. *)
PinEnded(j, o, how) ==
    [j EXCEPT !.at = IF how = "ok" THEN "ok" ELSE "refused", !.kept = o,
              !.opts = NoSettings, !.steps = NoSettings, !.todo = {},
              !.round = 0]

(* apply_in_band: rounds of requests for what still differs.               *)
Rounds(j, at, o, steps) ==
    [j EXCEPT !.at = at, !.kept = o, !.opts = o, !.steps = steps,
              !.todo = Needed(o, steps), !.round = 1]

(* apply_model_pin: the last part, once the model is selected.             *)
ApplySteps(j, o) ==
    IF ~Mappable(o, j.pin) THEN PinEnded(j, o, "refused")
    ELSE IF Needed(o, PinSteps(o, j.pin)) = {} THEN PinEnded(j, o, "ok")
    ELSE Rounds(j, "pin", o, PinSteps(o, j.pin))

ApplyPin(j, o) ==
    IF Satisfied(o, j.pin) THEN PinEnded(j, o, "ok")
    ELSE IF OnOffer(o, "model") = {} THEN PinEnded(j, o, "refused")
    ELSE IF Piped(j.pin) /\ j.pin.model \notin {"", o.model}
    THEN IF Offered(j.pin.model)
         THEN Rounds(j, "base", o, Settings(j.pin.model, Unset, Unset))
         ELSE PinEnded(j, o, "refused")
    ELSE ApplySteps(j, o)

(* The requests of a change have ended.                                    *)
AfterRounds(j) ==
    LET o == j.opts IN
    CASE j.at = "base" -> IF o.model = j.pin.model THEN ApplySteps(j, o)
                          ELSE PinEnded(j, o, "refused")
      [] j.at = "pin" -> PinEnded(j, o, IF Satisfied(o, j.pin) THEN "ok"
                                     ELSE "refused")
      [] j.at = "choice" -> IF Needed(o, j.steps) = {}
                            THEN PinEnded(j, o, "ok")
                            ELSE PinEnded(j, j.kept, "refused")

Answered(j, o, x) ==
    LET todo == j.todo \ {x}
        next == Needed(o, j.steps)
        done == [j EXCEPT !.opts = o, !.todo = todo]
    IN  IF todo # {} THEN done
        ELSE IF next = {} \/ j.round = MaxRounds THEN AfterRounds(done)
        ELSE [done EXCEPT !.todo = next, !.round = @ + 1]

Applying == pinJob.at \in {"base", "pin", "choice"}
NextAxis ==
    IF "model" \in pinJob.todo THEN "model"
    ELSE IF "effort" \in pinJob.todo THEN "effort" ELSE "fast"

(* set_config_option: the agent sets the option and what the new model     *)
(* brings with it, or answers without having set it, or refuses.           *)
AgentSets ==
    /\ Applying /\ bot.up
    /\ LET x == NextAxis
           v == pinJob.steps[x]
       IN  /\ v \in OnOffer(bot.now, x)
           /\ \E o \in IF x = "model" THEN Comes(v)
                       ELSE {[bot.now EXCEPT ![x] = v]} :
                 /\ bot' = [bot EXCEPT !.now = o]
                 /\ pinJob' = Answered(pinJob, o, x)
    /\ NoQuirk /\ UNCHANGED <<world, chatPin, task, pinTold>>

AgentIgnores ==
    /\ Applying /\ bot.up /\ Quirk
    /\ pinJob.steps[NextAxis] \in OnOffer(bot.now, NextAxis)
    /\ pinJob' = [Answered(pinJob, bot.now, NextAxis) EXCEPT !.wronged = TRUE]
    /\ UNCHANGED <<world, bot, chatPin, task, pinTold>>

AgentRefuses ==
    /\ Applying
    /\ LET v == pinJob.steps[NextAxis]
           may == bot.up /\ v \in OnOffer(bot.now, NextAxis)
       IN  /\ IF may THEN Quirk ELSE NoQuirk
           /\ pinJob' = [PinEnded(pinJob, pinJob.kept, "refused") EXCEPT
                         !.wronged = @ \/ may \/ ~bot.up]
    /\ UNCHANGED <<world, bot, chatPin, task, pinTold>>

PinnedDies ==
    /\ bot.up /\ Quirk /\ bot' = [bot EXCEPT !.up = FALSE]
    /\ UNCHANGED <<world, chatPin, task, pinJob, pinTold>>

(* The agent changes a setting by itself; the host hears of it.            *)
AgentChanges ==
    /\ bot.up /\ chatPin.on /\ pinJob.at = "off" /\ Quirk
    /\ \E id \in OnOffer(bot.now, "model") : \E o \in Comes(id) :
          /\ o # bot.now
          /\ bot' = [bot EXCEPT !.now = o]
          /\ chatPin' = [chatPin EXCEPT !.opts = o]
    /\ pinTold' = NotTold /\ UNCHANGED <<world, task, pinJob>>

-----------------------------------------------------------------------------
(* spawn_internal: a new session has the agent's own settings; one that is *)
(* restored has those it had, or the agent's own.                          *)
Spawn(p, kind, again) ==
    \E o \in IF bot.session THEN {bot.now, bot.start} ELSE {bot.start} :
        /\ bot' = [bot EXCEPT !.up = TRUE, !.now = o]
        /\ pinJob' = ApplyPin([NoPinJob EXCEPT !.kind = kind, !.pin = p,
                              !.resumed = bot.session, !.again = again], o)

(* acquire: without an agent that runs one is started with the task's pin. *)
StartChat ==
    /\ pinJob.at = "off" /\ ~(chatPin.on /\ bot.up)
    /\ Spawn(task.pin, "start", FALSE)
    /\ pinTold' = NotTold /\ NoQuirk /\ UNCHANGED <<world, chatPin, task>>

(* spawn_with_operator_pin: a new session that refuses the pin is tried    *)
(* once more; then the session is installed, with the pin or without.      *)
TryAgain ==
    /\ pinJob.at = "refused" /\ pinJob.kind # "choice"
    /\ ~pinJob.resumed /\ ~pinJob.again
    /\ Spawn(pinJob.pin, pinJob.kind, TRUE)
    /\ NoQuirk /\ UNCHANGED <<world, chatPin, task, pinTold>>

PinInstalled ==
    /\ pinJob.at \in {"ok", "refused"} /\ pinJob.kind # "choice"
    /\ pinJob.at = "ok" \/ pinJob.resumed \/ pinJob.again
    /\ chatPin' = [on |-> TRUE, mem |-> pinJob.pin, opts |-> pinJob.kept]
    /\ bot' = [bot EXCEPT !.session = TRUE]
    /\ pinTold' = [how |-> pinJob.at, of |-> "start", pin |-> pinJob.pin,
                wronged |-> pinJob.wronged]
    /\ pinJob' = IF pinJob.kind = "dead"
              THEN [NoPinJob EXCEPT !.kind = "dead", !.at = "save"]
              ELSE NoPinJob
    /\ NoQuirk /\ UNCHANGED <<world, task>>

-----------------------------------------------------------------------------
(* apply_config_option in a chat: one option among those advertised.       *)
Choose ==
    /\ pinJob.at = "off" /\ chatPin.on /\ bot.up
    /\ pinSpent.choices < MaxChoices
    /\ pinSpent' = [pinSpent EXCEPT !.choices = @ + 1]
    /\ \E x \in Axis : \E v \in OnOffer(chatPin.opts, x) :
          LET steps == [NoSettings EXCEPT ![x] = v]
              j == [NoPinJob EXCEPT !.kind = "choice"]
          IN  pinJob' = IF Needed(chatPin.opts, steps) = {}
                     THEN PinEnded(j, chatPin.opts, "ok")
                     ELSE Rounds(j, "choice", chatPin.opts, steps)
    /\ pinTold' = NotTold /\ UNCHANGED <<world, bot, chatPin, task>>

(* What the agent confirmed becomes the pin; a refusal changes nothing.    *)
ChoiceEnds ==
    /\ pinJob.at \in {"ok", "refused"} /\ pinJob.kind = "choice"
    /\ IF pinJob.at = "ok"
       THEN /\ chatPin' = [chatPin EXCEPT !.opts = pinJob.kept,
                                    !.mem = PinOf(pinJob.kept)]
            /\ pinJob' = [NoPinJob EXCEPT !.kind = "choice", !.at = "save"]
       ELSE chatPin' = chatPin /\ pinJob' = NoPinJob
    /\ pinTold' = [how |-> pinJob.at, of |-> "choice", pin |-> chatPin'.mem,
                wronged |-> pinJob.wronged]
    /\ NoQuirk /\ UNCHANGED <<world, bot, task>>

(* merge_config_into_desired_pin: on a dead agent the pin in memory is     *)
(* changed, and an agent started with it.                                  *)
Merge(p, x, v) ==
    LET q == [p EXCEPT ![x] = v] IN
    IF x = "model" THEN q
    ELSE IF p.names = "own" /\ Piped(p) /\ world.names = "agent"
    THEN [p EXCEPT !.names = "both"]
    ELSE IF p.names = "both" THEN p
    ELSE [q EXCEPT !.names = world.names]

ChooseOnDead ==
    /\ pinJob.at = "off" /\ chatPin.on /\ ~bot.up
    /\ pinSpent.choices < MaxChoices
    /\ pinSpent' = [pinSpent EXCEPT !.choices = @ + 1]
    /\ \E x \in Axis : \E v \in OnOffer(chatPin.opts, x) :
          LET p == Merge(chatPin.mem, x, v) IN
          Spawn(p, "dead", FALSE) /\ chatPin' = [chatPin EXCEPT !.mem = p]
    /\ pinTold' = NotTold /\ UNCHANGED <<world, task>>

(* persist_task_session_model: a pin without a model is not stored.        *)
SavePin ==
    /\ pinJob.at = "save"
    /\ \/ /\ chatPin.mem.model # "" \/ chatPin.mem = Auto
          /\ task' = [pin |-> chatPin.mem,
                      of |-> IF pinJob.kind = "choice" THEN chatPin.opts
                             ELSE NoSettings]
          /\ NoQuirk
       \/ /\ IF chatPin.mem.model = "" /\ chatPin.mem # Auto
             THEN NoQuirk ELSE Quirk
          /\ UNCHANGED task
    /\ pinJob' = NoPinJob /\ UNCHANGED <<world, bot, chatPin, pinTold>>

(* The host ends, at any point, and its agent with it.                     *)
HostEnds ==
    /\ Quirk /\ bot' = [bot EXCEPT !.up = FALSE]
    /\ chatPin' = [on |-> FALSE, mem |-> Auto, opts |-> NoSettings]
    /\ pinJob' = NoPinJob /\ pinTold' = NotTold /\ UNCHANGED <<world, task>>

PinNext ==
    \/ AgentSets \/ AgentIgnores \/ AgentRefuses \/ PinnedDies \/ AgentChanges
    \/ StartChat \/ TryAgain \/ PinInstalled \/ Choose \/ ChoiceEnds
    \/ ChooseOnDead \/ SavePin \/ HostEnds

PinSpec == PinInit /\ [][PinNext]_pinVars

PinTypeOK ==
    /\ chatPin.opts.model \in Id \cup {Unset} /\ pinJob.round \in 0..MaxRounds
    /\ pinJob.todo \subseteq Axis /\ pinJob.kept.effort \in Level \cup {Unset}
    /\ bot.up => bot.now \in Comes(bot.now.model)

-----------------------------------------------------------------------------
(* The options offer the pin as a whole.                                   *)
Whole(o, p) ==
    /\ p.names # "both" /\ p.effort \in Levels(o) \cup {Unset}
    /\ p.fast = "true" => HasFast(o)
Says(o, p) ==
    /\ o.model = p.model /\ p.effort \in {Unset, o.effort}
    /\ p.fast = "true" => o.fast = "true"

(* The id of a model is read as another model with settings.              *)
Misread(ids) == \E id \in ids \cap Id : Read(id).base # id

(* The agent offers a pin with settings, whichever model is selected now.  *)
InReach(p) ==
    /\ p.model \in Id /\ Offered(p.model) /\ Piped(p)
    /\ Whole(Settings(p.model, Unset, Unset), p)
    /\ p.names = "agent" => p.fast = Unset \/ world.offer[p.model].fast

(* A pin that was applied without an error is what the agent runs, as far  *)
(* as the selected model offers it; a pin the agent offers is not refused  *)
(* unless the agent misbehaves; a pin made of confirmed options is         *)
(* satisfied by them; and a start with that pin which reports no error     *)
(* gives the settings the operator had chosen, each unless the id of a     *)
(* model is read as the name of another (apply_model_pin, pin_satisfied,   *)
(* applied_model_id_for_persist).                                          *)
PinFaithful ==
    LET now == chatPin.opts
        started == pinTold.how = "ok" /\ pinTold.of = "start"
    IN  /\ started /\ pinTold.pin # Auto /\ Whole(now, pinTold.pin)
           => \/ Says(now, pinTold.pin)
              \/ Misread({pinTold.pin.model, now.model})
        /\ pinTold.how = "refused" /\ pinTold.of = "start"
           /\ InReach(pinTold.pin)
           => pinTold.wronged \/ Misread({pinTold.pin.model, now.model})
        /\ Offered(now.model)
           => Satisfied(now, PinOf(now)) \/ Misread({now.model})
        /\ started /\ pinTold.pin = task.pin /\ task.of # NoSettings
           => now = task.of \/ Misread({task.of.model, now.model})
=============================================================================
