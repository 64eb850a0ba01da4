-------------------------------- MODULE Fleet --------------------------------
(***************************************************************************)
(* The server between the screens and their operators: the schedule        *)
(* definitions it pushes to screens, the notifications it sends operators, *)
(* the alerts it draws from telemetry, and the logs it fetches for them.   *)
(* A behaviour is about one part.                                          *)
(***************************************************************************)
EXTENDS Definitions, Notifications, Telemetry, LogFetch

CONSTANTS
  Studied      \* <<part, back end>>: what a behaviour is about

VARIABLES
  part
vars == <<requestVars, definitionVars, notificationVars, telemetryVars, fetchVars, part>>

NoDefinitions ==
  /\ playlists = {} /\ groups = {} /\ members = {} /\ schedules = {} /\ nextSchedule = 1 /\ templates = {}
  /\ connected = {} /\ defs = [c \in Screen |-> {}] /\ pushes = {}
NoNotifications ==
  /\ rules = {} /\ nextRule = 1 /\ history = {}
  /\ listed = {} /\ outcome = {} /\ passed = {} /\ nextEvent = 1
NoTelemetry == measure = [of |-> "temp", level |-> "crit"] /\ recent = <<>> /\ alert = "none" /\ streak = NoStreak
NoFetch == online = {} /\ pending = {} /\ commands = [c \in Players |-> <<>>] /\ uploads = {}

Init ==
  /\ InitRequests
  /\ \E s \in Studied : part = s[1] /\ backend = s[2]
  /\ IF part = "definitions" THEN InitDefinitions ELSE NoDefinitions
  /\ IF part = "notifications" THEN InitNotifications ELSE NoNotifications
  /\ IF part = "telemetry" THEN InitTelemetry ELSE NoTelemetry
  /\ IF part = "logs" THEN InitFetch ELSE NoFetch

Definition(step) == step /\ UNCHANGED <<notificationVars, telemetryVars, fetchVars, part>>
Notification(step) == step /\ UNCHANGED <<definitionVars, telemetryVars, fetchVars, part>>
Fetch(step) == step /\ UNCHANGED <<definitionVars, notificationVars, telemetryVars, part>>

Step(h) ==
  Definition(StepDefinitions(h)) \/ Notification(StepNotifications(h)) \/ Fetch(StepFetch(h))
Pushes == Definition(Push)

Next ==
  \/ \E h \in Handlers :
       \/ part = "definitions" /\ MayBegin(h) /\ Definition(BeginDefinitions(h))
       \/ part = "notifications" /\ MayBegin(h) /\ Notification(BeginNotifications(h))
       \/ part = "logs" /\ MayBegin(h) /\ Fetch(BeginFetch(h))
       \/ Step(h)
  \/ Pushes
  \/ Definition(Leave)
  \/ part = "logs" /\ Fetch(AtTheScreens)
  \/ /\ part = "telemetry" /\ TimePasses
     /\ UNCHANGED <<requestVars, definitionVars, notificationVars, fetchVars, part>>

Spec == Init /\ [][Next]_vars

\* a statement, a push and a channel come back in the end
FairSpec == Spec /\ (\A h \in Handlers : WF_vars(Step(h))) /\ WF_vars(Pushes)

(***************************************************************************)
(* Properties                                                              *)
(***************************************************************************)

\* A request that changed a schedule or a group's members, or registered a
\* screen, while every connected screen held what applied to it and no other
\* request was open, leaves every connected screen with what applies to it:
\* those that lose a schedule are told as well as those that get it.
ChangesAreTold ==
  [][\A h \in Handlers :
       Ends(h) /\ Isolated(h) /\ req[h].sound /\ req'[h].at = "ok"
         /\ req[h].op \in {"create", "change", "cancel", "join", "leave", "register"} => ScreensCurrent']_vars

\* Every request is answered, whatever becomes of the connections its pushes
\* are for, and of the channels its notifications go to.
EveryRequestEnds == \A h \in Handlers : Open(h) ~> ~Open(h)

\* Of an event whose handler has come to its end, every rule it found and that
\* is still there has one entry in the history, which says what its channel
\* did: no rule suffers from the failure of another's channel, and the event's
\* schedules are run. Unless one of its rules was deleted meanwhile: that may
\* end the event for the rules after it.
Concerns(h, n) == Open(h) /\ req[h].op = "event" /\ req[h].on = n
IsDeleting(h, r) == Open(h) /\ req[h].op = "unrule" /\ req[h].on = r
EveryRuleTold ==
  \A n \in 1..(nextEvent - 1) : (\A h \in Handlers : ~Concerns(h, n)) =>
    LET its == {r \in 1..(nextRule - 1) : <<n, r>> \in listed}
        told(r) == {e.status : e \in {x \in history : x.event = n /\ x.rule = r}}
        did(r) == {s \in {"sent", "failed"} : <<n, r, s>> \in outcome}
    IN  /\ \A r \in its \cap rules :
             \/ told(r) = did(r) /\ (told(r) # {} \/ ~(its \subseteq rules))
             \/ \E h \in Handlers : IsDeleting(h, r)
        /\ n \in passed \/ ~(its \subseteq rules)

\* What an operator is told: of an event by its rules, of a log by its fetch.
OperatorsAreTold == EveryRuleTold /\ EntriesMatch

\* An alert is an edge: while a measure stays where it is, it is told of once.
\* ("This prevents spamming the operator every minute while a disk stays full.")
AlertsOnce == [][streak.told /\ streak'.n > 0 /\ LastSample # "ok" => alert' = "none"]_vars
=============================================================================
