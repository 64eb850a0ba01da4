---------------------------- MODULE Notifications ----------------------------
(***************************************************************************)
(* What the server tells the operators: an event goes to the channel of    *)
(* every enabled rule for it in turn, each attempt is entered in the       *)
(* history, and at the end the event's schedules are run.  The rules may   *)
(* be deleted, and others made, while a channel is waited for.             *)
(***************************************************************************)
EXTENDS Requests, SequencesExt

CONSTANT MaxRules      \* no rule is asked for once there have been as many

ASSUME NotificationsAssumption == MaxRules \in Nat

VARIABLES
  rules,       \* ids of the rows of notification_rules, all enabled for the event
  nextRule,
  history,     \* rows of notification_history: [event, rule, status]
  \* for the properties:
  listed,      \* <<event, rule>>: the rules an event found
  outcome,     \* <<event, rule, status>>: what the channel did
  passed,      \* events handed on to the schedules
  nextEvent
notificationVars == <<rules, nextRule, history, listed, outcome, passed, nextEvent>>
spoken == <<listed, outcome, passed, nextEvent>>

InitNotifications ==
  /\ rules = {1, 2} /\ nextRule = 3
  /\ history = {} /\ listed = {} /\ outcome = {} /\ passed = {} /\ nextEvent = 1

IsSql == backend # "mongodb"

(***************************************************************************)
(* fireEvent                                                               *)
(***************************************************************************)
fireEvent(h) ==
  /\ Begin(h, "event", "rules", nextEvent, <<>>, TRUE)
  /\ nextEvent' = nextEvent + 1
  /\ UNCHANGED <<rules, nextRule, history, listed, outcome, passed>>

\* no ORDER BY: the rules come in any order
getEnabledRulesForEvent(h) ==
  LET r == req[h] IN
  /\ At(h, "event", "rules")
  /\ \E list \in SetToSeqs(rules) :
       GoOn(h, [r EXCEPT !.list = list, !.at = IF rules = {} THEN "schedules" ELSE "channel"])
  /\ listed' = listed \cup ({r.on} \X rules)
  /\ UNCHANGED <<rules, nextRule, history, outcome, passed, nextEvent>>

\* sendWebhook, sendEmail: delivered, or refused in one way or another
dispatch(h) ==
  LET r == req[h] IN
  /\ At(h, "event", "channel")
  /\ \E status \in {"sent", "failed"} :
       /\ outcome' = outcome \cup {<<r.on, Head(r.list), status>>}
       /\ GoTo(h, status)
  /\ UNCHANGED <<rules, nextRule, history, listed, passed, nextEvent>>

NextRule(r) == [r EXCEPT !.list = Tail(@), !.at = IF Len(r.list) = 1 THEN "schedules" ELSE "channel"]

\* A variant of createNotificationHistory: a failure is rethrown
FailureEndsEvent(h, status) ==
  LET r == req[h] IN
  /\ At(h, "event", status)
  /\ IF IsSql /\ Head(r.list) \notin rules
     THEN UNCHANGED history /\ GoTo(h, IF status = "sent" THEN "failed" ELSE "error")
     ELSE /\ history' = history \cup {[event |-> r.on, rule |-> Head(r.list), status |-> status]}
          /\ GoOn(h, IF status = "failed" THEN [r EXCEPT !.at = "error"] ELSE NextRule(r))
  /\ UNCHANGED <<rules, nextRule, spoken>>

HistoryEntry(r, status) == [event |-> r.on, rule |-> Head(r.list), status |-> status]

\* The foreign key refuses a rule that is gone, and SQL Server does not find the
\* row that was made: a "sent" that cannot be entered is entered as "failed",
\* and a "failed" that cannot ends the event.
createNotificationHistory(h, status) ==
  LET r == req[h]
      gone == IsSql /\ Head(r.list) \notin rules
  IN  /\ At(h, "event", status)
      /\ history' = IF gone THEN history
                    ELSE history \cup {HistoryEntry(r, status)}
      /\ GoOn(h, IF ~gone /\ backend # "mssql" THEN NextRule(r)
                 ELSE [r EXCEPT !.at = IF status = "sent" THEN "failed" ELSE "error"])
      /\ UNCHANGED <<rules, nextRule, spoken>>

\* scheduleService.onEvent, which lets no error out
HandOn(h) ==
  /\ At(h, "event", "schedules")
  /\ passed' = passed \cup {req[h].on}
  /\ GoTo(h, "ok")
  /\ UNCHANGED <<rules, nextRule, history, listed, outcome, nextEvent>>

(***************************************************************************)
(* Rules                                                                   *)
(***************************************************************************)
createRule(h) ==
  /\ nextRule <= MaxRules
  /\ Begin(h, "rule", "insert", 0, <<>>, TRUE)
  /\ UNCHANGED notificationVars

createNotificationRule(h) ==
  /\ At(h, "rule", "insert")
  /\ rules' = rules \cup {nextRule} /\ nextRule' = nextRule + 1
  /\ GoTo(h, IF backend = "mssql" THEN "error" ELSE "ok")
  /\ UNCHANGED <<history, spoken>>

deleteRule(h, id) ==
  /\ id \in rules
  /\ Begin(h, "unrule", IF IsSql THEN "row" ELSE "history", id, <<>>, TRUE)
  /\ UNCHANGED notificationVars

mongoDeleteHistory(h) ==
  /\ At(h, "unrule", "history")
  /\ history' = {e \in history : e.rule # req[h].on}
  /\ GoTo(h, "row")
  /\ UNCHANGED <<rules, nextRule, spoken>>

deleteNotificationRule(h) ==
  /\ At(h, "unrule", "row")
  /\ rules' = rules \ {req[h].on}
  /\ history' = IF IsSql THEN {e \in history : e.rule # req[h].on} ELSE history
  /\ GoTo(h, "ok")
  /\ UNCHANGED <<nextRule, spoken>>

BeginNotifications(h) == fireEvent(h) \/ createRule(h) \/ \E id \in rules : deleteRule(h, id)
StepNotifications(h) ==
  \/ getEnabledRulesForEvent(h) \/ dispatch(h) \/ HandOn(h)
  \/ \E status \in {"sent", "failed"} : createNotificationHistory(h, status)
  \/ createNotificationRule(h) \/ mongoDeleteHistory(h) \/ deleteNotificationRule(h)
=============================================================================
