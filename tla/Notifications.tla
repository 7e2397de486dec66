--------------------------- MODULE Notifications ---------------------------
(***************************************************************************)
(* The rules that pace notifications (shared/notification_rules.py) and    *)
(* their delivery (worker/apprise_adapter.py).  The worker that takes the  *)
(* events of the outbox one by one is not under src/: it evaluates the     *)
(* event at the head, hands the summary to the adapter, and records the    *)
(* time and the crossed threshold before it publishes the event.  An event *)
(* whose delivery fails stays unpublished and is evaluated anew when it is *)
(* due again.                                                              *)
(***************************************************************************)
EXTENDS Integers, Sequences

CONSTANTS EventTypes,   \* the types of event that have a rule
          CountTypes,   \* those that carry a count
          RuleSets,     \* the rules a behaviour may be configured with
          MaxCount,     \* bound: the count an event carries
          Day,          \* the minutes of a day
          Backoff,      \* backoff_delay(1): every delivery is a first attempt
          MaxTime,      \* bound: the clock
          MaxDeaths,    \* bound: deaths of the worker
          Nothing

RuleType ==
    [enabled : BOOLEAN, threshold : Int, once : BOOLEAN, throttle : Int,
     quiet : {<<>>} \cup (Int \X Int)]

ASSUME RulesAssumption ==
    /\ RuleSets \subseteq [EventTypes -> RuleType]
    /\ Day \in Nat \ {0} /\ Backoff \in Nat
    /\ Nothing \notin [type : EventTypes, at : Nat, crossed : BOOLEAN]

VARIABLES rules,        \* the rule of each type
          clock,        \* the time in minutes
          event,        \* the unpublished event at the head of the outbox
          due,          \* when the event may be tried again
          lastSent,     \* the recorded time of the last notification of each type
          crossed,      \* the recorded crossed_once of each type
          inflight,     \* a delivery the worker has not recorded yet
          delivered,    \* notifications the service accepted
          deaths

notifyVars == <<rules, clock, event, due, lastSent, crossed, inflight, delivered, deaths>>

NotifyInit ==
    /\ rules \in RuleSets
    /\ clock = 0
    /\ event = Nothing
    /\ due = 0
    /\ lastSent = [t \in EventTypes |-> -1]
    /\ crossed = [t \in EventTypes |-> FALSE]
    /\ inflight = Nothing
    /\ delivered = <<>>
    /\ deaths = 0

\* _in_quiet_hours: an interval of the day, which may span midnight; equal ends
\* are never quiet.
InQuietHours(rule, now) ==
    LET minute == now % Day
    IN /\ rule.quiet # <<>>
       /\ IF rule.quiet[1] <= rule.quiet[2]
          THEN rule.quiet[1] <= minute /\ minute < rule.quiet[2]
          ELSE minute >= rule.quiet[1] \/ minute < rule.quiet[2]

(* Mutant: the throttle is ignored. *)
ThrottledNever(rule, type) == FALSE

Throttled(rule, type) ==
    /\ lastSent[type] # -1 /\ rule.throttle > 0
    /\ clock - lastSent[type] < rule.throttle

\* evaluate_notification; a threshold of -1 is none.
Matches(type, count) ==
    LET rule == rules[type]
        isCount == type \in CountTypes
    IN /\ rule.enabled
       /\ ~(isCount /\ rule.threshold # -1 /\ count < rule.threshold)
       /\ ~(isCount /\ rule.once /\ crossed[type])
       /\ ~InQuietHours(rule, clock)
       /\ ~Throttled(rule, type)

NextCrossed(type) ==
    crossed[type] \/ (type \in CountTypes /\ rules[type].threshold # -1)

-----------------------------------------------------------------------------
Tick ==
    /\ clock < MaxTime
    /\ clock' = clock + 1
    /\ UNCHANGED <<rules, event, due, lastSent, crossed, inflight, delivered, deaths>>

Emit(type, count) ==
    /\ event = Nothing
    /\ type \notin CountTypes => count = 0
    /\ event' = [type |-> type, count |-> count]
    /\ due' = clock
    /\ UNCHANGED <<rules, clock, lastSent, crossed, inflight, delivered, deaths>>

\* The event matches no rule now: it is published without a notification.
Skip ==
    /\ event # Nothing /\ inflight = Nothing /\ clock >= due
    /\ ~Matches(event.type, event.count)
    /\ event' = Nothing
    /\ UNCHANGED <<rules, clock, due, lastSent, crossed, inflight, delivered, deaths>>

\* send_notification: the service accepts the message ...
Send ==
    /\ event # Nothing /\ inflight = Nothing /\ clock >= due
    /\ Matches(event.type, event.count)
    /\ inflight' = [type |-> event.type, at |-> clock, crossed |-> NextCrossed(event.type)]
    /\ delivered' = Append(delivered, [type |-> event.type, at |-> clock, lost |-> FALSE])
    /\ UNCHANGED <<rules, clock, event, due, lastSent, crossed, deaths>>

\* ... or does not, and the delivery is scheduled again; an error of the adapter
\* is scheduled at once, a refusal after the delay of a first attempt.
SendFails(raised) ==
    /\ event # Nothing /\ inflight = Nothing /\ clock >= due
    /\ Matches(event.type, event.count)
    /\ due' = clock + (IF raised THEN 0 ELSE Backoff)
    /\ UNCHANGED <<rules, clock, event, lastSent, crossed, inflight, delivered, deaths>>

Record ==
    /\ inflight # Nothing
    /\ lastSent' = [lastSent EXCEPT ![inflight.type] = inflight.at]
    /\ crossed' = [crossed EXCEPT ![inflight.type] = inflight.crossed]
    /\ inflight' = Nothing
    /\ event' = Nothing
    /\ UNCHANGED <<rules, clock, due, delivered, deaths>>

WorkerDies ==
    /\ deaths < MaxDeaths
    /\ deaths' = deaths + 1
    /\ inflight' = Nothing
    /\ delivered' = IF inflight = Nothing THEN delivered
                    ELSE [delivered EXCEPT ![Len(delivered)].lost = TRUE]
    /\ UNCHANGED <<rules, clock, event, due, lastSent, crossed>>

NotifyNext ==
    \/ Tick \/ Skip \/ Send \/ Record \/ WorkerDies
    \/ \E raised \in BOOLEAN : SendFails(raised)
    \/ \E type \in EventTypes, count \in 0 .. MaxCount : Emit(type, count)

NotifySpec == NotifyInit /\ [][NotifyNext]_notifyVars

-----------------------------------------------------------------------------
\* The pace of what the operator receives, across failed deliveries, retries and
\* restarts: nothing arrives in quiet hours; two notifications of a type are a
\* throttle apart, and a threshold that notifies once does so once, unless the
\* worker died after the first was delivered and before it was recorded.
NotificationsPaced ==
    \A j \in DOMAIN delivered :
        LET rule == rules[delivered[j].type]
            Earlier == {i \in 1 .. j - 1 : /\ delivered[i].type = delivered[j].type
                                            /\ ~delivered[i].lost}
        IN /\ ~ \E m \in {delivered[j].at % Day} :
                  /\ rule.quiet # <<>>
                  /\ m \in IF rule.quiet[1] <= rule.quiet[2]
                           THEN rule.quiet[1] .. rule.quiet[2] - 1
                           ELSE (rule.quiet[1] .. Day - 1) \cup (0 .. rule.quiet[2] - 1)
           /\ \A i \in Earlier :
                 /\ delivered[j].at - delivered[i].at >= rule.throttle
                 /\ ~(delivered[j].type \in CountTypes /\ rule.once /\ rule.threshold # -1)

(* What an induction over the steps needs beside the property.             *)

NotifyTypeOK ==
    /\ rules \in [EventTypes -> RuleType]
    /\ clock \in Nat
    /\ event \in [type : EventTypes, count : Nat] \cup {Nothing}
    /\ lastSent \in [EventTypes -> Int]
    /\ crossed \in [EventTypes -> BOOLEAN]
    /\ inflight \in [type : EventTypes, at : Nat, crossed : BOOLEAN] \cup {Nothing}
    /\ delivered \in Seq([type : EventTypes, at : Nat, lost : BOOLEAN])

\* A threshold of this type notifies for the first crossing only.
Counted(type) == type \in CountTypes /\ rules[type].threshold # -1

\* Notifications arrive as time goes.
DeliveredInTime ==
    /\ \A i \in DOMAIN delivered : delivered[i].at <= clock
    /\ \A i, j \in DOMAIN delivered : i < j => delivered[i].at <= delivered[j].at

\* The delivery the worker has yet to record is the last one.
InflightIsLast ==
    inflight # Nothing =>
        /\ delivered # <<>>
        /\ inflight.type = delivered[Len(delivered)].type
        /\ inflight.at = delivered[Len(delivered)].at
        /\ Counted(inflight.type) => inflight.crossed

\* Every other one is on record, unless it was lost with the worker.
DeliveredIsRecorded ==
    \A i \in DOMAIN delivered :
        ~delivered[i].lost /\ (inflight # Nothing => i # Len(delivered)) =>
            /\ delivered[i].at <= lastSent[delivered[i].type]
            /\ Counted(delivered[i].type) => crossed[delivered[i].type]

NotifyInv ==
    /\ NotifyTypeOK /\ NotificationsPaced
    /\ DeliveredInTime /\ InflightIsLast /\ DeliveredIsRecorded

=============================================================================
