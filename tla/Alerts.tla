------------------------------- MODULE Alerts -------------------------------
(*****************************************************************************)
(* Price alerts of one currency: players create and delete them, the checker *)
(* job reads all of them with the price, sends a message for each whose      *)
(* condition is met, and marks the alerts in the transaction it commits      *)
(* after the last message. A message that was sent is not taken back.        *)
(*****************************************************************************)
EXTENDS Game

CONSTANTS
    AlertOwner,     \* the players of this part
    Alert,          \* price_alerts.id, in the order of the rows
    Price,          \* rates and targets
    MaxLost         \* bound: messages of an alert whose mark is lost, or never set

ASSUME AlertsAssumption == AlertOwner \subseteq Player /\ Alert \subseteq Nat /\ Price \subseteq Nat

VARIABLES
    price,          \* Nation.exchange_rate
    quoted,         \* the nation is active
    asking,         \* MarketStates of the player
    alert,          \* the rows of price_alerts, or NoAlert
    check,          \* the checker's transaction
    notified,       \* history: messages sent for an alert
    unmarked,       \* history: messages whose mark was lost, or never set
    met             \* history: the price has met the alert's condition since it exists

alertsVars == <<price, quoted, asking, alert, check, notified, unmarked, met>>

NoAlert == [state |-> "none"]
NoCheck == [phase |-> "idle", price |-> 0, todo |-> {}, marked |-> {}]

\* _condition_met
ConditionMet(current, a) == IF a.direction = "above" THEN current >= a.target ELSE current <= a.target

Armed(a) == alert[a].state = "armed"

\* parse_direction, or which side of the target the price is on.
Direction(d, target) ==
    IF d # "none" THEN d ELSE IF price < target THEN "above" ELSE "below"

------------------------------------------------------------------------------
AlertCreate(u) ==
    /\ asking' = [asking EXCEPT ![u] = "WAITING_ALERT_CURRENCY"]
    /\ UNCHANGED <<price, quoted, alert, check, notified, unmarked, met>>

\* The currency typed, or picked with alert:set; it must be listed.
AlertCurrency(u) ==
    /\ quoted
    /\ asking' = [asking EXCEPT ![u] = "WAITING_ALERT_PRICE"]
    /\ UNCHANGED <<price, quoted, alert, check, notified, unmarked, met>>

\* create_price_alert; ids are not used again.
CreatePriceAlert(u, a, target, d) ==
    /\ quoted /\ alert[a] = NoAlert
    /\ \A b \in Alert : b < a => alert[b] # NoAlert
    /\ LET new == [state |-> "armed", of |-> u, target |-> target,
                   direction |-> Direction(d, target)]
       IN  /\ alert' = [alert EXCEPT ![a] = new]
           /\ met' = [met EXCEPT ![a] = ConditionMet(price, new)]
    /\ UNCHANGED <<price, quoted, check, notified, unmarked>>

\* The price typed ends the dialogue, unless the nation has gone meanwhile.
AlertPrice(u, a, target, d) ==
    /\ asking[u] = "WAITING_ALERT_PRICE"
    /\ CreatePriceAlert(u, a, target, d)
    /\ asking' = [asking EXCEPT ![u] = "none"]

\* /alert, in one message.
AlertCommand(u, a, target, d) ==
    /\ CreatePriceAlert(u, a, target, d)
    /\ asking' = [asking EXCEPT ![u] = "none"]

DeletePriceAlert(u, a) ==
    /\ alert[a].state \in {"armed", "triggered"} /\ alert[a].of = u
    /\ alert' = [alert EXCEPT ![a].state = "deleted"]
    /\ UNCHANGED <<price, quoted, asking, check, notified, unmarked, met>>

------------------------------------------------------------------------------
(* The checker. *)

\* Mutant: triggered ones are selected too.
SelectedAll(a) == alert[a].state \in {"armed", "triggered"}

Selected(a) == Armed(a)

CheckStarts ==
    /\ check.phase = "idle" /\ quoted
    /\ check' = [phase |-> "sending", price |-> price, marked |-> {},
                 todo |-> {a \in Alert : Selected(a)}]
    /\ UNCHANGED <<price, quoted, asking, alert, notified, unmarked, met>>

\* What becomes of a message: send_message may raise although it was delivered, when the
\* answer is late or lost; whatever raises leaves the alert unmarked.
Sending == {"answered", "unanswered", "undelivered"}

\* The next alert, by its id.
CheckNext(a, sending) ==
    /\ check.phase = "sending"
    /\ a \in check.todo /\ \A b \in check.todo : a <= b
    /\ sending # "undelivered" => ConditionMet(check.price, alert[a])
    /\ sending = "unanswered" => unmarked[a] < MaxLost
    /\ check' = [check EXCEPT !.todo = @ \ {a},
                              !.marked = IF sending = "answered" THEN @ \cup {a} ELSE @]
    /\ notified' = [notified EXCEPT ![a] = IF sending = "undelivered" THEN @ ELSE @ + 1]
    /\ unmarked' = [unmarked EXCEPT ![a] = IF sending = "unanswered" THEN @ + 1 ELSE @]
    /\ UNCHANGED <<price, quoted, asking, alert, met>>

\* The flush updates the rows that are still there.
CheckCommits ==
    /\ check.phase = "sending" /\ check.todo = {}
    /\ alert' = [a \in Alert |-> IF a \in check.marked /\ Armed(a)
                                 THEN [alert[a] EXCEPT !.state = "triggered"] ELSE alert[a]]
    /\ check' = NoCheck
    /\ UNCHANGED <<price, quoted, asking, notified, unmarked, met>>

Lost == [a \in Alert |-> unmarked[a] + (IF a \in check.marked THEN 1 ELSE 0)]

\* The transaction is lost: the process stops between two messages, the
\* connection fails, or a marked alert was deleted and the flush misses its row.
CheckLost ==
    /\ check.phase = "sending"
    /\ \A a \in Alert : Lost[a] <= MaxLost
    /\ unmarked' = Lost
    /\ check' = NoCheck
    /\ UNCHANGED <<price, quoted, asking, alert, notified, met>>

------------------------------------------------------------------------------
\* The engine or an administrator moves the price.
PriceMoves(p) ==
    /\ price' = p
    /\ met' = [a \in Alert |-> met[a] \/ (Armed(a) /\ ConditionMet(p, alert[a]))]
    /\ UNCHANGED <<quoted, asking, alert, check, notified, unmarked>>

Delisted ==
    /\ quoted' = ~quoted
    /\ UNCHANGED <<price, asking, alert, check, notified, unmarked, met>>

AlertsInit ==
    /\ price \in Price /\ quoted = TRUE
    /\ asking = [u \in AlertOwner |-> "none"]
    /\ alert = [a \in Alert |-> NoAlert]
    /\ check = NoCheck
    /\ notified = [a \in Alert |-> 0] /\ unmarked = [a \in Alert |-> 0]
    /\ met = [a \in Alert |-> FALSE]

AlertsNext ==
    \/ \E u \in AlertOwner : AlertCreate(u) \/ AlertCurrency(u)
    \/ \E u \in AlertOwner, a \in Alert, t \in Price, d \in {"above", "below", "none"} :
            AlertPrice(u, a, t, d) \/ AlertCommand(u, a, t, d)
    \/ \E u \in AlertOwner, a \in Alert : DeletePriceAlert(u, a)
    \/ CheckStarts \/ CheckCommits \/ CheckLost
    \/ \E a \in Alert, sending \in Sending : CheckNext(a, sending)
    \/ \E p \in Price : PriceMoves(p)
    \/ Delisted

AlertsSpec == AlertsInit /\ [][AlertsNext]_alertsVars

------------------------------------------------------------------------------
(* Properties *)

\* A player hears of an alert once, and once more for every message that was
\* delivered without an answer and for every check whose marks were lost after
\* the message; and only of a price that was really met since the alert was made.
OneMessagePerKeptMark ==
    \A a \in Alert :
        /\ notified[a] <= 1 + unmarked[a]
        /\ notified[a] > 0 => met[a]

=============================================================================
