------------------------------- MODULE PushQuota ------------------------------
(***************************************************************************)
(* Alerts and their pushes: check_rules_with_velocity and                  *)
(* check_enhanced_rule (src/monitor/src/monitoring/rules.rs),              *)
(* PushRateLimiter and send_notification (push.rs).                        *)
(*                                                                         *)
(* Grain.  A cycle goes through the rules in their order and, for a rule   *)
(* that alerts, through the [[push]] entries in theirs.  The quota is      *)
(* checked, then the send awaits the network for as long as it takes, then *)
(* the quota is charged: three steps, with time passing around the second. *)
(*                                                                         *)
(* External: the push service.  A send comes to one of these ends:         *)
(* accepted; accepted with an answer that is not the one its entry expects;*)
(* answered with a refusal; not delivered; delivered, the answer lost.     *)
(*                                                                         *)
(* Abstracted: the message and the request made of it; a rule's reading to *)
(* whether it alerts; an instant to its age, which stops past the window.  *)
(***************************************************************************)
EXTENDS Naturals, Sequences, FiniteSets

CONSTANTS
  Rules,   \* how many rules there are
  Push,    \* the [[push]] entries, in order; two may have one name
  Times,   \* of push_rate "N/duration"
  Window   \* its duration, in ticks

ASSUME QuotaAssumption ==
  /\ {Rules, Times, Window} \subseteq Nat
  /\ Push \in Seq([name: STRING, type: STRING, complete: BOOLEAN, checked: BOOLEAN])

VARIABLES
  records,   \* PushRateLimiter: the ages of what was charged to a name
  rule, push,\* where the cycle stands: indices into the rules and the pushes
  sending,   \* a send is under way
  accepted,  \* history: the ages of the starts of the sends that were accepted,
             \* with the answer their entries expect
  begun    \* history: the age of the start of the send under way

quotaVars == <<records, rule, push, sending, accepted, begun>>

Names == {Push[i].name : i \in DOMAIN Push}
Age == 0..Window + 1
Older(ages) == [i \in DOMAIN ages |-> IF ages[i] <= Window THEN ages[i] + 1 ELSE ages[i]]

\* A queue, oldest first, less what is at its front and has reached the age.
PopFront(ages, age) ==
  LET popped == CHOOSE k \in 0..Len(ages) :
                  /\ \A i \in 1..k : ages[i] >= age
                  /\ k < Len(ages) => ages[k + 1] < age
  IN  SubSeq(ages, popped + 1, Len(ages))

Within(ages) == PopFront(ages, Window + 1)

QuotaInit ==
  /\ records = [n \in Names |-> <<>>]
  /\ rule = 0 /\ push = 0 /\ sending = FALSE
  /\ accepted = [n \in Names |-> <<>>] /\ begun = 0

\* check: while the front is older than the window it is popped; then the rest
\* is counted.
\* MUTANT (Room): one more than `times`.
RoomForOneMore(ages) == Len(ages) <= Times

Room(ages) == Len(ages) < Times

\* MUTANT (Pruned): what is as old as the window leaves as well.
PrunedEarly(ages) == PopFront(ages, Window)

Pruned(ages) == PopFront(ages, Window + 1)

-----------------------------------------------------------------------------
NextRule == IF rule < Rules THEN rule + 1 ELSE 0

\* The rule at hand does not alert, or has been through every push: the next
\* one, or the end of the cycle.
Skip ==
  /\ rule > 0 /\ ~sending /\ (push = 0 \/ push > Len(Push))
  /\ rule' = NextRule /\ push' = 0
  /\ UNCHANGED <<records, sending, accepted, begun>>

CheckRules ==
  /\ rule = 0 /\ Rules > 0 /\ rule' = 1 /\ push' = 0
  /\ UNCHANGED <<records, sending, accepted, begun>>

Alerts ==  \* should_alert
  /\ rule > 0 /\ push = 0 /\ ~sending /\ Push # <<>>
  /\ push' = 1
  /\ UNCHANGED <<records, rule, sending, accepted, begun>>

\* PushRateLimiter::check, which does not charge.
Check ==
  /\ push \in DOMAIN Push /\ ~sending
  /\ LET n    == Push[push].name
         kept == Pruned(records[n])
     IN  /\ records' = [records EXCEPT ![n] = kept]
         /\ IF Room(kept) THEN sending' = TRUE /\ begun' = 0 /\ UNCHANGED push
                          ELSE push' = push + 1 /\ UNCHANGED <<sending, begun>>
  /\ UNCHANGED <<rule, accepted>>

(* The senders: what each makes of the end its request came to.  A key it  *)
(* needs and does not find is an error before anything is sent.            *)

\* Any status is Ok, a refusal with a warning and its text, which has to be read.
send_webhook_notification(entry, end) == entry.complete /\ end \in {"accepted", "refused"}

\* Whatever the answer says, if it can be read.
send_serverchan_notification(entry, end) == entry.complete /\ end \in {"accepted", "refused"}

send_bark_notification(entry, end) == entry.complete /\ end \in {"accepted", "refused"}

\* With an expected code or pattern, an answer that is not it is an error, though
\* the service took the push; so is a pattern that cannot be compiled.
send_ios_notification(entry, end) ==
  entry.complete /\ (end = "accepted" \/ (end = "refused" /\ ~entry.checked))

\* Whether send_notification is Ok; an unknown type is, and sends nothing.
send_notification(entry, end) ==
  CASE entry.type = "webhook" -> send_webhook_notification(entry, end)
    [] entry.type \in {"serverchan", "server_chan"} -> send_serverchan_notification(entry, end)
    [] entry.type = "bark" -> send_bark_notification(entry, end)
    [] entry.type = "ios" -> send_ios_notification(entry, end)
    [] OTHER -> TRUE

Sends(entry) ==
  entry.complete /\ entry.type \in {"webhook", "serverchan", "server_chan", "bark", "ios"}

\* MUTANT (Charged): charged when the send failed.
ChargedOnError(entry, end) == ~send_notification(entry, end)

\* A refusal is logged and is Ok: only an error is not charged.
Charged(entry, end) == send_notification(entry, end)

\* The ends a send of the entry may come to.
Ends(entry) ==
  IF ~Sends(entry) THEN {"unsent"}
  ELSE {"accepted", "refused", "undelivered", "unheard"} \cup
         (IF entry.type = "ios" /\ entry.checked THEN {"unexpected"} ELSE {})

SendEnds ==
  /\ sending
  /\ \E end \in Ends(Push[push]) :
       LET n == Push[push].name
       IN  /\ records' = IF Charged(Push[push], end) THEN [records EXCEPT ![n] = Append(@, 0)]
                         ELSE records
           /\ accepted' = IF end = "accepted"
                          THEN [accepted EXCEPT ![n] = Append(Within(@), begun)]
                          ELSE accepted
  /\ sending' = FALSE /\ push' = push + 1 /\ begun' = 0
  /\ UNCHANGED rule

Aging ==
  /\ records' = [n \in Names |-> Older(records[n])]
  /\ accepted' = [n \in Names |-> Within(Older(accepted[n]))]
  /\ begun' = IF sending /\ begun <= Window THEN begun + 1 ELSE begun
  /\ UNCHANGED <<rule, push, sending>>

QuotaNext == Skip \/ CheckRules \/ Alerts \/ Check \/ SendEnds \/ Aging
QuotaSpec == QuotaInit /\ [][QuotaNext]_quotaVars

-----------------------------------------------------------------------------
\* Every variable has its type.
QuotaTypeOK ==
  /\ \A n \in Names : records[n] \in Seq(Age) /\ accepted[n] \in Seq(Age)
  /\ rule \in 0..Rules /\ push \in 0..Len(Push) + 1
  /\ sending \in BOOLEAN /\ begun \in Age

\* "at most `times` within `window`" (push.rs:11), of what the service
\* accepted with the answer the entry expects: however long each send takes and
\* whichever rule it is for, no window of time holds the starts of more than
\* `times` of them.  A push that arrived and whose answer was lost, or was not
\* the one its entry expects (push.rs:277-292), is not among them.
QuotaHolds ==
  \A n \in Names : Cardinality({i \in DOMAIN accepted[n] : accepted[n][i] <= Window}) <= Times
=============================================================================
