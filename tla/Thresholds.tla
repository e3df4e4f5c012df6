------------------------------ MODULE Thresholds ------------------------------
(***************************************************************************)
(* What the threshold of a rule says and when the rule alerts:             *)
(* Threshold::parse and is_true (src/monitor/src/monitoring/threshold.rs), *)
(* Size::parse (size.rs), the checks of rules.rs, and the format the       *)
(* settings endpoint accepts (src/monitor/src/api/server.rs).              *)
(*                                                                         *)
(* Abstracted: a threshold's text to its four parts, comparator, number,   *)
(* unit letters and "/s"; the number to a natural one.  A text that is not *)
(* of these parts is refused by both readers.  A reading is in the unit    *)
(* the rule's monitor uses, or None where the cycle has none.              *)
(***************************************************************************)
EXTENDS Naturals, Sequences, FiniteSets

CONSTANTS
  Number,    \* numbers that are written
  Letter,    \* unit letters that are written, at most two of them
  Reading,   \* values the metrics take
  Unread     \* what parse answers when it cannot read the text, and no reading

Kind == {"percent", "speed", "size", "temperature"}
Comparison == {"<", "<=", "=", ">=", ">"}
Parsed == [kind: Kind, value: Nat, compare: Comparison]

ASSUME ThresholdAssumption ==
  /\ Number \subseteq Nat /\ Reading \subseteq Nat
  /\ Unread \notin Nat \cup Kind \cup Comparison \cup Parsed
  /\ Letter \subseteq {"%", "b", "k", "m", "g", "t", "c", "B", "K", "M", "G", "T", "C"}

Written ==
  [op: {"", "<", "<=", "=", ">=", ">", "==", "!="}, num: Number,
   unit: UNION {[1..n -> Letter] : n \in 0..2}, rate: BOOLEAN]

Monitor == {"cpu", "core", "free", "network", "temperature"}

VARIABLES
  monitor, threshold,  \* the rule
  reading,             \* what the metrics hold for it, or Unread
  alert,               \* should_alert, once it is checked
  saved                \* what the settings endpoint answered

ruleVars == <<monitor, threshold, reading, alert, saved>>

-----------------------------------------------------------------------------
SizeSuffixes == <<"b", "k", "m", "g", "t">>
Suffix == {SizeSuffixes[i] : i \in 1..5}

Lower(l) ==
  LET upper == <<"B", "K", "M", "G", "T", "C">>
      lower == <<"b", "k", "m", "g", "t", "c">>
  IN  IF \E i \in 1..6 : upper[i] = l THEN lower[CHOOSE i \in 1..6 : upper[i] = l] ELSE l

Lowered(unit) == [i \in DOMAIN unit |-> Lower(unit[i])]
In(l, unit) == \E i \in DOMAIN unit : unit[i] = l

KILO == 1024

\* KILO.powi(nth), of the place nth of the suffix.
Factor(l) ==
  LET nth == (CHOOSE i \in 1..5 : SizeSuffixes[i] = l) - 1
  IN  CASE nth = 0 -> 1 [] nth = 1 -> KILO [] nth = 2 -> KILO * KILO
        [] nth = 3 -> KILO * KILO * KILO [] nth = 4 -> KILO * KILO * KILO * KILO

\* Size::parse: the first suffix of b, k, m, g, t that occurs is taken out
\* wherever it stands, and what is left has to be a number.
SizeOf(num, unit) ==
  LET found == {i \in 1..5 : In(SizeSuffixes[i], unit)}
      first == SizeSuffixes[CHOOSE i \in found : \A j \in found : i <= j]
  IN  IF unit = <<>> /\ num = 0 THEN 0
      ELSE IF found = {} \/ \E i \in DOMAIN unit : unit[i] # first THEN Unread
      ELSE num * Factor(first)

\* The type, tried in this order.
TypeOf(unit, rate) ==
  IF In("%", unit) THEN "percent"
  ELSE IF rate THEN "speed"
  ELSE IF unit # <<>> /\ unit[Len(unit)] \in Suffix THEN "size"
  ELSE IF unit # <<>> /\ unit[Len(unit)] = "c" THEN "temperature"
  ELSE Unread

\* A percentage loses its last character, whatever it is, and has to be a
\* number then; a temperature its "c".
ValueOf(kind, num, unit, rate) ==
  CASE kind = "percent" -> IF unit = <<"%">> /\ ~rate THEN num ELSE Unread
    [] kind = "temperature" -> IF unit = <<"c">> THEN num ELSE Unread
    [] OTHER -> SizeOf(num, unit)

\* MUTANT (Comparator): `<=` and `>=` read as `<` and `>`.
FirstCharacter(op) == IF op \in {"<", "<="} THEN "<" ELSE IF op \in {">", ">="} THEN ">" ELSE op

\* No comparator means "less"; of "==" and "!=" something is left in the number.
Comparator(op) == IF op = "" THEN "<" ELSE IF op \in {"==", "!="} THEN Unread ELSE op

parse(t) ==
  LET unit == Lowered(t.unit)
      kind == TypeOf(unit, t.rate)
      value == IF kind = Unread THEN Unread ELSE ValueOf(kind, t.num, unit, t.rate)
      compare == Comparator(t.op)
  IN  IF Unread \in {kind, value, compare} THEN Unread
      ELSE [kind |-> kind, value |-> value, compare |-> compare]

is_true(t, now) ==
  CASE t.compare = "<"  -> now < t.value
    [] t.compare = "<=" -> now <= t.value
    [] t.compare = "="  -> now = t.value
    [] t.compare = ">=" -> now >= t.value
    [] t.compare = ">"  -> now > t.value

\* The regular expression of the settings endpoint: upper-case letters, any
\* number of them, and no temperature.
validate_threshold_format(t) ==
  /\ t.op \in {">=", "<=", ">", "<", "==", "!="}
  /\ \A i \in DOMAIN t.unit : t.unit[i] \in {"%", "K", "M", "G", "T", "B"}

-----------------------------------------------------------------------------
\* MUTANT (should_trigger): any kind of threshold applies to any monitor.
TriggersAnyKind(kinds, value) ==
  LET t == parse(threshold) IN t # Unread /\ is_true(t, value)

\* should_trigger_alert and should_trigger_speed_alert.
should_trigger(kinds, value) ==
  LET t == parse(threshold) IN t # Unread /\ t.kind \in kinds /\ is_true(t, value)

Percents == {"percent", "temperature"}

\* A total of memory that is 0 makes `avail` a NaN, which compares to nothing;
\* that reading is Unread here.
should_alert ==
  CASE monitor = "cpu" -> should_trigger(Percents, reading)
    [] monitor \in {"core", "temperature"} ->
         reading # Unread /\ should_trigger(Percents, reading)
    [] monitor = "free" ->
         reading # Unread /\ reading <= 100 /\ should_trigger(Percents, 100 - reading)
    [] monitor = "network" ->  \* unwrap_or(0.0)
         should_trigger({"speed", "size"}, IF reading = Unread THEN 0 ELSE reading)

RuleInit ==
  /\ monitor \in Monitor /\ threshold \in Written
  /\ reading \in Reading \cup {Unread}
  /\ monitor = "cpu" => reading # Unread
  /\ monitor # "network" => reading \in {Unread} \cup 0..100
  /\ alert = "unchecked" /\ saved = "untried"

CheckRule ==
  /\ alert = "unchecked"
  /\ alert' = IF should_alert THEN "yes" ELSE "no"
  /\ UNCHANGED <<monitor, threshold, reading, saved>>

\* The panel saves the rules it loaded from config.toml.
SaveRule ==
  /\ saved = "untried"
  /\ saved' = IF validate_threshold_format(threshold) THEN "saved" ELSE "refused"
  /\ UNCHANGED <<monitor, threshold, reading, alert>>

RuleNext == CheckRule \/ SaveRule
RuleSpec == RuleInit /\ [][RuleNext]_ruleVars

-----------------------------------------------------------------------------
\* Every variable has its type.
RuleTypeOK ==
  /\ monitor \in Monitor /\ threshold \in Written
  /\ reading \in Reading \cup {Unread} /\ alert \in {"unchecked", "yes", "no"}
  /\ saved \in {"untried", "saved", "refused"}

\* The thresholds of the panel's help: one of five comparators, a number, and %,
\* c, a size or a size with "/s".
Documented(t) ==
  /\ t.op \in {"<", "<=", "=", ">=", ">"} /\ Len(t.unit) = 1
  /\ Lower(t.unit[1]) \in Suffix \/ (Lower(t.unit[1]) \in {"%", "c"} /\ ~t.rate)

\* On which sides of the threshold a comparator lets a reading be.
Side(x, limit) == IF x < limit THEN "below" ELSE IF x = limit THEN "at" ELSE "above"
Sides == [op \in {"<", "<=", "=", ">=", ">"} |->
            CASE op = "<" -> {"below"} [] op = "<=" -> {"below", "at"} [] op = "=" -> {"at"}
              [] op = ">=" -> {"at", "above"} [] op = ">" -> {"above"}]

\* What a unit letter stands for.
Bytes(l) ==
  CASE l = "b" -> 1 [] l = "k" -> KILO [] l = "m" -> KILO * KILO
    [] l = "g" -> KILO * KILO * KILO [] l = "t" -> KILO * KILO * KILO * KILO

Limit(t) ==
  LET l == Lower(t.unit[1])
  IN  IF l \in {"%", "c"} THEN t.num ELSE t.num * Bytes(l)

\* A documented threshold alerts exactly when the reading of its monitor is on
\* a side it names, of the limit it names; one of the wrong kind, sizes for a
\* percentage, never does.
AlertsAsWritten ==
  alert # "unchecked" /\ reading # Unread /\ Documented(threshold) =>
    LET bytes == Lower(threshold.unit[1]) \in Suffix
        value == IF monitor = "free" THEN 100 - reading ELSE reading
    IN  alert = "yes" <=>
          /\ bytes <=> monitor = "network"
          /\ Side(value, Limit(threshold)) \in Sides[threshold.op]

\* "Kept beside the settings endpoint so file and API validation cannot drift"
\* (server.rs:681): a rule that config.toml holds and that alerts is one the
\* endpoint takes.
WorkingRulesAreTaken == alert = "yes" => saved # "refused"
=============================================================================
