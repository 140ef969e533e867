------------------------------- MODULE Metrics -------------------------------
(***************************************************************************)
(* agent/tools/metrics.py: get_metrics.                                    *)
(*                                                                         *)
(* A series is a function from the buckets that have a datapoint to        *)
(* values; a bucket is an interval of the window.  Error rates are counted *)
(* in units of 1/10000, the precision the code rounds them to.             *)
(***************************************************************************)
EXTENDS ToolCall

CONSTANT Activity   \* what CloudWatch may hold: a series for every metric

ASSUME MetricsAssumption ==
  \A a \in Activity : \A x \in {"Invocations", "Errors", "Duration"} :
    /\ IsFiniteSet(DOMAIN a[x]) /\ DOMAIN a[x] \subseteq Nat
    /\ \A b \in DOMAIN a[x] : a[x][b] \in Nat

VARIABLES
  activity,    \* what CloudWatch holds about the target
  series       \* what was fetched of it so far

metricVars == <<activity, series>>

\* The metrics that are compared; the others of LAMBDA_METRICS are summarised.
LAMBDA_METRICS == <<"Invocations", "Errors", "Duration">>

\* The depths and counts of a queue, none of which is compared.
SQS_METRICS == <<"ApproximateAgeOfOldestMessage">>

Wanted == IF call.target \in {"api", "consumer"} THEN LAMBDA_METRICS ELSE SQS_METRICS

NoPoints == <<>>

MetricsInit(activities) == activity \in activities /\ series = <<>>

-----------------------------------------------------------------------------
\* round(n / d), for naturals.
Rounded(n, d) == (2 * n + d) \div (2 * d)

\* Values of a series in the order of its buckets.
Values(s) == LET at == Ascending(DOMAIN s) IN [k \in DOMAIN at |-> s[at[k]]]

\* Every comparison is of the window's first half with its second.
Half(values) == IF Len(values) >= 2 THEN Len(values) \div 2 ELSE Len(values)

Before(values) == SubSeq(values, 1, Half(values))
After(values) == SubSeq(values, Half(values) + 1, Len(values))

\* _error_rate: per bucket with traffic; no Errors datapoint means no errors.
ErrorRate(invocations, errors) ==
  [b \in {b \in DOMAIN invocations : invocations[b] > 0} |->
     Rounded(10000 * (IF b \in DOMAIN errors THEN errors[b] ELSE 0), invocations[b])]

\* round(_mean(values), 4), of rates.
MeanRate(values) == IF values = <<>> THEN 0 ELSE Rounded(Total(values), Len(values))

\* _duration_shift and _pct_change: the average rose by more than 50%.
DurationRose(duration) ==
  LET v == Values(duration)
      before == Total(Before(v)) * Len(After(v))
      after  == Total(After(v)) * Len(Before(v))
  IN  before > 0 /\ after > before /\ Rounded(1000 * (after - before), before) > 500

\* Mutant: any error rate counts as a defect.
JudgementByLevel(before, after) ==
  IF after > 100 THEN "errors_saturated" ELSE "errors_tracked_load"

\* A rate that rose by half and by a hundredth, or one of SATURATED_ERROR_RATE.
Judgement(before, after) ==
  IF 2 * after > 3 * before /\ after > before + 100 THEN "errors_outpaced_load"
  ELSE IF after >= 5000 THEN "errors_saturated"
  ELSE "errors_tracked_load"

\* _correlate: did errors rise faster than traffic, or in step with it?  A verdict
\* of no_errors whose interpretation names the latency is told apart here.
Correlate(s) ==
  LET rate == Values(ErrorRate(s["Invocations"], s["Errors"]))
  IN  CASE DOMAIN s["Invocations"] = {} -> "insufficient_data"
        [] DOMAIN s["Invocations"] # {} /\ Total(Values(s["Errors"])) = 0 ->
             IF DurationRose(s["Duration"]) THEN "no_errors_but_latency" ELSE "no_errors"
        [] OTHER ->
             IF rate = <<>> THEN "insufficient_data"
             ELSE Judgement(MeanRate(Before(rate)), MeanRate(After(rate)))

-----------------------------------------------------------------------------
\* One metric is fetched; one that cannot be is taken to have no datapoints.
Fetch(answered) ==
  LET metric == Wanted[Cardinality(DOMAIN series) + 1]
      points == IF answered THEN activity[metric] ELSE NoPoints
  IN  /\ pc = "fetch"
      /\ Cardinality(DOMAIN series) < Len(Wanted)
      /\ series' = [x \in DOMAIN series \cup {metric} |->
                      IF x = metric THEN points ELSE series[x]]
      /\ UNCHANGED <<call, pc, clock, payload, activity>>

MetricsReturn ==
  /\ pc = "fetch"
  /\ Cardinality(DOMAIN series) = Len(Wanted)
  /\ Return([tool |-> "get_metrics",
             verdict |-> IF Wanted = LAMBDA_METRICS THEN Correlate(series) ELSE "none",
             no_data_for |-> {x \in DOMAIN series : series[x] = NoPoints}])
  /\ UNCHANGED <<call, clock, metricVars>>

MetricsStep == (\E answered \in BOOLEAN : Fetch(answered)) \/ MetricsReturn

-----------------------------------------------------------------------------
\* The verdict rests on everything CloudWatch holds: no fetch failed.
Measured ==
  /\ pc = "done" /\ payload.tool = "get_metrics" /\ payload.verdict # "none"
  /\ \A x \in DOMAIN series : series[x] = activity[x]

Inv(b) == activity["Invocations"][b]
Err(b) == IF b \in DOMAIN activity["Errors"] THEN activity["Errors"][b] ELSE 0
Busy == {b \in DOMAIN activity["Invocations"] : Inv(b) > 0}

\* "If errors rose in proportion to invocations, the code is fine and the traffic
\* changed": the same share of requests failing throughout, one that does not round
\* to half, is load.
LoadIsNotDefect ==
  Measured /\ (\E b \in Busy : Err(b) > 0)
           /\ (\A b, c \in Busy : Err(b) * Inv(c) = Err(c) * Inv(b))
           /\ (\A b \in Busy : 10000 * Err(b) <= 4999 * Inv(b))
    => payload.verdict = "errors_tracked_load"

\* "Reported a dead service as load": where all requests fail, in two buckets or
\* more, the verdict says that volume does not explain it.
DeadServiceIsNotLoad ==
  Measured /\ Cardinality(Busy) >= 2 /\ (\A b \in Busy : Err(b) = Inv(b))
    => payload.verdict \in {"errors_outpaced_load", "errors_saturated"}

\* "A resource with zero errors can still be the failing one": when every request
\* of the second half took twice as long as any of the first, the verdict is not
\* just that there were no errors.
SlowIsNotQuiet ==
  LET d == activity["Duration"]
      late == {b \in DOMAIN d : Cardinality({c \in DOMAIN d : c < b}) >= Cardinality(DOMAIN d) \div 2}
  IN  Measured /\ Cardinality(DOMAIN d) >= 2
               /\ (\A b \in late, c \in DOMAIN d \ late : d[b] >= 2 * d[c] /\ d[c] > 0)
        => payload.verdict # "no_errors"

\* The verdict on complete measurements neither blames the code for the traffic,
\* nor the traffic for a dead service, nor passes over a slow one.
VerdictIsSound == LoadIsNotDefect /\ DeadServiceIsNotLoad /\ SlowIsNotQuiet
=============================================================================
