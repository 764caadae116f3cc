------------------------- MODULE CampaignStatistics -------------------------
(***************************************************************************)
(* The statistics of a campaign (research/vendorchain/stats.py and the     *)
(* summaries of research/experiment.py), in whole numbers: a mean is its   *)
(* sum, a standard deviation n times the sum of squares less the squared   *)
(* sum, a percentile a hundred times its value.  A confidence interval is a *)
(* function of these and adds nothing.                                     *)
(*                                                                         *)
(* Data abstraction.  A trial has one metric, a natural number.  A trial's *)
(* outcome is [successful, value], of value 0 when it failed.              *)
(***************************************************************************)
EXTENDS Integers, Sequences, FiniteSetsExt, SequencesExt, Functions

CONSTANTS
  Tasks,        \* the variants of the plan
  Warmups,      \* trials with an index below 0
  Trials,       \* trials that are measured
  Comparisons   \* [control, treatment] pairs of the plan

ASSUME CampaignAssumption ==
  /\ Warmups \in Nat /\ Trials \in Nat \ {0}
  /\ \A c \in Comparisons : {c.control, c.treatment} \subseteq Tasks /\ c.control # c.treatment

Indexes == -Warmups .. Trials - 1
Slots == Tasks \X Indexes
Failure == [successful |-> FALSE, value |-> 0]

\* Linear interpolation between the two closest ranks.
Percentile(values, percent) ==
  LET ordered == SortSeq(values, <)
      position == (Len(values) - 1) * percent
      lower == ordered[position \div 100 + 1]
      upper == ordered[(position + 99) \div 100 + 1]
  IN 100 * lower + (upper - lower) * (position % 100)

Summarize(values) ==
  LET n == Len(values)
      total == FoldFunction(+, 0, values)
      squares == FoldFunction(+, 0, [i \in DOMAIN values |-> values[i] * values[i]])
  IN [n |-> n, mean |-> total, stddev |-> n * squares - total * total,
      p50 |-> Percentile(values, 50), p95 |-> Percentile(values, 95), p99 |-> Percentile(values, 99)]

SummaryOf(values) == IF values = <<>> THEN [n |-> 0] ELSE Summarize(values)

\* The measured trials of a task, in order.
MeasuredIndexes == [i \in 1 .. Trials |-> i - 1]

\* summarize_rows: warmups are only counted, failures leave no value.
VariantSummary(rows, task) ==
  LET good == SelectSeq(MeasuredIndexes, LAMBDA i : rows[<<task, i>>].successful) IN
  [measured |-> Trials, successful |-> Len(good), failed |-> Trials - Len(good), warmups |-> Warmups,
   met |-> Len(good) = Trials /\ Trials >= 50 /\ Warmups >= 5,
   metric |-> SummaryOf([i \in DOMAIN good |-> rows[<<task, good[i]>>].value])]

\* paired_differences: treatment minus control, block by block, where both succeeded.
PairSummary(rows, c) ==
  LET both(i) == rows[<<c.control, i>>].successful /\ rows[<<c.treatment, i>>].successful
      pairs == SelectSeq(MeasuredIndexes, both)
  IN [missing |-> SelectSeq(MeasuredIndexes, LAMBDA i : ~both(i)),
      difference |-> SummaryOf([i \in DOMAIN pairs |->
                       rows[<<c.treatment, pairs[i]>>].value - rows[<<c.control, pairs[i]>>].value])]

Report(rows) ==
  [variants |-> [t \in Tasks |-> VariantSummary(rows, t)],
   pairs |-> [c \in Comparisons |-> PairSummary(rows, c)]]
============================================================================
