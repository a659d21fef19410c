--------------------------- MODULE MetricsRegistry ---------------------------
(***************************************************************************)
(* internal/metrics: counters and histograms by name, and the text that is *)
(* scraped.  The registry's lock is for the names; every metric has one of *)
(* its own, and Expose takes them one after the other.                     *)
(***************************************************************************)
EXTENDS Naturals, SequencesExt, FiniteSetsExt

CONSTANTS
  Names,     \* names of counters, in the order of the text
  Labels,    \* label lists that counters are registered with
  Value,     \* label values
  Buckets,   \* bucket lists that the histogram is registered with
  Measured,  \* values that are observed
  MaxEvents  \* bound of the additions and observations

VARIABLES
  counters,     \* by name: {} or the counter [labels, order, values]
  histogram,    \* {} or the histogram [buckets, counts, count]
  handles,      \* what NewCounter has given: [name, labels as asked for]
  op,           \* a scrape under way, its text at the end
  added,        \* history: additions, each by the labels it was meant for
  observations, \* history: what was observed
  moments       \* history: what the counters held at some time in the scrape

vars == <<counters, histogram, handles, op, added, observations, moments>>

-----------------------------------------------------------------------------
\* normalizeBuckets: sorted and without repetition.
normalizeBuckets(buckets) == SetToSortSeq(ToSet(buckets), <)

\* labelNamesKey: the names as a set.
labelNamesKey(labels) == ToSet(labels)

\* labelsFor: a value that is missing is empty, one too many is left out.
labelsFor(labels, values) ==
  {<<labels[i], IF i <= Len(values) THEN values[i] ELSE "">> : i \in DOMAIN labels}

The(some) == CHOOSE x \in some : TRUE
Total(counter) == MapThenSumSet(LAMBDA k : counter.values[k], DOMAIN counter.values)
Totals == [n \in ToSet(Names) |-> IF counters[n] = {} THEN 0 ELSE Total(The(counters[n]))]

Idle == [pc |-> "idle"]
Seen == moments' = IF op = Idle THEN moments ELSE moments \cup {Totals'}

Init ==
  /\ counters = [n \in ToSet(Names) |-> {}]
  /\ histogram = {} /\ handles = {} /\ op = Idle
  /\ added = <<>> /\ observations = <<>> /\ moments = {}

\* NewCounter: a name that is known gives the counter that is there, or none
\* when its label names are others.
NewCounter(n, labels) ==
  /\ \A c \in counters[n] : labelNamesKey(c.labels) = labelNamesKey(labels)
  /\ counters' = IF counters[n] # {} THEN counters
                 ELSE [counters EXCEPT ![n] = {[labels |-> labels, order |-> <<>>, values |-> <<>>]}]
  /\ handles' = handles \cup {[name |-> n, labels |-> labels]}
  /\ UNCHANGED <<histogram, op, added, observations, moments>>

\* Add: a new combination of values, however many, goes to the end of the order.
Add(h, values) ==
  /\ Len(added) + Len(observations) < MaxEvents
  /\ LET c == The(counters[h.name]) IN
       counters' = [counters EXCEPT ![h.name] = {IF values \in DOMAIN c.values
         THEN [c EXCEPT !.values[values] = @ + 1]
         ELSE [c EXCEPT !.order = Append(@, values),
                        !.values = [v \in DOMAIN @ \cup {values} |-> IF v = values THEN 1 ELSE @[v]]]}]
  /\ added' = Append(added, [name |-> h.name, pairs |-> labelsFor(h.labels, values)])
  /\ Seen
  /\ UNCHANGED <<histogram, handles, op, observations>>

\* NewHistogram: of a known name the buckets stay.
NewHistogram(buckets) ==
  /\ histogram' = IF histogram # {} THEN histogram
                  ELSE LET b == normalizeBuckets(buckets)
                       IN {[buckets |-> b, counts |-> [i \in DOMAIN b |-> 0], count |-> 0]}
  /\ UNCHANGED <<counters, handles, op, added, observations, moments>>

\* Mutant of Observe: only the first bucket that holds a value is counted.
ObserveFirst(v) ==
  /\ Len(added) + Len(observations) < MaxEvents
  /\ \E h \in histogram :
       histogram' = {[h EXCEPT !.counts = [i \in DOMAIN h.buckets |->
                        IF v <= h.buckets[i] /\ \A j \in 1 .. i - 1 : v > h.buckets[j] THEN @[i] + 1 ELSE @[i]],
                     !.count = @ + 1]}
  /\ observations' = Append(observations, v)
  /\ UNCHANGED <<counters, handles, op, added, moments>>

\* Observe: the counts are cumulative.
Observe(v) ==
  /\ Len(added) + Len(observations) < MaxEvents
  /\ \E h \in histogram :
       histogram' = {[h EXCEPT !.counts = [i \in DOMAIN h.buckets |-> IF v <= h.buckets[i] THEN @[i] + 1 ELSE @[i]],
                               !.count = @ + 1]}
  /\ observations' = Append(observations, v)
  /\ UNCHANGED <<counters, handles, op, added, moments>>

\* Expose: the metrics there are, by name ...
Expose ==
  /\ op = Idle
  /\ op' = [pc |-> "read", names |-> {n \in ToSet(Names) : counters[n] # {}},
            left |-> SelectSeq(Names, LAMBDA n : counters[n] # {}),
            histogram |-> histogram # {}, text |-> <<>>, buckets |-> <<>>]
  /\ moments' = {Totals}
  /\ UNCHANGED <<counters, histogram, handles, added, observations>>

\* ... and of one after the other what it holds, the labels it was registered
\* with beside the values it was given.
exposeCounter ==
  /\ op.pc = "read" /\ op.left # <<>>
  /\ LET n == Head(op.left)
         c == The(counters[n])
     IN op' = [op EXCEPT !.left = Tail(@),
                         !.text = @ \o [k \in DOMAIN c.order |->
                           [name |-> n, value |-> c.values[c.order[k]],
                            pairs |-> labelsFor(c.labels, c.order[k])]]]
  /\ UNCHANGED <<counters, histogram, handles, added, observations, moments>>

exposeHistogram ==
  /\ op.pc = "read" /\ op.left = <<>>
  /\ op' = [pc |-> "answer", names |-> op.names, text |-> op.text,
            buckets |-> IF op.histogram THEN LET h == The(histogram) IN
                          [i \in DOMAIN h.buckets |-> <<h.buckets[i], h.counts[i]>>] \o <<<<"+Inf", h.count>>>>
                        ELSE <<>>]
  /\ UNCHANGED <<counters, histogram, handles, added, observations, moments>>

Answer == op.pc = "answer" /\ op' = Idle /\ moments' = {} /\ UNCHANGED <<counters, histogram, handles, added, observations>>

Next ==
  \/ \E n \in ToSet(Names), labels \in Labels : NewCounter(n, labels)
  \/ \E h \in handles, values \in SeqOf(Value, 2) : Add(h, values)
  \/ \E buckets \in Buckets : NewHistogram(buckets)
  \/ \E v \in Measured : Observe(v)
  \/ Expose \/ exposeCounter \/ exposeHistogram \/ Answer

Spec == Init /\ [][Next]_vars

-----------------------------------------------------------------------------
TypeOK ==
  /\ \A n \in ToSet(Names) : \A c \in counters[n] : ToSet(c.order) = DOMAIN c.values
  /\ Len(added) + Len(observations) <= MaxEvents
  /\ op.pc \in {"idle", "read", "answer"}

\* A histogram counts in every bucket what was observed up to its bound, in
\* ascending order, whatever list it was registered with; +Inf counts it all.
HistogramExact ==
  \A h \in histogram :
    /\ \A i, j \in DOMAIN h.buckets : i < j => h.buckets[i] < h.buckets[j]
    /\ \A i \in DOMAIN h.buckets : h.counts[i] = Len(SelectSeq(observations, LAMBDA v : v <= h.buckets[i]))
    /\ h.count = Len(observations)

\* Nothing that is added is lost, whoever registered the counter first.
NothingLost == \A n \in ToSet(Names) : Totals[n] = Len(SelectSeq(added, LAMBDA a : a.name = n))

\* What types.go says: two counters of one text can be set in relation, since
\* the text shows one state of the registry.
ScrapeConsistent ==
  op.pc = "answer" =>
    LET shown(n) == FoldSeq(LAMBDA line, sum : sum + IF line.name = n THEN line.value ELSE 0, 0, op.text)
    IN \E m \in moments : \A n \in op.names : m[n] = shown(n)

\* What types.go says: two sets of labels under one name are refused, so that
\* what is shown is under the labels it was added for.
LabelsKept ==
  op.pc = "answer" => \A i \in DOMAIN op.text :
    \E k \in DOMAIN added : added[k].name = op.text[i].name /\ added[k].pairs = op.text[i].pairs
=============================================================================
