---------------------------- MODULE MetricsWindow ----------------------------
(***************************************************************************)
(* Calls per minute and tokens per minute (metrics/metrics.go, used by     *)
(* model/metrics_model.go).  A finished model call takes the time, adds a  *)
(* sample under the counter's lock and then reads the two rates, each      *)
(* under the lock again, all with the time it took first: callers reach    *)
(* the lock in another order than they took their times.                   *)
(*                                                                         *)
(* Rates are kept as counts; the code scales them to a minute.  samples    *)
(* keeps all that was ever added, for the properties.                      *)
(***************************************************************************)
EXTENDS Clock, FiniteSets, SeqFilter

CONSTANTS
    Clients,      \* goroutines calling the wrapped model
    WindowSize,   \* ticks
    MaxSamples,   \* capacity of the ring
    Tokens,       \* tokens a call may use
    MaxTicks, MaxCalls   \* bounds: clock and number of samples

ASSUME MetricsAssumption ==
    /\ WindowSize \in Nat \ {0} /\ MaxSamples \in Nat \ {0}
    /\ Tokens \subseteq Nat /\ MaxTicks \in Nat /\ MaxCalls \in Nat

VARIABLES
    ring,      \* [slot, head, count]; a slot holds a time and a token count
    samples,   \* all samples in the order they were added
    at,        \* per caller: "idle", "add", "rpm", "tpm"
    stamp,     \* per caller: the time of its latest call
    used,      \* per caller: the tokens of its latest call
    report     \* per caller: the counts behind the RPM and TPM it reports

mwVars == <<ring, samples, at, stamp, used, report>>

Slots == 0..(MaxSamples - 1)
ZeroSample == [time |-> 0, tokens |-> 0]

MWInit ==
    /\ now = 0
    /\ ring = [slot |-> [i \in Slots |-> ZeroSample], head |-> 0, count |-> 0]
    /\ samples = <<>>
    /\ at = [c \in Clients |-> "idle"]
    /\ stamp = [c \in Clients |-> 0]
    /\ used = [c \in Clients |-> 0]
    /\ report = [c \in Clients |-> [calls |-> 0, tokens |-> 0]]

-----------------------------------------------------------------------------
(* The ring. *)

Index(r, i) == (r.head + i) % MaxSamples

\* A mutation of Live: a sample of exactly WindowSize ago still counts.
LiveInclusive(r, t) == {i \in 0..(r.count - 1) : r.slot[Index(r, i)].time >= t - WindowSize}

Live(r, t) == {i \in 0..(r.count - 1) : r.slot[Index(r, i)].time > t - WindowSize}

\* cleanup drops samples from the head until it meets a live one: an expired
\* sample that was added after a live one stays, and is counted.
expiredCalls(r, t) ==
    CHOOSE n \in 0..r.count :
        /\ \A i \in 0..(n - 1) : i \notin Live(r, t)
        /\ n = r.count \/ n \in Live(r, t)

cleanupRing(r, t) ==
    LET n == expiredCalls(r, t)
    IN  [slot |-> [s \in Slots |-> IF \E i \in 0..(n - 1) : s = Index(r, i)
                                   THEN ZeroSample ELSE r.slot[s]],
         head |-> Index(r, n),
         count |-> r.count - n]

\* A full ring loses its oldest sample.
put(r, x) ==
    [slot |-> [r.slot EXCEPT ![Index(r, r.count)] = x],
     head |-> IF r.count < MaxSamples THEN r.head ELSE Index(r, 1),
     count |-> IF r.count < MaxSamples THEN r.count + 1 ELSE r.count]

TotalTokens(r) == Total([i \in 1..r.count |-> r.slot[Index(r, i - 1)].tokens])

-----------------------------------------------------------------------------
(* A call of the wrapped model. *)

\* The model answered: time.Now(), then the tokens it reports.
Generate(c, k) ==
    /\ at[c] = "idle"
    /\ Len(samples) < MaxCalls
    /\ at' = [at EXCEPT ![c] = "add"]
    /\ stamp' = [stamp EXCEPT ![c] = now]
    /\ used' = [used EXCEPT ![c] = k]
    /\ UNCHANGED <<now, ring, samples, report>>

AddSample(c) ==
    /\ at[c] = "add"
    /\ LET x == [time |-> stamp[c], tokens |-> used[c]]
       IN  /\ ring' = put(cleanupRing(ring, stamp[c]), x)
           /\ samples' = Append(samples, x)
    /\ at' = [at EXCEPT ![c] = "rpm"]
    /\ UNCHANGED <<now, stamp, used, report>>

RPM(c) ==
    /\ at[c] = "rpm"
    /\ ring' = cleanupRing(ring, stamp[c])
    /\ report' = [report EXCEPT ![c].calls = ring'.count]
    /\ at' = [at EXCEPT ![c] = "tpm"]
    /\ UNCHANGED <<now, samples, stamp, used>>

TPM(c) ==
    /\ at[c] = "tpm"
    /\ ring' = cleanupRing(ring, stamp[c])
    /\ report' = [report EXCEPT ![c].tokens = TotalTokens(ring')]
    /\ at' = [at EXCEPT ![c] = "idle"]
    /\ UNCHANGED <<now, samples, stamp, used>>

MWNext ==
    \/ now < MaxTicks /\ Tick /\ UNCHANGED mwVars
    \/ \E c \in Clients : AddSample(c) \/ RPM(c) \/ TPM(c) \/ \E k \in Tokens : Generate(c, k)

MWSpec == MWInit /\ [][MWNext]_<<now, mwVars>>

-----------------------------------------------------------------------------
(* Properties. *)

Dropped == Len(samples) - ring.count

\* Whatever order calls and cleanups come in, and wherever the head has
\* wandered, the ring holds exactly the latest samples in the order added.
RingIsSuffix ==
    \A i \in 0..(ring.count - 1) : ring.slot[Index(ring, i)] = samples[Dropped + 1 + i]

\* A sample leaves the ring only for one of two reasons: it is older than the
\* window by the time of some call, or MaxSamples newer ones were added.
YoungKept ==
    \A j \in 1..Dropped :
      \/ j <= Len(samples) - MaxSamples
      \/ samples[j].time <= now - WindowSize

\* Calls in any order lose no sample before its time, nor mix two up.
RingKeepsYoung == RingIsSuffix /\ YoungKept

\* The samples of the window that ends with the call of c, as far as the
\* capacity of the ring reaches.
Counted(c) ==
    {j \in 1..Len(samples) : /\ j > Len(samples) - MaxSamples
                             /\ samples[j].time > stamp[c] - WindowSize}

\* The samples were added in the order of their times, and the call of c is
\* not older than any of them.
InOrder(c) ==
    \A i \in 1..Len(samples) :
      /\ samples[i].time <= stamp[c]
      /\ \A j \in 1..i : samples[j].time <= samples[i].time

\* As long as calls reach the lock in the order of their times, whoever they
\* come from, RPM and TPM count exactly the calls of the window: the cleanups
\* other callers made in between lose none of them.
ReportStep ==
    \A c \in Clients : InOrder(c) =>
      /\ at[c] = "rpm" /\ at'[c] = "tpm" => report'[c].calls = Cardinality(Counted(c))
      /\ at[c] = "tpm" /\ at'[c] = "idle" =>
           report'[c].tokens = Total([j \in 1..Len(samples) |->
                                         IF j \in Counted(c) THEN samples[j].tokens ELSE 0])
ReportExact == [][ReportStep]_<<now, mwVars>>

\* The counter keeps what it must and reports what it has.
MetricsExact == []RingKeepsYoung /\ ReportExact
=============================================================================
